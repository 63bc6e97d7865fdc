-------------------------------- MODULE TbAxi --------------------------------
(***************************************************************************)
(* The driver of the testbench on the AXI front end, with the memory of     *)
(* words (WordMemory) that SdramPort shows the controller to be: it accepts *)
(* and answers when it likes.  The two meet at clock edges, as testbench.h  *)
(* wires them; calls begin and return between two edges.                    *)
(***************************************************************************)
EXTENDS TbAxiDriver, SdramAxiPmem

CONSTANTS
  ByteValues,  \* the values of a byte
  MaxDue       \* bound: requests accepted and not yet answered

ASSUME ByteAssumption == 0 \in ByteValues
\* A block is not empty, and one with a mask is an aligned word: write_internal()
\* and write32() assert it.
ASSUME CallsAssumption == \A c \in Calls :
  /\ c.op \in {"write", "read"}
  /\ c.addr \in Addrs
  /\ c.data \in Seq(ByteValues)
  /\ Len(c.data) \in 1 .. AddrSpace
  /\ c.op = "write" => \/ c.mask = 0 .. Len(c.data) - 1
                       \/ c.mask \subseteq Lanes /\ Len(c.data) = 4 /\ c.addr % 4 = 0
\* The controller owes at most five answers, so a four-bit counter holds them.
ASSUME DueAssumption == MaxDue \in 1 .. 14

VARIABLES
  rId, wId,  \* registers of the front end: the ids of the two bursts
  store,     \* the words of the memory
  due,       \* per accepted request the set of the word it reads, {} for a write
  answer,    \* the set of the word the memory answers with in this cycle
  done,      \* history: bytes of the block whose write has been accepted
  rAsked, wAsked  \* history: the bursts as asked for

tbVars == <<driverVars, pmemVars, rId, wId, store, due, answer, done, rAsked, wAsked>>

NumWords  == AddrSpace \div 4
Word      == [Lanes -> ByteValues]
EmptyWord == [l \in Lanes |-> 0]

ASSUME IdleAssumption == IdleData \in Word

\* inport_out and inport_in of the wrapper.
Slave == [awready |-> wState = "wIdle", wready |-> WReady, bvalid |-> BValid, bid |-> wId,
          arready |-> rState = "rIdle", rvalid |-> RValid, rid |-> rId, rlast |-> RLast,
          rdata |-> IF RValid THEN Head(rDataQ) ELSE EmptyWord]

PortReq == [rd |-> grantRead, wr |-> ramWstrb, addr |-> WordOf(ramAddr), data |-> ramData]
Pending == PortReq.rd \/ PortReq.wr # {}

------------------------------------------------------------------------------
\* One clock edge.

\* The memory accepts or not, and then answers the oldest request or none.
MemoryEdge(accept) ==
  LET owing == IF ~accept THEN due
               ELSE Append(due, IF PortReq.rd THEN {store[PortReq.addr]} ELSE {})
  IN /\ accept => Pending /\ Len(due) < MaxDue
     /\ store' = IF accept /\ ~PortReq.rd
                 THEN [store EXCEPT ![PortReq.addr] =
                        [l \in Lanes |-> IF l \in PortReq.wr THEN PortReq.data[l] ELSE @[l]]]
                 ELSE store
     /\ \/ answer' = {} /\ due' = owing
        \/ /\ owing # <<>>
           /\ answer' = IF Head(owing) = {} THEN {EmptyWord} ELSE Head(owing)
           /\ due' = Tail(owing)

IdRegisters(axi) ==
  /\ rId' = IF ArFire(axi) THEN (CHOOSE b \in axi.ar : TRUE).id ELSE rId
  /\ wId' = IF AwFire(axi) THEN (CHOOSE b \in axi.aw : TRUE).id ELSE wId

\* The bytes of the block up to the end of the word just accepted.
Progress(accept) ==
  done' = IF accept /\ ~PortReq.rd
          THEN Min({Len(call.data), done + 4 - ((call.addr + done) % 4)}) ELSE done

Edge(accept) ==
  /\ PmemStep(out, accept, answer # {}, IF answer # {} THEN CHOOSE v \in answer : TRUE ELSE EmptyWord)
  /\ IdRegisters(out)
  /\ Progress(accept)
  /\ rAsked' = IF ArFire(out) THEN out.ar ELSE rAsked
  /\ wAsked' = IF AwFire(out) THEN out.aw ELSE wAsked
  /\ MemoryEdge(accept)
  /\ DriverEdge(Slave)

historyVars == <<done, rAsked, wAsked>>

Clock == \E accept \in BOOLEAN : Edge(accept)

\* The test calls, and the call returns, between two edges.
TestCalls(c) ==
  /\ Begin(c)
  /\ done' = 0
  /\ UNCHANGED <<pmemVars, rId, wId, store, due, answer, rAsked, wAsked>>

CallReturns == Return /\ UNCHANGED <<pmemVars, rId, wId, store, due, answer, historyVars>>

TbInit ==
  /\ DriverInit
  /\ PmemInit
  /\ rId = 0 /\ wId = 0
  /\ store \in [0 .. NumWords - 1 -> Word]
  /\ due = <<>> /\ answer = {}
  /\ done = 0 /\ rAsked = {} /\ wAsked = {}

TbNext ==
  \/ Clock
  \/ \E c \in Calls : TestCalls(c)
  \/ CallReturns

TbSpec == TbInit /\ [][TbNext]_tbVars

\* An edge at which delay_cycle() never says "delay", and one at which the memory
\* does what it can.
Undelayed ==
  /\ Clock
  /\ CanIssue(Untaken(Slave)) \/ split => reqQ' # reqQ
  /\ IF call.op = "write" THEN out'.bready ELSE out'.rready
Served == Edge(Pending /\ Len(due) < MaxDue) /\ (due # <<>> => answer' # {})

\* The clock does not stop and calls that have their answers return.  rand()
\* does not say "delay" for ever, and the memory accepts and answers again and
\* again (HeldIsAccepted of SdramPort).
TbFairness ==
  /\ WF_tbVars(CallReturns)
  /\ SF_tbVars(Undelayed)
  /\ SF_tbVars(Served)

FairTbSpec == TbSpec /\ TbFairness

------------------------------------------------------------------------------
\* Properties.

\* sc_assert in the loops of the driver: a response comes for a request, with
\* its id and with RLAST at its last beat, and m_resp_pending does not wrap.
ResponsesExpected == ResponseExpected(Slave)

\* The calls of the driver are those of BlockDriver: whatever bursts a block is
\* cut into, whatever is delayed and however data runs ahead of its address, a
\* write has stored its bytes, and no others, when it returns, and a read
\* returns what is stored.
Promise == INSTANCE BlockDriver WITH
  NumBytes <- AddrSpace,
  memory <- [a \in Addrs |-> store[a \div 4][a % 4]]

IsBlockDriver == Promise!Spec

\* Behind the front end the driver is the client SdramPort assumes: a request is
\* held on the port until it is accepted.
Port == INSTANCE WordMemory WITH
  req <- PortReq, Bytes <- ByteValues,
  owed <- [k \in DOMAIN due |-> IF due[k] = {} THEN Word ELSE due[k]],
  Requests <- [rd : BOOLEAN, wr : SUBSET Lanes, addr : 0 .. NumWords - 1, data : Word]

IsPortClient == Port!Spec

\* The driver keeps to the protocol of AXI as AxiMaster has it, the environment
\* in which the front end is checked and proved.  The data make no difference
\* to the protocol.
Bare(bursts) == {[addr |-> b.addr, type |-> b.type, len |-> b.len] : b \in bursts}
Lean(beats)  == {[data |-> EmptyWord, strb |-> b.strb] : b \in beats}
Axi == [ar |-> Bare(out.ar), aw |-> Bare(out.aw), w |-> Lean(out.w),
        rready |-> out.rready, bready |-> out.bready]

DriverBursts == [addr : {a \in Addrs : a % 4 = 0}, type : {FIXED, INCR}, len : {0, 1, 3, 7}]

Master == INSTANCE AxiMaster WITH
  NumRows <- 1, RowWords <- 1, CasLatency <- 2, TrcdCycles <- 1, TrpCycles <- 1,
  TrfcCycles <- 1, StartDelay <- 0, RefreshCycles <- 1, Byte <- ByteValues, Junk <- 0,
  ar <- Axi.ar, aw <- Axi.aw, w <- Axi.w, wOwed <- BeatsOwed,
  rAsked <- Bare(rAsked), wAsked <- Bare(wAsked),
  ReadBursts <- DriverBursts, WriteBursts <- DriverBursts, Beats <- [data : {EmptyWord}, strb : SUBSET Lanes]

IsAxiMaster == [][Master!MasterReads(Axi) /\ Master!MasterWrites(Axi)]_tbVars

\* Every call returns.
CallsReturn == call # NoCall ~> call = NoCall

==============================================================================
