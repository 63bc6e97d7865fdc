------------------------ MODULE SdramInterleaveProofs ------------------------
(***************************************************************************)
(* Proofs about SdramInterleave: each of the two controllers is the one of  *)
(* SdramChip, whatever the other does, so what is proved there holds for    *)
(* both; the front end accounts for every read, and the words come back in  *)
(* the order of their beats.                                                *)
(***************************************************************************)
EXTENDS SdramInterleave, AxiMasterProofs, SequenceTheorems, FiniteSetTheorems

\* What SdramChip assumes of the client and of the storage, of either chip.
LEMMA ClientOfChip0 ==
  /\ Requests # {}
  /\ \A r \in Requests :
       /\ r \in [rd : BOOLEAN, wr : SUBSET Chip0!ByteLanes, addr : Nat, data : Chip0!Word]
       /\ r.rd => r.wr = {}
  /\ Contents0 \subseteq [Chip0!Cells -> Chip0!Half]
<1>1. Requests # {}
  <2>1. NumWords \in Nat \ {0}
    BY GeometryAssumption DEF NumWords, NumBanks
  <2>2. 0 \in 0 .. NumWords - 1
    BY <2>1
  <2>3. [rd |-> TRUE, wr |-> {}, addr |-> 0, data |-> IdleData] \in PortRequests(0 .. NumWords - 1)
    BY <2>2 DEF PortRequests, PortData
  <2> QED BY <2>3, FrontEndAssumption
<1>2. /\ Chip0!ByteLanes = ByteLanes /\ Chip0!Word = Word
      /\ Chip0!Cells = Cells /\ Chip0!Half = Half
  BY DEF Cells, Half, Word, ByteLanes, Lanes, NumCells, NumBanks, NumCols, Chip0!Cells,
         Chip0!Half, Chip0!Word, Chip0!ByteLanes, Chip0!Lanes, Chip0!NumCells,
         Chip0!NumBanks, Chip0!NumCols
<1> QED BY <1>1, <1>2, ChipsAssumption

LEMMA ClientOfChip1 ==
  /\ Requests # {}
  /\ \A r \in Requests :
       /\ r \in [rd : BOOLEAN, wr : SUBSET Chip1!ByteLanes, addr : Nat, data : Chip1!Word]
       /\ r.rd => r.wr = {}
  /\ Contents1 \subseteq [Chip1!Cells -> Chip1!Half]
<1>1. Requests # {}
  BY ClientOfChip0
<1>2. /\ Chip1!ByteLanes = ByteLanes /\ Chip1!Word = Word
      /\ Chip1!Cells = Cells /\ Chip1!Half = Half
  BY DEF Cells, Half, Word, ByteLanes, Lanes, NumCells, NumBanks, NumCols, Chip1!Cells,
         Chip1!Half, Chip1!Word, Chip1!ByteLanes, Chip1!Lanes, Chip1!NumCells,
         Chip1!NumBanks, Chip1!NumCols
<1> QED BY <1>1, <1>2, ChipsAssumption

\* The request a controller sees is one of PortRequests: that of the side the
\* arbiter lets through when the word is in its chip, none otherwise.
LEMMA CoreRequestIsClient ==
  ASSUME PmemTypeOK, NEW chip \in Chips
  PROVE  CoreRequest(chip) \in Requests
<1>1. coreAddr \in 0 .. NumWords - 1
  <2>1. NumWords \in Nat \ {0}
    BY GeometryAssumption DEF NumWords, NumBanks
  <2>2. WordOf(ramAddr) \in Nat
    BY PortRequestType
  <2>3. WordOf(ramAddr) \div 2 \in Nat
    BY <2>2
  <2>4. \A a \in Nat, n \in Nat \ {0} : a % n \in 0 .. n - 1
    BY Division
  <2> QED BY <2>1, <2>3, <2>4 DEF coreAddr
<1>2. CoreRequest(chip) \in PortRequests(0 .. NumWords - 1)
  BY <1>1, PortRequestType DEF CoreRequest, PortRequests
<1> QED BY <1>2, FrontEndAssumption

------------------------------------------------------------------------------
\* What SdramChipProofs proves, for either chip.

LEMMA Chip0Facts ==
  /\ Chip0!Init => Chip0!TypeOK
  /\ Chip0!TypeOK /\ [Chip0!Next]_Chip0!chipVars => Chip0!TypeOK'
  /\ Chip0!TypeOK => Chip0!PortWord \in Word /\ ackQ0 \in BOOLEAN
<1>1. Chip0!Word = Word
  BY DEF Word, Half, ByteLanes, Lanes, Chip0!Word, Chip0!ByteLanes
<1>2. Chip0!Init => Chip0!TypeOK
  BY Chip0!InitType, GeometryAssumption, DelayAssumption, TimerAssumption, ByteAssumption,
     ClientOfChip0
<1>3. Chip0!TypeOK /\ [Chip0!Next]_Chip0!chipVars => Chip0!TypeOK'
  BY Chip0!StepType, GeometryAssumption, DelayAssumption, TimerAssumption, ByteAssumption,
     ClientOfChip0
<1>4. Chip0!TypeOK => Chip0!PortWord \in Word /\ ackQ0 \in BOOLEAN
  BY <1>1, Chip0!PortWordType, GeometryAssumption, DelayAssumption, TimerAssumption,
     ByteAssumption, ClientOfChip0
<1> QED BY <1>2, <1>3, <1>4

LEMMA Chip0Safe ==
  Chip0!Spec => [](/\ Chip0!ChipAssertions /\ Chip0!RightRow /\ Chip0!RefreshOnTime
                   /\ Chip0!PoweredUp /\ Chip0!BurstsUndisturbed /\ Chip0!BusExclusive)
<1>1. Chip0!Spec => []Chip0!ChipAssertions
  BY Chip0!AssertionsHold, GeometryAssumption, DelayAssumption, TimerAssumption, ByteAssumption,
     ClientOfChip0
<1>2. Chip0!Spec => []Chip0!RightRow
  BY Chip0!AlwaysRightRow, GeometryAssumption, DelayAssumption, TimerAssumption, ByteAssumption,
     ClientOfChip0
<1>3. Chip0!Spec => []Chip0!RefreshOnTime
  BY Chip0!RefreshAlwaysOnTime, GeometryAssumption, DelayAssumption, TimerAssumption, ByteAssumption,
     ClientOfChip0
<1>4. Chip0!Spec => []Chip0!PoweredUp
  BY Chip0!AlwaysPoweredUp, GeometryAssumption, DelayAssumption, TimerAssumption, ByteAssumption,
     ClientOfChip0
<1>5. Chip0!Spec => []Chip0!BurstsUndisturbed
  BY Chip0!BurstsNeverDisturbed, GeometryAssumption, DelayAssumption, TimerAssumption, ByteAssumption,
     ClientOfChip0
<1>6. Chip0!Spec => []Chip0!BusExclusive
  BY Chip0!BusAlwaysExclusive, GeometryAssumption, DelayAssumption, TimerAssumption, ByteAssumption,
     ClientOfChip0
<1> QED BY <1>1, <1>2, <1>3, <1>4, <1>5, <1>6, PTL

LEMMA Chip1Facts ==
  /\ Chip1!Init => Chip1!TypeOK
  /\ Chip1!TypeOK /\ [Chip1!Next]_Chip1!chipVars => Chip1!TypeOK'
  /\ Chip1!TypeOK => Chip1!PortWord \in Word /\ ackQ1 \in BOOLEAN
<1>1. Chip1!Word = Word
  BY DEF Word, Half, ByteLanes, Lanes, Chip1!Word, Chip1!ByteLanes
<1>2. Chip1!Init => Chip1!TypeOK
  BY Chip1!InitType, GeometryAssumption, DelayAssumption, TimerAssumption, ByteAssumption,
     ClientOfChip1
<1>3. Chip1!TypeOK /\ [Chip1!Next]_Chip1!chipVars => Chip1!TypeOK'
  BY Chip1!StepType, GeometryAssumption, DelayAssumption, TimerAssumption, ByteAssumption,
     ClientOfChip1
<1>4. Chip1!TypeOK => Chip1!PortWord \in Word /\ ackQ1 \in BOOLEAN
  BY <1>1, Chip1!PortWordType, GeometryAssumption, DelayAssumption, TimerAssumption,
     ByteAssumption, ClientOfChip1
<1> QED BY <1>2, <1>3, <1>4

LEMMA Chip1Safe ==
  Chip1!Spec => [](/\ Chip1!ChipAssertions /\ Chip1!RightRow /\ Chip1!RefreshOnTime
                   /\ Chip1!PoweredUp /\ Chip1!BurstsUndisturbed /\ Chip1!BusExclusive)
<1>1. Chip1!Spec => []Chip1!ChipAssertions
  BY Chip1!AssertionsHold, GeometryAssumption, DelayAssumption, TimerAssumption, ByteAssumption,
     ClientOfChip1
<1>2. Chip1!Spec => []Chip1!RightRow
  BY Chip1!AlwaysRightRow, GeometryAssumption, DelayAssumption, TimerAssumption, ByteAssumption,
     ClientOfChip1
<1>3. Chip1!Spec => []Chip1!RefreshOnTime
  BY Chip1!RefreshAlwaysOnTime, GeometryAssumption, DelayAssumption, TimerAssumption, ByteAssumption,
     ClientOfChip1
<1>4. Chip1!Spec => []Chip1!PoweredUp
  BY Chip1!AlwaysPoweredUp, GeometryAssumption, DelayAssumption, TimerAssumption, ByteAssumption,
     ClientOfChip1
<1>5. Chip1!Spec => []Chip1!BurstsUndisturbed
  BY Chip1!BurstsNeverDisturbed, GeometryAssumption, DelayAssumption, TimerAssumption, ByteAssumption,
     ClientOfChip1
<1>6. Chip1!Spec => []Chip1!BusExclusive
  BY Chip1!BusAlwaysExclusive, GeometryAssumption, DelayAssumption, TimerAssumption, ByteAssumption,
     ClientOfChip1
<1> QED BY <1>1, <1>2, <1>3, <1>4, <1>5, <1>6, PTL

------------------------------------------------------------------------------
\* The two chips behind the front end.

InterInv ==
  /\ Chip0!TypeOK /\ Chip1!TypeOK
  /\ pendingQ \in Seq(Chips)
  /\ PmemTypeOK /\ ReadsAccounted /\ MasterTypeOK

LEMMA InterStart == InterInit => InterInv
BY Chip0Facts, Chip1Facts, FrontEndStart DEF InterInit, InterInv

\* A step of the whole is a step of each controller, with one more client.
LEMMA InterStepIsChipStep ==
  PmemTypeOK /\ [InterNext]_interVars => [Chip0!Next]_Chip0!chipVars /\ [Chip1!Next]_Chip1!chipVars
<1>1. ASSUME PmemTypeOK, NEW axi \in AxiInputs, InterCycle(axi)
      PROVE  Chip0!Next /\ Chip1!Next
  <2>1. CoreRequest(0) \in Requests /\ CoreRequest(1) \in Requests
    BY <1>1, CoreRequestIsClient DEF Chips
  <2> QED BY <1>1, <2>1 DEF InterCycle, Chip0!Next, Chip1!Next
<1> QED BY <1>1 DEF InterNext, interVars

\* What reaches the front end is an acknowledgement and a word of some chip.
LEMMA AnswerTypes ==
  ASSUME InterInv
  PROVE  accept \in BOOLEAN /\ routedAck \in BOOLEAN /\ readData \in Word
<1>1. accept \in BOOLEAN
  BY DEF accept, Chip0!Accept, Chip1!Accept
<1>2. ackQ0 \in BOOLEAN /\ ackQ1 \in BOOLEAN /\ Chip0!PortWord \in Word /\ Chip1!PortWord \in Word
  BY Chip0Facts, Chip1Facts DEF InterInv
<1> QED BY <1>1, <1>2 DEF routedAck, readData, Ack

LEMMA PendingStep ==
  ASSUME InterInv, PendingQueue
  PROVE  pendingQ' \in Seq(Chips)
<1>1. pendingQ \in Seq(Chips) /\ chipSel \in Chips
  <2>1. WordOf(ramAddr) \in Nat
    BY PortRequestType, AddrSpaceAssumption DEF InterInv
  <2> QED BY <2>1 DEF InterInv, chipSel, Chips
<1>2. routedAck => pendingQ # <<>>
  BY DEF routedAck
<1>3. (IF routedAck THEN Tail(pendingQ) ELSE pendingQ) \in Seq(Chips)
  BY <1>1, <1>2
<1> QED BY <1>1, <1>3 DEF PendingQueue

LEMMA InterStep == InterInv /\ [InterNext]_interVars => InterInv'
<1>1. ASSUME InterInv, [InterNext]_interVars PROVE Chip0!TypeOK' /\ Chip1!TypeOK'
  BY <1>1, InterStepIsChipStep, Chip0Facts, Chip1Facts DEF InterInv
<1>2. ASSUME InterInv, NEW axi \in AxiInputs, InterCycle(axi)
      PROVE  /\ pendingQ' \in Seq(Chips)
             /\ PmemTypeOK' /\ ReadsAccounted' /\ MasterTypeOK'
  BY <1>2, PendingStep, AnswerTypes, FrontEndStep DEF InterCycle, InterInv
<1>3. ASSUME InterInv, UNCHANGED interVars
      PROVE  /\ pendingQ' \in Seq(Chips)
             /\ PmemTypeOK' /\ ReadsAccounted' /\ MasterTypeOK'
  BY <1>3 DEF InterInv, PmemTypeOK, ReadsAccounted, MasterTypeOK, interVars, pmemVars, readVars,
              writeVars, masterVars
<1> QED BY <1>1, <1>2, <1>3 DEF InterNext, InterInv

LEMMA InterAlways == InterSpec => []InterInv
BY InterStart, InterStep, PTL DEF InterSpec

\* With two controllers that answer at their own pace, too, no word is dropped
\* for want of room and none is returned twice.
THEOREM InterleavedReadsAccounted == InterSpec => []ReadsAccounted
<1>1. InterInv => ReadsAccounted
  BY DEF InterInv
<1> QED BY <1>1, InterAlways, PTL

\* Each of the two controllers is a SdramChip with one more client.
THEOREM ImplementsSdramChips == InterSpec => AreSdramChips
<1>1. InterInit => Chip0!Init /\ Chip1!Init
  BY DEF InterInit
<1>2. InterInv => PmemTypeOK
  BY DEF InterInv
<1> QED BY <1>1, <1>2, InterAlways, InterStepIsChipStep, PTL
        DEF InterSpec, AreSdramChips, Chip0!Spec, Chip1!Spec

\* Hence neither chip sees a command that trips an assertion or disturbs a burst,
\* each access reaches its row, the data pins have one driver and both chips are
\* refreshed on time, whatever the other one does.
THEOREM SafeOnBothChips ==
  InterSpec => [](/\ Chip0!ChipAssertions /\ Chip0!RightRow /\ Chip0!RefreshOnTime
                  /\ Chip0!PoweredUp /\ Chip0!BurstsUndisturbed /\ Chip0!BusExclusive
                  /\ Chip1!ChipAssertions /\ Chip1!RightRow /\ Chip1!RefreshOnTime
                  /\ Chip1!PoweredUp /\ Chip1!BurstsUndisturbed /\ Chip1!BusExclusive)
BY ImplementsSdramChips, Chip0Safe, Chip1Safe, PTL DEF AreSdramChips

------------------------------------------------------------------------------
\* The addresses of a burst.

LEMMA BeatsInterStep ==
  BurstsLegal /\ InterInv /\ BeatsKept /\ [InterNext]_interVars => BeatsKept'
<1>1. ASSUME BurstsLegal, InterInv, BeatsKept, NEW axi \in AxiInputs, InterCycle(axi)
      PROVE  BeatsKept'
  BY <1>1, AnswerTypes, BeatsStep DEF InterInv, InterCycle, PmemStep
<1>2. ASSUME BeatsKept, UNCHANGED interVars PROVE BeatsKept'
  BY <1>2 DEF BeatsKept, interVars, pmemVars, readVars, writeVars, masterVars
<1> QED BY <1>1, <1>2 DEF InterNext

\* Every beat of every burst AXI allows goes to the address AXI gives it with two
\* controllers too, which accept the beats at their own pace.
THEOREM EveryBeatInPlaceOnBoth == BurstsLegal => (InterSpec => []BeatsInPlace)
<1> SUFFICES ASSUME BurstsLegal PROVE InterSpec => []BeatsInPlace
  OBVIOUS
<1>1. InterInit => BeatsKept
  BY BeatsStart DEF InterInit
<1>2. BeatsKept => BeatsInPlace
  BY DEF BeatsKept, BeatsInPlace
<1>3. InterInv /\ BeatsKept /\ [InterNext]_interVars => BeatsKept'
  BY BeatsInterStep
<1> QED BY <1>1, <1>2, <1>3, InterAlways, PTL DEF InterSpec

------------------------------------------------------------------------------
\* The queue of pending chips.

\* The inductive invariant.  A write is at the head of the queue for two cycles
\* at most: whatever other acknowledgements come, its own comes by then.
PendingInv ==
  /\ Len(pendingQ) = rAckPending + wAckPending
  /\ rAckPending = 0 \/ wAckPending = 0
  /\ wAckPending > 0 =>
       \/ Len(pendingQ) = 1 /\ (Ack(pendingQ[1]) \/ State(pendingQ[1]) = "write1")
       \/ Len(pendingQ) = 2 /\ Ack(pendingQ[1]) /\ State(pendingQ[2]) = "write1"

LEMMA OneElement ==
  ASSUME NEW S, NEW q \in Seq(S), Len(q) = 1
  PROVE  q[1] \in S /\ q = <<q[1]>> /\ Tail(q) = <<>>
<1>1. q[1] \in S
  OBVIOUS
<1>2. <<q[1]>> \in Seq(S) /\ Len(<<q[1]>>) = 1 /\ <<q[1]>>[1] = q[1]
  BY <1>1
<1>3. q = <<q[1]>>
  BY <1>2, SeqEqual
<1>4. Tail(q) = <<>>
  BY HeadTailProperties, EmptySeq
<1> QED BY <1>1, <1>3, <1>4

LEMMA TwoElements ==
  ASSUME NEW S, NEW q \in Seq(S), Len(q) = 2
  PROVE  q[2] \in S /\ Tail(q) = <<q[2]>>
<1>1. q[2] \in S
  OBVIOUS
<1>2. Tail(q) \in Seq(S) /\ Len(Tail(q)) = 1 /\ Tail(q)[1] = q[2]
  <2>1. q # <<>>
    BY EmptySeq
  <2>2. /\ Tail(q) \in Seq(S) /\ Len(Tail(q)) = Len(q) - 1
        /\ \A i \in 1 .. Len(Tail(q)) : Tail(q)[i] = q[i + 1]
    BY <2>1, HeadTailProperties, Zenon
  <2>3. Len(Tail(q)) = 1 /\ 1 \in 1 .. 1 /\ 1 + 1 = 2
    BY <2>2
  <2> QED BY <2>2, <2>3, Zenon
<1> QED BY <1>1, <1>2, OneElement

\* Who is accepted, and when.
LEMMA AcceptCases ==
  ASSUME InterInv, PendingInv, accept
  PROVE  /\ reqActive /\ chipSel \in Chips
         /\ \/ grantRead /\ ~grantWrite /\ wAckPending = 0 /\ rAckPending < 4
            \/ grantWrite /\ ~grantRead /\ rAckPending = 0 /\ State(chipSel) = "write0"
<1>1. chipSel \in Chips
  <2>1. WordOf(ramAddr) \in Nat
    BY PortRequestType, AddrSpaceAssumption DEF InterInv
  <2> QED BY <2>1 DEF chipSel, Chips
<1>2. \/ grantRead
      \/ ramWstrb # {} /\ State(chipSel) = "write0"
  BY <1>1 DEF accept, Chip0!Accept, Chip1!Accept, CoreRequest, State
<1>3. ramWstrb # {} => grantWrite
  BY DEF ramWstrb
<1>4. grantRead => ~grantWrite /\ wAckPending = 0 /\ rOutstanding < 4
  BY DEF grantRead, ReadAsks, rReqRam, QUEUE_DEPTH
<1>5. grantWrite => rAckPending = 0
  BY DEF grantWrite, WriteAsks
<1>6. grantRead => rAckPending < 4
  <2>1. rOutstanding = rAckPending + Len(rDataQ) /\ Len(rDataQ) \in Nat
    BY DEF InterInv, ReadsAccounted, PmemTypeOK
  <2>2. rAckPending \in Nat /\ rOutstanding \in Nat
    BY DEF InterInv, PmemTypeOK
  <2> QED BY <1>4, <2>1, <2>2
<1> QED BY <1>1, <1>2, <1>3, <1>4, <1>5, <1>6 DEF reqActive

\* A chip that is accepted a write has it acknowledged two cycles later.
LEMMA WriteMovesOn ==
  ASSUME InterInv, NEW axi \in AxiInputs, InterCycle(axi), NEW chip \in Chips
  PROVE  /\ State(chip) = "write0" => State(chip)' = "write1"
         /\ State(chip) = "write1" => Ack(chip)'
<1>1. CoreRequest(0) \in Requests /\ CoreRequest(1) \in Requests
  BY CoreRequestIsClient DEF InterInv, Chips
<1>2. stateQ0 = "write0" => stateQ0' = "write1"
  BY <1>1, Chip0!WriteCycle, GeometryAssumption, DelayAssumption, TimerAssumption, ByteAssumption,
     ClientOfChip0 DEF InterCycle
<1>3. stateQ0 = "write1" => ackQ0'
  BY <1>1, Chip0!WriteCycle, GeometryAssumption, DelayAssumption, TimerAssumption, ByteAssumption,
     ClientOfChip0 DEF InterCycle
<1>4. stateQ1 = "write0" => stateQ1' = "write1"
  BY <1>1, Chip1!WriteCycle, GeometryAssumption, DelayAssumption, TimerAssumption, ByteAssumption,
     ClientOfChip1 DEF InterCycle
<1>5. stateQ1 = "write1" => ackQ1'
  BY <1>1, Chip1!WriteCycle, GeometryAssumption, DelayAssumption, TimerAssumption, ByteAssumption,
     ClientOfChip1 DEF InterCycle
<1> QED BY <1>2, <1>3, <1>4, <1>5 DEF State, Ack, Chips

LEMMA PendingBounds ==
  ASSUME InterInv, PendingInv
  PROVE  /\ pendingQ \in Seq(Chips) /\ Len(pendingQ) \in Nat
         /\ rAckPending \in Nat /\ wAckPending \in 0 .. 2
         /\ accept => Len(pendingQ) < PENDING_DEPTH
<1>1. /\ pendingQ \in Seq(Chips) /\ Len(pendingQ) \in Nat
      /\ rAckPending \in Nat /\ wAckPending \in Nat
  BY DEF InterInv, PmemTypeOK
<1>2. wAckPending \in 0 .. 2
  BY <1>1 DEF PendingInv
<1>3. accept => Len(pendingQ) < PENDING_DEPTH
  BY <1>1, <1>2, AcceptCases DEF PendingInv, PENDING_DEPTH
<1> QED BY <1>1, <1>2, <1>3

LEMMA PendingInvStep ==
  ASSUME InterInv, PendingInv, NEW axi \in AxiInputs, InterCycle(axi)
  PROVE  PendingInv'
<1> DEFINE kept == IF routedAck THEN Tail(pendingQ) ELSE pendingQ
<1>1. /\ pendingQ \in Seq(Chips) /\ Len(pendingQ) \in Nat
      /\ rAckPending \in Nat /\ wAckPending \in 0 .. 2
      /\ accept => Len(pendingQ) < PENDING_DEPTH
  BY PendingBounds
<1>2. routedAck => pendingQ # <<>> /\ Len(pendingQ) > 0 /\ Ack(pendingQ[1])
  BY <1>1 DEF routedAck, ackCore
<1>3. kept \in Seq(Chips) /\ Len(kept) = Len(pendingQ) - One(routedAck)
  BY <1>1, <1>2 DEF One
<1>4. pendingQ' = IF accept THEN Append(kept, chipSel) ELSE kept
  BY <1>1, AcceptCases DEF InterCycle, PendingQueue
<1>5. chipSel \in Chips
  <2>1. WordOf(ramAddr) \in Nat
    BY PortRequestType, AddrSpaceAssumption DEF InterInv
  <2> QED BY <2>1 DEF chipSel, Chips
<1> HIDE DEF kept
<1>6. Len(pendingQ') = Len(kept) + One(accept)
  <2>1. CASE accept
    <3>1. pendingQ' = Append(kept, chipSel) /\ One(accept) = 1
      BY <1>4, <2>1 DEF One
    <3>2. Len(Append(kept, chipSel)) = Len(kept) + 1
      BY <1>3, <1>5
    <3> QED BY <3>1, <3>2
  <2>2. CASE ~accept
    <3>1. pendingQ' = kept /\ One(accept) = 0
      BY <1>4, <2>2 DEF One
    <3>2. Len(kept) \in Nat
      BY <1>3
    <3> QED BY <3>1, <3>2
  <2> QED BY <2>1, <2>2
<1>7. /\ rAckPending' = rAckPending + One(grantRead /\ accept) - One(ackToRead(routedAck))
      /\ wAckPending' = wAckPending + One(grantWrite /\ accept) - One(ackToWrite(routedAck))
  <2>1. /\ accept \in BOOLEAN /\ routedAck \in BOOLEAN /\ readData \in Word
        /\ PmemTypeOK /\ ReadsAccounted /\ Counters(axi, accept, routedAck)
        /\ ReadQueue(axi, routedAck, readData)
    BY AnswerTypes DEF InterCycle, PmemStep, InterInv
  <2>2. rAckPending' = rAckPending + One(grantRead /\ accept) - One(ackToRead(routedAck))
    BY <2>1, ReadCounters
  <2>3. wAckPending' = wAckPending + One(grantWrite /\ accept) - One(ackToWrite(routedAck))
    BY <1>1, <2>1 DEF Counters, One, ackToWrite
  <2> QED BY <2>2, <2>3
<1>8. One(routedAck) = One(ackToRead(routedAck)) + One(ackToWrite(routedAck))
  BY <1>1, <1>2 DEF PendingInv, One, ackToRead, ackToWrite
<1>9. One(accept) = One(grantRead /\ accept) + One(grantWrite /\ accept)
  BY AcceptCases DEF One
<1>10. \A p : One(p) \in 0 .. 1
  BY DEF One
<1>11. Len(pendingQ') = rAckPending' + wAckPending'
  <2> DEFINE rIn  == One(grantRead /\ accept)
             wIn  == One(grantWrite /\ accept)
             rOut == One(ackToRead(routedAck))
             wOut == One(ackToWrite(routedAck))
  <2>1. rIn \in Int /\ wIn \in Int /\ rOut \in Int /\ wOut \in Int
    BY DEF One
  <2>2. Len(pendingQ) = rAckPending + wAckPending
    BY DEF PendingInv
  <2>3. /\ Len(pendingQ') = ((rAckPending + wAckPending) - One(routedAck)) + One(accept)
        /\ One(routedAck) = rOut + wOut /\ One(accept) = rIn + wIn
        /\ rAckPending' = rAckPending + rIn - rOut /\ wAckPending' = wAckPending + wIn - wOut
    BY <1>3, <1>6, <1>7, <1>8, <1>9, <2>2, Zenon
  <2>4. rAckPending \in Int /\ wAckPending \in Int
    BY <1>1
  <2> HIDE DEF rIn, wIn, rOut, wOut
  <2>5. Len(pendingQ') = ((rAckPending + wAckPending) - (rOut + wOut)) + (rIn + wIn)
    BY <2>3, Zenon
  <2>6. ((rAckPending + wAckPending) - (rOut + wOut)) + (rIn + wIn)
        = (rAckPending + rIn - rOut) + (wAckPending + wIn - wOut)
    BY <2>1, <2>4
  <2> QED BY <2>3, <2>5, <2>6, Zenon
<1>12. rAckPending' = 0 \/ wAckPending' = 0
  BY <1>1, <1>7, AcceptCases DEF PendingInv, One, ackToRead, ackToWrite
<1>13. accept /\ grantWrite => State(chipSel) = "write0" /\ rAckPending = 0
  BY AcceptCases
<1>14. \A chip \in Chips :
         /\ State(chip) = "write0" => State(chip)' = "write1"
         /\ State(chip) = "write1" => Ack(chip)'
  BY WriteMovesOn
<1>15. wAckPending > 0 => Len(pendingQ) = wAckPending
  <2>1. ASSUME wAckPending > 0 PROVE rAckPending = 0
    BY <1>1, <2>1 DEF PendingInv
  <2>2. Len(pendingQ) = rAckPending + wAckPending
    BY DEF PendingInv
  <2> QED BY <1>1, <2>1, <2>2
<1>16. ASSUME wAckPending' > 0
       PROVE  \/ Len(pendingQ') = 1 /\ (Ack(pendingQ[1])' \/ State(pendingQ[1])' = "write1")
              \/ Len(pendingQ') = 2 /\ Ack(pendingQ[1])' /\ State(pendingQ[2])' = "write1"
  <2>1. ASSUME kept = <<>>
        PROVE  accept /\ grantWrite => Len(pendingQ') = 1 /\ State(pendingQ[1])' = "write1"
    <3> SUFFICES ASSUME accept, grantWrite
                 PROVE  Len(pendingQ') = 1 /\ State(pendingQ[1])' = "write1"
      OBVIOUS
    <3>1. Len(pendingQ') = 1 /\ pendingQ'[1] = chipSel
      BY <1>4, <1>5, <2>1
    <3>2. PICK chip \in Chips : chip = chipSel
      BY <1>5
    <3>3. State(chip)' = "write1"
      BY <1>13, <1>14, <3>2
    <3> QED BY <3>1, <3>2, <3>3 DEF State
  <2>2. ASSUME NEW chip \in Chips, kept = <<chip>>, State(chip) = "write1", accept => grantWrite
        PROVE  \/ Len(pendingQ') = 1 /\ Ack(pendingQ[1])'
               \/ Len(pendingQ') = 2 /\ Ack(pendingQ[1])' /\ State(pendingQ[2])' = "write1"
    <3>1. Ack(chip)'
      BY <1>14, <2>2
    <3>2. CASE accept
      <4>1. Len(pendingQ') = 2 /\ pendingQ'[1] = chip /\ pendingQ'[2] = chipSel
        BY <1>4, <1>5, <2>2, <3>2
      <4>2. PICK next \in Chips : next = chipSel
        BY <1>5
      <4>3. State(next)' = "write1"
        BY <1>13, <1>14, <2>2, <3>2, <4>2
      <4> QED BY <3>1, <4>1, <4>2, <4>3 DEF State, Ack
    <3>3. CASE ~accept
      <4>1. Len(pendingQ') = 1 /\ pendingQ'[1] = chip
        BY <1>4, <2>2, <3>3
      <4> QED BY <3>1, <4>1 DEF Ack
    <3> QED BY <3>2, <3>3
  <2>3. CASE wAckPending = 0
    <3>1. accept /\ grantWrite
      BY <1>7, <2>3, <1>16 DEF One, ackToWrite
    <3>2. Len(pendingQ) = 0
      BY <1>13, <2>3, <3>1 DEF PendingInv
    <3>3. kept = <<>>
      BY <1>1, <1>2, <3>2 DEF kept
    <3> QED BY <2>1, <3>1, <3>3
  <2>4. CASE wAckPending > 0
    <3>1. accept => grantWrite
      BY <1>1, <2>4, AcceptCases
    <3>2. CASE Len(pendingQ) = 1 /\ Ack(pendingQ[1])
      <4>1. routedAck
        BY <1>1, <3>2 DEF routedAck, ackCore
      <4>2. kept = <<>>
        BY <1>1, <3>2, <4>1, OneElement DEF kept
      <4>3. wAckPending = 1
        BY <1>1, <1>15, <2>4, <3>2
      <4>4. accept
        BY <1>7, <1>16, <2>4, <4>1, <4>3 DEF One, ackToWrite
      <4> QED BY <2>1, <3>1, <4>2, <4>4
    <3>3. CASE Len(pendingQ) = 1 /\ ~Ack(pendingQ[1]) /\ State(pendingQ[1]) = "write1"
      <4>1. ~routedAck
        BY <1>2, <3>3
      <4>2. pendingQ[1] \in Chips /\ pendingQ = <<pendingQ[1]>>
        BY <1>1, <3>3, OneElement
      <4>3. kept = <<pendingQ[1]>>
        BY <4>1, <4>2 DEF kept
      <4> QED BY <2>2, <3>1, <3>3, <4>2, <4>3
    <3>4. CASE Len(pendingQ) = 2 /\ Ack(pendingQ[1]) /\ State(pendingQ[2]) = "write1"
      <4>1. routedAck
        BY <1>1, <3>4 DEF routedAck, ackCore
      <4>2. pendingQ[2] \in Chips /\ Tail(pendingQ) = <<pendingQ[2]>>
        BY <1>1, <3>4, TwoElements
      <4>3. kept = <<pendingQ[2]>>
        BY <4>1, <4>2 DEF kept
      <4> QED BY <2>2, <3>1, <3>4, <4>2, <4>3
    <3> QED BY <2>4, <3>2, <3>3, <3>4 DEF PendingInv
  <2> QED BY <1>1, <2>3, <2>4
<1> QED BY <1>11, <1>12, <1>16 DEF PendingInv

LEMMA PendingAlways == InterSpec => []PendingInv
<1>1. InterInit => PendingInv
  BY DEF InterInit, PmemInit, PendingInv
<1>2. InterInv /\ PendingInv /\ [InterNext]_interVars => PendingInv'
  <2>1. ASSUME PendingInv, UNCHANGED interVars PROVE PendingInv'
    BY <2>1 DEF PendingInv, Ack, State, interVars, pmemVars, Chip0!chipVars, Chip1!chipVars,
       Chip0!coreVars, Chip1!coreVars, Chip0!fsmVars, Chip1!fsmVars, Chip0!pipeVars, Chip1!pipeVars
  <2> QED BY <2>1, PendingInvStep DEF InterNext
<1> QED BY <1>1, <1>2, InterAlways, PTL DEF InterSpec

\* The queue of pending chips holds one entry for each request that waits for its
\* acknowledgement, and has room whenever one is accepted, though nobody looks.
THEOREM PendingAlwaysAccounted == InterSpec => []PendingAccounted
<1>1. InterInv /\ PendingInv => PendingAccounted
  BY PendingBounds DEF PendingInv, PendingAccounted
<1> QED BY <1>1, InterAlways, PendingAlways, PTL

------------------------------------------------------------------------------
\* What each controller serves.

HeadingOf(chip) == IF chip = 1 THEN Chip1!Heading ELSE Chip0!Heading

LEMMA Chip0Serves ==
  ASSUME Chip0!TypeOK, CoreRequest(0) \in Requests, Chip0!Cycle(CoreRequest(0))
  PROVE  /\ Chip0!Heading' = "read" =>
              \/ Chip0!Heading = "read" /\ stateQ0 # "read" /\ reqAddrQ0' = reqAddrQ0
              \/ /\ stateQ0 \notin {"read", "write0"} /\ CoreRequest(0).rd
                 /\ reqAddrQ0' = CoreRequest(0).addr
         /\ Chip0!Heading' = "write0" =>
              \/ /\ Chip0!Heading = "write0" /\ stateQ0 # "write0"
                 /\ reqAddrQ0' = reqAddrQ0 /\ reqWrStrbQ0' = reqWrStrbQ0
              \/ /\ stateQ0 \notin {"read", "write0"} /\ CoreRequest(0).wr # {}
                 /\ reqAddrQ0' = CoreRequest(0).addr /\ reqWrStrbQ0' = CoreRequest(0).wr
         /\ stateQ0' = "write1" => stateQ0 = "write0"
         /\ Chip0!ReadsDrain => Chip0!ReadsDrain'
<1>1. Chip0!Fsm(CoreRequest(0))
  BY DEF Chip0!Cycle, Chip0!CoreStep
<1>2. /\ Chip0!Heading' = "read" =>
           \/ Chip0!Heading = "read" /\ stateQ0 # "read" /\ reqAddrQ0' = reqAddrQ0
           \/ /\ stateQ0 \notin {"read", "write0"} /\ CoreRequest(0).rd
              /\ reqAddrQ0' = CoreRequest(0).addr
      /\ Chip0!Heading' = "write0" =>
           \/ Chip0!Heading = "write0" /\ stateQ0 # "write0" /\ UNCHANGED Chip0!reqVars
           \/ /\ stateQ0 \notin {"read", "write0"} /\ CoreRequest(0).wr # {}
              /\ reqAddrQ0' = CoreRequest(0).addr /\ reqWrStrbQ0' = CoreRequest(0).wr
  BY <1>1, Chip0!HeadingStep, GeometryAssumption, DelayAssumption, TimerAssumption, ByteAssumption,
     ClientOfChip0
<1>3. stateQ0' = "write1" => stateQ0 = "write0"
  BY <1>1, Chip0!StateStep, GeometryAssumption, DelayAssumption, TimerAssumption, ByteAssumption,
     ClientOfChip0
<1>4. Chip0!ReadsDrain => Chip0!ReadsDrain'
  BY Chip0!DrainStep, GeometryAssumption, DelayAssumption, TimerAssumption, ByteAssumption,
     ClientOfChip0
<1> QED BY <1>2, <1>3, <1>4 DEF Chip0!reqVars

LEMMA Chip1Serves ==
  ASSUME Chip1!TypeOK, CoreRequest(1) \in Requests, Chip1!Cycle(CoreRequest(1))
  PROVE  /\ Chip1!Heading' = "read" =>
              \/ Chip1!Heading = "read" /\ stateQ1 # "read" /\ reqAddrQ1' = reqAddrQ1
              \/ /\ stateQ1 \notin {"read", "write0"} /\ CoreRequest(1).rd
                 /\ reqAddrQ1' = CoreRequest(1).addr
         /\ Chip1!Heading' = "write0" =>
              \/ /\ Chip1!Heading = "write0" /\ stateQ1 # "write0"
                 /\ reqAddrQ1' = reqAddrQ1 /\ reqWrStrbQ1' = reqWrStrbQ1
              \/ /\ stateQ1 \notin {"read", "write0"} /\ CoreRequest(1).wr # {}
                 /\ reqAddrQ1' = CoreRequest(1).addr /\ reqWrStrbQ1' = CoreRequest(1).wr
         /\ stateQ1' = "write1" => stateQ1 = "write0"
         /\ Chip1!ReadsDrain => Chip1!ReadsDrain'
<1>1. Chip1!Fsm(CoreRequest(1))
  BY DEF Chip1!Cycle, Chip1!CoreStep
<1>2. /\ Chip1!Heading' = "read" =>
           \/ Chip1!Heading = "read" /\ stateQ1 # "read" /\ reqAddrQ1' = reqAddrQ1
           \/ /\ stateQ1 \notin {"read", "write0"} /\ CoreRequest(1).rd
              /\ reqAddrQ1' = CoreRequest(1).addr
      /\ Chip1!Heading' = "write0" =>
           \/ Chip1!Heading = "write0" /\ stateQ1 # "write0" /\ UNCHANGED Chip1!reqVars
           \/ /\ stateQ1 \notin {"read", "write0"} /\ CoreRequest(1).wr # {}
              /\ reqAddrQ1' = CoreRequest(1).addr /\ reqWrStrbQ1' = CoreRequest(1).wr
  BY <1>1, Chip1!HeadingStep, GeometryAssumption, DelayAssumption, TimerAssumption, ByteAssumption,
     ClientOfChip1
<1>3. stateQ1' = "write1" => stateQ1 = "write0"
  BY <1>1, Chip1!StateStep, GeometryAssumption, DelayAssumption, TimerAssumption, ByteAssumption,
     ClientOfChip1
<1>4. Chip1!ReadsDrain => Chip1!ReadsDrain'
  BY Chip1!DrainStep, GeometryAssumption, DelayAssumption, TimerAssumption, ByteAssumption,
     ClientOfChip1
<1> QED BY <1>2, <1>3, <1>4 DEF Chip1!reqVars

LEMMA ChipServes ==
  ASSUME InterInv, NEW axi \in AxiInputs, InterCycle(axi), NEW chip \in Chips
  PROVE  /\ HeadingOf(chip)' = "read" =>
              \/ /\ HeadingOf(chip) = "read" /\ State(chip) # "read"
                 /\ Latched(chip)' = Latched(chip)
              \/ /\ State(chip) \notin {"read", "write0"} /\ CoreRequest(chip).rd
                 /\ Latched(chip)' = CoreRequest(chip).addr
         /\ HeadingOf(chip)' = "write0" =>
              \/ /\ HeadingOf(chip) = "write0" /\ State(chip) # "write0"
                 /\ Latched(chip)' = Latched(chip) /\ Strobed(chip)' = Strobed(chip)
              \/ /\ State(chip) \notin {"read", "write0"} /\ CoreRequest(chip).wr # {}
                 /\ Latched(chip)' = CoreRequest(chip).addr /\ Strobed(chip)' = CoreRequest(chip).wr
         /\ State(chip)' = "write1" => State(chip) = "write0"
<1>1. CoreRequest(0) \in Requests /\ CoreRequest(1) \in Requests
  BY CoreRequestIsClient DEF InterInv, Chips
<1>2. CASE chip = 0
  BY <1>1, <1>2, Chip0Serves DEF InterInv, InterCycle, HeadingOf, State, Latched, Strobed
<1>3. CASE chip = 1
  BY <1>1, <1>3, Chip1Serves DEF InterInv, InterCycle, HeadingOf, State, Latched, Strobed
<1> QED BY <1>2, <1>3 DEF Chips

\* A request is accepted where its word is.
LEMMA AcceptedThere ==
  ASSUME InterInv, accept
  PROVE  /\ grantRead => WordOf(rAddr) % 2 \in Chips /\ State(WordOf(rAddr) % 2) = "read"
         /\ grantWrite => WordOf(wAddr) % 2 \in Chips /\ State(WordOf(wAddr) % 2) = "write0"
         /\ grantRead => ~grantWrite
<1>1. chipSel \in Chips
  <2>1. WordOf(ramAddr) \in Nat
    BY PortRequestType, AddrSpaceAssumption DEF InterInv
  <2> QED BY <2>1 DEF chipSel, Chips
<1>2. grantRead => ~grantWrite
  BY DEF grantRead
<1>3. grantRead => chipSel = WordOf(rAddr) % 2 /\ ramWstrb = {}
  BY <1>2 DEF chipSel, ramAddr, ramWstrb
<1>4. grantWrite => chipSel = WordOf(wAddr) % 2
  BY <1>2 DEF chipSel, ramAddr
<1>5. \/ grantRead /\ State(chipSel) = "read"
      \/ ramWstrb # {} /\ State(chipSel) = "write0"
  BY <1>1 DEF accept, Chip0!Accept, Chip1!Accept, CoreRequest, State, Chips
<1> QED BY <1>1, <1>2, <1>3, <1>4, <1>5

\* While a machine heads for a state that serves a side, that side asks for the
\* word that was latched.
LatchedOnBoth ==
  \A chip \in Chips :
    /\ HeadingOf(chip) = "read" => rReqRam /\ Place(chip, rAddr)
    /\ HeadingOf(chip) = "write0" => /\ wReqRam /\ Place(chip, wAddr)
                                     /\ Strobed(chip) = Head(wDataQueue).strb

LEMMA LatchedOnBothStart == InterInit => LatchedOnBoth
BY DEF InterInit, Chip0!Init, Chip1!Init, Chip0!CoreInit, Chip1!CoreInit, LatchedOnBoth, HeadingOf,
   Chip0!Heading, Chip1!Heading, Chip0!Goal, Chip1!Goal

LEMMA HeadingIsState ==
  ASSUME NEW chip \in Chips
  PROVE  State(chip) \in {"read", "write0"} => HeadingOf(chip) = State(chip)
BY DEF HeadingOf, State, Chip0!Heading, Chip1!Heading, Chip0!Goal, Chip1!Goal

LEMMA LatchedOnBothStep ==
  ASSUME InterInv, LatchedOnBoth, NEW axi \in AxiInputs, InterCycle(axi)
  PROVE  LatchedOnBoth'
<1>1. /\ accept \in BOOLEAN /\ routedAck \in BOOLEAN /\ readData \in Word
      /\ PmemTypeOK /\ ReadsAccounted /\ MasterTypeOK
      /\ PmemStep(axi, accept, routedAck, readData)
  BY AnswerTypes DEF InterCycle, InterInv
<1>2. ASSUME NEW chip \in Chips, HeadingOf(chip)' = "read"
      PROVE  rReqRam' /\ Place(chip, rAddr)'
  <2>1. /\ rReqRam /\ State(chip) # "read" /\ WordOf(rAddr) % 2 = chip
        /\ Latched(chip)' = (WordOf(rAddr) \div 2) % NumWords
    <3>1. CASE /\ HeadingOf(chip) = "read" /\ State(chip) # "read"
               /\ Latched(chip)' = Latched(chip)
      BY <3>1 DEF LatchedOnBoth, Place
    <3>2. CASE /\ State(chip) \notin {"read", "write0"} /\ CoreRequest(chip).rd
               /\ Latched(chip)' = CoreRequest(chip).addr
      BY <3>2 DEF CoreRequest, coreAddr, chipSel, ramAddr, grantRead, ReadAsks
    <3> QED BY <1>2, <3>1, <3>2, ChipServes
  <2>2. ~(grantRead /\ accept)
    BY <2>1, AcceptedThere
  <2>3. rReqRam' /\ rAddr' = rAddr
    BY <1>1, <2>1, <2>2, ReadHolds
  <2> QED BY <2>1, <2>3 DEF Place
<1>3. ASSUME NEW chip \in Chips, HeadingOf(chip)' = "write0"
      PROVE  /\ wReqRam' /\ Place(chip, wAddr)'
             /\ Strobed(chip)' = Head(wDataQueue').strb
  <2>1. /\ wReqRam /\ State(chip) # "write0" /\ WordOf(wAddr) % 2 = chip
        /\ Latched(chip)' = (WordOf(wAddr) \div 2) % NumWords
        /\ Strobed(chip)' = Head(wDataQueue).strb
    <3>1. CASE /\ HeadingOf(chip) = "write0" /\ State(chip) # "write0"
               /\ Latched(chip)' = Latched(chip) /\ Strobed(chip)' = Strobed(chip)
      BY <3>1 DEF LatchedOnBoth, Place
    <3>2. CASE /\ State(chip) \notin {"read", "write0"} /\ CoreRequest(chip).wr # {}
               /\ Latched(chip)' = CoreRequest(chip).addr /\ Strobed(chip)' = CoreRequest(chip).wr
      BY <3>2 DEF CoreRequest, coreAddr, chipSel, ramAddr, ramWstrb, grantRead, grantWrite, WriteAsks
    <3> QED BY <1>3, <3>1, <3>2, ChipServes
  <2>2. ~(grantWrite /\ accept)
    BY <2>1, AcceptedThere
  <2>3. wReqRam' /\ wAddr' = wAddr /\ Head(wDataQueue') = Head(wDataQueue)
    BY <1>1, <2>1, <2>2, WriteHolds
  <2> QED BY <2>1, <2>3 DEF Place
<1> QED BY <1>2, <1>3 DEF LatchedOnBoth

LEMMA LatchedOnBothFollows == LatchedOnBoth => LatchedIsNextOnBoth
BY HeadingIsState DEF LatchedOnBoth, LatchedIsNextOnBoth, rReqRam, wReqRam

------------------------------------------------------------------------------
\* The acknowledgements of writes.

DrainsOnBoth == Chip0!ReadsDrain /\ Chip1!ReadsDrain

LEMMA NoAckAtWrite1 ==
  ASSUME DrainsOnBoth, NEW chip \in Chips
  PROVE  State(chip) = "write1" => ~Ack(chip)
BY DEF DrainsOnBoth, Chips, State, Ack, Chip0!ReadsDrain, Chip1!ReadsDrain

LEMMA WriteAcksFollow ==
  ASSUME InterInv, PendingInv, DrainsOnBoth
  PROVE  WriteAcksMatch
<1> SUFFICES ASSUME wAckPending > 0, NEW chip \in Chips, OwedBy(chip) > 0
             PROVE  OwedBy(chip) = One(State(chip) = "write1") + One(Ack(chip))
  BY DEF WriteAcksMatch
<1>1. pendingQ \in Seq(Chips) /\ DOMAIN pendingQ = 1 .. Len(pendingQ)
  BY DEF InterInv
<1> DEFINE owed == {i \in DOMAIN pendingQ : pendingQ[i] = chip}
<1>2. CASE Len(pendingQ) = 1 /\ (Ack(pendingQ[1]) \/ State(pendingQ[1]) = "write1")
  <2>1. CASE pendingQ[1] = chip
    <3>1. owed = {1}
      BY <1>1, <1>2, <2>1
    <3>2. OwedBy(chip) = 1
      BY <3>1, FS_Singleton DEF OwedBy
    <3> QED BY <1>2, <2>1, <3>2, NoAckAtWrite1 DEF One
  <2>2. CASE pendingQ[1] # chip
    <3>1. owed = {}
      BY <1>1, <1>2, <2>2
    <3> QED BY <3>1, FS_EmptySet DEF OwedBy
  <2> QED BY <2>1, <2>2
<1>3. CASE Len(pendingQ) = 2 /\ Ack(pendingQ[1]) /\ State(pendingQ[2]) = "write1"
  <2>1. pendingQ[1] \in Chips /\ pendingQ[2] \in Chips
    <3>1. 1 \in 1 .. Len(pendingQ) /\ 2 \in 1 .. Len(pendingQ)
      BY <1>3
    <3> QED BY <1>1, <3>1, ElementOfSeq
  <2>2. ~Ack(pendingQ[2]) /\ State(pendingQ[1]) # "write1" /\ pendingQ[1] # pendingQ[2]
    BY <1>3, <2>1, NoAckAtWrite1
  <2>3. CASE pendingQ[1] = chip
    <3>1. owed = {1}
      BY <1>1, <1>3, <2>2, <2>3
    <3>2. OwedBy(chip) = 1
      BY <3>1, FS_Singleton DEF OwedBy
    <3> QED BY <1>3, <2>2, <2>3, <3>2 DEF One
  <2>4. CASE pendingQ[2] = chip
    <3>1. owed = {2}
      BY <1>1, <1>3, <2>2, <2>4
    <3>2. OwedBy(chip) = 1
      BY <3>1, FS_Singleton DEF OwedBy
    <3> QED BY <1>3, <2>2, <2>4, <3>2 DEF One
  <2>5. CASE pendingQ[1] # chip /\ pendingQ[2] # chip
    <3>1. owed = {}
      BY <1>1, <1>3, <2>5
    <3> QED BY <3>1, FS_EmptySet DEF OwedBy
  <2> QED BY <2>3, <2>4, <2>5
<1> QED BY <1>2, <1>3 DEF PendingInv

------------------------------------------------------------------------------
\* When a write is answered.

PinsOnBoth ==
  /\ Chip0!PowerInv /\ Chip0!BurstInv
  /\ Chip1!PowerInv /\ Chip1!BurstInv

\* What is on its way to a chip when all is asked for is owed an acknowledgement,
\* and the answer waits for those.  A write that is being carried out is the last
\* one in the queue: it is not acknowledged in this cycle.
WrittenOnBoth ==
  /\ wAllReqsSent =>
       \A chip \in Chips :
         /\ State(chip) = "write1" => wAckPending > 0 /\ pendingQ[Len(pendingQ)] = chip
         /\ Landing(chip) > 0 => wAckPending > 0
  /\ wState = "wResp" => wAllReqsSent /\ wAckPending = 0

LEMMA WrittenOnBothStart == InterInit => WrittenOnBoth
BY DEF InterInit, PmemInit, Chip0!Init, Chip1!Init, Chip0!CoreInit, Chip1!CoreInit, Chip0!MemInit,
   Chip1!MemInit, WrittenOnBoth, State, Landing

LEMMA Landing0 ==
  ASSUME Chip0!TypeOK, Chip0!PowerInv, Chip0!BurstInv, CoreRequest(0) \in Requests,
         Chip0!Cycle(CoreRequest(0))
  PROVE  burstWriteCountQ0' > 0 => stateQ0 = "write1"
<1>1. Chip0!Fsm(CoreRequest(0)) /\ Chip0!MemStep(pins0, Chip0!DQ)
  BY DEF Chip0!Cycle, Chip0!CoreStep
<1>2. burstWriteCountQ0' > 0 => pins0.cmd = "WRITE"
  BY <1>1, Chip0!BurstOfStep, GeometryAssumption, DelayAssumption, TimerAssumption, ByteAssumption,
     ClientOfChip0
<1> QED BY <1>2 DEF Chip0!BurstInv

LEMMA Landing1 ==
  ASSUME Chip1!TypeOK, Chip1!PowerInv, Chip1!BurstInv, CoreRequest(1) \in Requests,
         Chip1!Cycle(CoreRequest(1))
  PROVE  burstWriteCountQ1' > 0 => stateQ1 = "write1"
<1>1. Chip1!Fsm(CoreRequest(1)) /\ Chip1!MemStep(pins1, Chip1!DQ)
  BY DEF Chip1!Cycle, Chip1!CoreStep
<1>2. burstWriteCountQ1' > 0 => pins1.cmd = "WRITE"
  BY <1>1, Chip1!BurstOfStep, GeometryAssumption, DelayAssumption, TimerAssumption, ByteAssumption,
     ClientOfChip1
<1> QED BY <1>2 DEF Chip1!BurstInv

LEMMA LandingAfterWrite1 ==
  ASSUME InterInv, PinsOnBoth, NEW axi \in AxiInputs, InterCycle(axi), NEW chip \in Chips
  PROVE  Landing(chip)' > 0 => State(chip) = "write1"
<1>1. CoreRequest(0) \in Requests /\ CoreRequest(1) \in Requests
  BY CoreRequestIsClient DEF InterInv, Chips
<1>2. CASE chip = 0
  BY <1>1, <1>2, Landing0 DEF InterInv, InterCycle, PinsOnBoth, Landing, State
<1>3. CASE chip = 1
  BY <1>1, <1>3, Landing1 DEF InterInv, InterCycle, PinsOnBoth, Landing, State
<1> QED BY <1>2, <1>3 DEF Chips

LEMMA WrittenOnBothStep ==
  ASSUME InterInv, PendingInv, DrainsOnBoth, PinsOnBoth, LatchedOnBoth, WrittenOnBoth,
         NEW axi \in AxiInputs, InterCycle(axi)
  PROVE  WrittenOnBoth'
<1> DEFINE acceptW == grantWrite /\ accept
           kept    == IF routedAck THEN Tail(pendingQ) ELSE pendingQ
<1>1. /\ accept \in BOOLEAN /\ routedAck \in BOOLEAN /\ readData \in Word
      /\ PmemTypeOK /\ ReadsAccounted /\ MasterTypeOK
      /\ PmemStep(axi, accept, routedAck, readData)
  BY AnswerTypes DEF InterCycle, InterInv
<1>2. /\ pendingQ \in Seq(Chips) /\ Len(pendingQ) \in Nat
      /\ rAckPending \in Nat /\ wAckPending \in 0 .. 2
      /\ accept => Len(pendingQ) < PENDING_DEPTH
  BY PendingBounds
<1>3. wAckPending' = wAckPending + One(acceptW) - One(ackToWrite(routedAck))
  BY <1>1, <1>2, WriteCounter
<1>4. /\ ackToWrite(routedAck) <=> routedAck /\ wAckPending > 0
      /\ routedAck => pendingQ # <<>> /\ Ack(pendingQ[1])
  BY DEF ackToWrite, routedAck, ackCore
<1>5. acceptW => /\ wReqRam /\ WordOf(wAddr) % 2 \in Chips
                 /\ State(WordOf(wAddr) % 2) = "write0"
  BY AcceptedThere DEF InterInv, grantWrite, WriteAsks
<1>6. /\ wState' = "wResp" => \/ wState = "wResp" /\ wAllReqsSent' = wAllReqsSent
                              \/ wState = "wBurst" /\ wAllReqsSent' /\ wAllReqsSent /\ wAckPending = 0
      /\ wAllReqsSent' => wAllReqsSent \/ acceptW
  BY <1>1, WriteEnds
<1>7. acceptW => pendingQ' = Append(kept, WordOf(wAddr) % 2)
  <2> SUFFICES ASSUME acceptW PROVE pendingQ' = Append(kept, WordOf(wAddr) % 2)
    OBVIOUS
  <2>1. reqActive /\ ~grantRead
    BY AcceptCases DEF grantRead
  <2>2. chipSel = WordOf(wAddr) % 2
    BY <2>1 DEF chipSel, ramAddr
  <2> QED BY <1>2, <2>1, <2>2 DEF InterCycle, PendingQueue
<1>8. kept \in Seq(Chips)
  BY <1>2, <1>4
<1>9. acceptW => wAckPending' > 0
  BY <1>2, <1>3, <1>4 DEF One
<1>10. ASSUME wAllReqsSent', NEW chip \in Chips, State(chip)' = "write1"
       PROVE  wAckPending' > 0 /\ pendingQ'[Len(pendingQ')] = chip
  <2>1. State(chip) = "write0"
    BY <1>10, ChipServes
  <2>2. wReqRam /\ WordOf(wAddr) % 2 = chip
    BY <2>1, HeadingIsState DEF LatchedOnBoth, Place
  <2>3. acceptW
    BY <1>6, <1>10, <2>2 DEF wReqRam
  <2>4. pendingQ' = Append(kept, chip)
    BY <1>7, <2>2, <2>3
  <2> HIDE DEF kept
  <2>5. pendingQ'[Len(pendingQ')] = chip
    BY <1>8, <2>4
  <2> QED BY <1>9, <2>3, <2>5
<1>11. ASSUME wAllReqsSent', NEW chip \in Chips, Landing(chip)' > 0
       PROVE  wAckPending' > 0
  <2>1. State(chip) = "write1"
    BY <1>11, LandingAfterWrite1
  <2>2. CASE acceptW
    BY <1>9, <2>2
  <2>3. CASE ~acceptW
    <3>1. wAllReqsSent
      BY <1>6, <1>11, <2>3
    <3>2. wAckPending > 0 /\ pendingQ[Len(pendingQ)] = chip /\ ~Ack(chip)
      BY <2>1, <3>1, NoAckAtWrite1 DEF WrittenOnBoth
    <3>3. wAckPending = 1 => ~routedAck
      <4> SUFFICES ASSUME wAckPending = 1 PROVE ~routedAck
        OBVIOUS
      <4>1. Len(pendingQ) = 1
        BY <1>2 DEF PendingInv
      <4> QED BY <1>4, <3>2, <4>1
    <3> HIDE DEF acceptW
    <3> QED BY <1>2, <1>3, <1>4, <2>3, <3>2, <3>3 DEF One
  <2> QED BY <2>2, <2>3
<1>12. ASSUME wState' = "wResp" PROVE wAllReqsSent' /\ wAckPending' = 0
  <2>1. wAllReqsSent' /\ wAllReqsSent /\ wAckPending = 0
    BY <1>1, <1>6, <1>12 DEF WrittenOnBoth, PmemTypeOK
  <2>2. ~acceptW
    BY <1>5, <2>1 DEF wReqRam
  <2> HIDE DEF acceptW
  <2> QED BY <1>3, <1>4, <2>1, <2>2 DEF One
<1> HIDE DEF acceptW, kept
<1> QED BY <1>10, <1>11, <1>12 DEF WrittenOnBoth

LEMMA WrittenOnBothFollows ==
  ASSUME PinsOnBoth, WrittenOnBoth
  PROVE  WrittenOnBothBeforeAnswered
<1> SUFFICES ASSUME wState = "wResp", NEW chip \in Chips
             PROVE  State(chip) # "write1" /\ PinsCmd(chip) # "WRITE" /\ Landing(chip) = 0
  BY DEF WrittenOnBothBeforeAnswered
<1>1. State(chip) # "write1" /\ ~(Landing(chip) > 0)
  BY DEF WrittenOnBoth
<1>2. PinsCmd(chip) = "WRITE" => State(chip) = "write1"
  BY DEF PinsOnBoth, PinsCmd, State, Chip0!BurstInv, Chip1!BurstInv
<1>3. Landing(chip) \in 0 .. 1
  BY DEF PinsOnBoth, Landing, Chip0!BurstInv, Chip1!BurstInv
<1> QED BY <1>1, <1>2, <1>3

------------------------------------------------------------------------------
\* The three together, behind what is proved of either chip.

LEMMA PinsOnBothAlways == InterSpec => []PinsOnBoth
<1>1. Chip0!Spec => [](Chip0!TypeOK /\ Chip0!PowerInv /\ Chip0!BurstInv)
  BY Chip0!PinsAlways, GeometryAssumption, DelayAssumption, TimerAssumption, ByteAssumption,
     ClientOfChip0
<1>2. Chip1!Spec => [](Chip1!TypeOK /\ Chip1!PowerInv /\ Chip1!BurstInv)
  BY Chip1!PinsAlways, GeometryAssumption, DelayAssumption, TimerAssumption, ByteAssumption,
     ClientOfChip1
<1> QED BY <1>1, <1>2, ImplementsSdramChips, PTL DEF AreSdramChips, PinsOnBoth

LEMMA DrainsStart == InterInit => DrainsOnBoth
<1>1. Chip0!Init => Chip0!ReadsDrain
  BY Chip0!DrainStart, GeometryAssumption, DelayAssumption, TimerAssumption, ByteAssumption,
     ClientOfChip0
<1>2. Chip1!Init => Chip1!ReadsDrain
  BY Chip1!DrainStart, GeometryAssumption, DelayAssumption, TimerAssumption, ByteAssumption,
     ClientOfChip1
<1> QED BY <1>1, <1>2 DEF InterInit, DrainsOnBoth

ServedOnBoth == DrainsOnBoth /\ LatchedOnBoth /\ WrittenOnBoth

LEMMA ServedOnBothAlways == InterSpec => []ServedOnBoth
<1>1. InterInit => ServedOnBoth
  BY DrainsStart, LatchedOnBothStart, WrittenOnBothStart DEF ServedOnBoth
<1>2. /\ InterInv /\ PendingInv /\ PinsOnBoth /\ ServedOnBoth /\ [InterNext]_interVars
      => ServedOnBoth'
  <2>1. ASSUME InterInv, PendingInv, PinsOnBoth, ServedOnBoth, NEW axi \in AxiInputs,
               InterCycle(axi)
        PROVE  ServedOnBoth'
    <3>1. CoreRequest(0) \in Requests /\ CoreRequest(1) \in Requests
      BY <2>1, CoreRequestIsClient DEF InterInv, Chips
    <3>2. DrainsOnBoth'
      BY <2>1, <3>1, Chip0Serves, Chip1Serves DEF ServedOnBoth, DrainsOnBoth, InterInv, InterCycle
    <3> QED BY <2>1, <3>2, LatchedOnBothStep, WrittenOnBothStep DEF ServedOnBoth
  <2>2. ASSUME ServedOnBoth, UNCHANGED interVars PROVE ServedOnBoth'
    <3>1. DrainsOnBoth'
      BY <2>2 DEF ServedOnBoth, DrainsOnBoth, interVars, Chip0!ReadsDrain, Chip1!ReadsDrain,
         Chip0!ReadDepth, Chip1!ReadDepth, Chip0!chipVars, Chip1!chipVars, Chip0!coreVars,
         Chip1!coreVars, Chip0!fsmVars, Chip1!fsmVars, Chip0!pipeVars, Chip1!pipeVars
    <3>2. LatchedOnBoth'
      BY <2>2 DEF ServedOnBoth, LatchedOnBoth, HeadingOf, Place, Latched, Strobed, rReqRam, wReqRam,
         interVars, pmemVars, readVars, writeVars, Chip0!Heading, Chip1!Heading, Chip0!Goal,
         Chip1!Goal, Chip0!chipVars, Chip1!chipVars, Chip0!coreVars, Chip1!coreVars, Chip0!fsmVars,
         Chip1!fsmVars, Chip0!reqVars, Chip1!reqVars
    <3>3. WrittenOnBoth'
      BY <2>2 DEF ServedOnBoth, WrittenOnBoth, State, Landing, interVars, pmemVars, writeVars,
         Chip0!chipVars, Chip1!chipVars, Chip0!coreVars, Chip1!coreVars, Chip0!fsmVars,
         Chip1!fsmVars, Chip0!memVars, Chip1!memVars, Chip0!burstVars, Chip1!burstVars
    <3> QED BY <3>1, <3>2, <3>3 DEF ServedOnBoth
  <2> QED BY <2>1, <2>2 DEF InterNext
<1> QED BY <1>1, <1>2, InterAlways, PendingAlways, PinsOnBothAlways, PTL DEF InterSpec

\* A controller that still opens a row when the arbiter has sent the other side to
\* the other chip never serves anything but the next beat of the side it latched.
THEOREM LatchedAlwaysNextOnBoth == InterSpec => []LatchedIsNextOnBoth
<1>1. ServedOnBoth => LatchedIsNextOnBoth
  BY LatchedOnBothFollows DEF ServedOnBoth
<1> QED BY <1>1, ServedOnBothAlways, PTL

\* The acknowledgements a chip owes for writes are all on their way, so that of a
\* read, served for nothing or not, is never taken for one.
THEOREM WriteAcksAlwaysMatch == InterSpec => []WriteAcksMatch
<1>1. InterInv /\ PendingInv /\ ServedOnBoth => WriteAcksMatch
  BY WriteAcksFollow DEF ServedOnBoth
<1> QED BY <1>1, InterAlways, PendingAlways, ServedOnBothAlways, PTL

\* A write is never answered before its last half-word is in its chip, whichever
\* of the two is the slower.
THEOREM AlwaysWrittenOnBothBeforeAnswered == InterSpec => []WrittenOnBothBeforeAnswered
<1>1. PinsOnBoth /\ ServedOnBoth => WrittenOnBothBeforeAnswered
  BY WrittenOnBothFollows DEF ServedOnBoth
<1> QED BY <1>1, PinsOnBothAlways, ServedOnBothAlways, PTL

------------------------------------------------------------------------------
\* The words under way in either chip.

UnderWayIn(chip, i)   == IF chip = 1 THEN Chip1!UnderWay(i) ELSE Chip0!UnderWay(i)
ReadIn(chip, i)       == IF chip = 1 THEN Chip1!ReadInFlight(i) ELSE Chip0!ReadInFlight(i)
StoreIn(chip, word)   == IF chip = 1 THEN Chip1!Store[word] ELSE Chip0!Store[word]
SettledIn(chip, word) == IF chip = 1 THEN Chip1!Settled(word) ELSE Chip0!Settled(word)

RowsOnBoth == Chip0!RightRow /\ Chip1!RightRow

WaysOnBoth ==
  /\ Chip0!InFlight /\ Chip0!OneWord
  /\ Chip1!InFlight /\ Chip1!OneWord

LEMMA WordsOfChip ==
  /\ Chip0!NumWords = NumWords /\ Chip1!NumWords = NumWords
  /\ NumWords \in Nat \ {0}
<1>1. Chip0!NumWords = NumWords
  BY Chip0!WordsOfCells, GeometryAssumption, DelayAssumption, TimerAssumption, ByteAssumption,
     ClientOfChip0 DEF NumWords, NumBanks, Chip0!NumBanks
<1>2. Chip1!NumWords = NumWords
  BY Chip1!WordsOfCells, GeometryAssumption, DelayAssumption, TimerAssumption, ByteAssumption,
     ClientOfChip1 DEF NumWords, NumBanks, Chip1!NumBanks
<1>3. Chip0!NumWords \in Nat \ {0}
  BY Chip0!WordsOfCells, GeometryAssumption, DelayAssumption, TimerAssumption, ByteAssumption,
     ClientOfChip0
<1> QED BY <1>1, <1>2, <1>3

LEMMA Chip0Reads ==
  ASSUME CasLatency = 2, Chip0!TypeOK, Chip0!PowerInv, Chip0!BurstInv, Chip0!ReadsDrain,
         Chip0!InFlight, Chip0!OneWord, Chip0!RightRow',
         CoreRequest(0) \in Requests, Chip0!Cycle(CoreRequest(0)),
         stateQ0 = "read_wait" /\ CoreRequest(0).rd =>
           CoreRequest(0).addr % NumWords = reqAddrQ0 % NumWords
  PROVE  /\ Chip0!InFlight' /\ Chip0!OneWord'
         /\ \A i \in 1 .. 4 : Chip0!UnderWay(i) =>
              /\ Chip0!UnderWay(i + 1)'
              /\ Chip0!ReadInFlight(i + 1)' = Chip0!ReadInFlight(i)
              /\ stateQ0 # "write0"
         /\ stateQ0 = "read" =>
              Chip0!UnderWay(1)' /\ Chip0!ReadInFlight(1)' = Chip0!Store[reqAddrQ0 % NumWords]
         /\ \A word \in 0 .. NumWords - 1 :
              (stateQ0 = "write0" => reqAddrQ0 % NumWords # word) =>
                /\ Chip0!Store'[word] = Chip0!Store[word]
                /\ Chip0!Settled(word) => Chip0!Settled(word)'
         /\ stateQ0' = "read_wait" => stateQ0 = "read" /\ reqAddrQ0' = reqAddrQ0
<1>1. stateQ0 = "read_wait" /\ CoreRequest(0).rd =>
        CoreRequest(0).addr % Chip0!NumWords = reqAddrQ0 % Chip0!NumWords
  BY WordsOfChip
<1>2. /\ Chip0!InFlight' /\ Chip0!OneWord'
      /\ \A i \in 1 .. 4 : Chip0!UnderWay(i) =>
           /\ Chip0!UnderWay(i + 1)'
           /\ Chip0!ReadInFlight(i + 1)' = Chip0!ReadInFlight(i)
           /\ stateQ0 # "write0"
      /\ stateQ0 = "read" =>
           /\ Chip0!UnderWay(1)'
           /\ Chip0!ReadInFlight(1)' = Chip0!Store[reqAddrQ0 % Chip0!NumWords]
      /\ \A word \in 0 .. Chip0!NumWords - 1 :
           (stateQ0 = "write0" => reqAddrQ0 % Chip0!NumWords # word) =>
             /\ Chip0!Store'[word] = Chip0!Store[word]
             /\ Chip0!Settled(word) => Chip0!Settled(word)'
      /\ stateQ0' = "read_wait" => stateQ0 = "read" /\ reqAddrQ0' = reqAddrQ0
  BY <1>1, Chip0!ReadCycle, GeometryAssumption, DelayAssumption, TimerAssumption, ByteAssumption,
     ClientOfChip0
<1> QED BY <1>2, WordsOfChip

LEMMA Chip1Reads ==
  ASSUME CasLatency = 2, Chip1!TypeOK, Chip1!PowerInv, Chip1!BurstInv, Chip1!ReadsDrain,
         Chip1!InFlight, Chip1!OneWord, Chip1!RightRow',
         CoreRequest(1) \in Requests, Chip1!Cycle(CoreRequest(1)),
         stateQ1 = "read_wait" /\ CoreRequest(1).rd =>
           CoreRequest(1).addr % NumWords = reqAddrQ1 % NumWords
  PROVE  /\ Chip1!InFlight' /\ Chip1!OneWord'
         /\ \A i \in 1 .. 4 : Chip1!UnderWay(i) =>
              /\ Chip1!UnderWay(i + 1)'
              /\ Chip1!ReadInFlight(i + 1)' = Chip1!ReadInFlight(i)
              /\ stateQ1 # "write0"
         /\ stateQ1 = "read" =>
              Chip1!UnderWay(1)' /\ Chip1!ReadInFlight(1)' = Chip1!Store[reqAddrQ1 % NumWords]
         /\ \A word \in 0 .. NumWords - 1 :
              (stateQ1 = "write0" => reqAddrQ1 % NumWords # word) =>
                /\ Chip1!Store'[word] = Chip1!Store[word]
                /\ Chip1!Settled(word) => Chip1!Settled(word)'
         /\ stateQ1' = "read_wait" => stateQ1 = "read" /\ reqAddrQ1' = reqAddrQ1
<1>1. stateQ1 = "read_wait" /\ CoreRequest(1).rd =>
        CoreRequest(1).addr % Chip1!NumWords = reqAddrQ1 % Chip1!NumWords
  BY WordsOfChip
<1>2. /\ Chip1!InFlight' /\ Chip1!OneWord'
      /\ \A i \in 1 .. 4 : Chip1!UnderWay(i) =>
           /\ Chip1!UnderWay(i + 1)'
           /\ Chip1!ReadInFlight(i + 1)' = Chip1!ReadInFlight(i)
           /\ stateQ1 # "write0"
      /\ stateQ1 = "read" =>
           /\ Chip1!UnderWay(1)'
           /\ Chip1!ReadInFlight(1)' = Chip1!Store[reqAddrQ1 % Chip1!NumWords]
      /\ \A word \in 0 .. Chip1!NumWords - 1 :
           (stateQ1 = "write0" => reqAddrQ1 % Chip1!NumWords # word) =>
             /\ Chip1!Store'[word] = Chip1!Store[word]
             /\ Chip1!Settled(word) => Chip1!Settled(word)'
      /\ stateQ1' = "read_wait" => stateQ1 = "read" /\ reqAddrQ1' = reqAddrQ1
  BY <1>1, Chip1!ReadCycle, GeometryAssumption, DelayAssumption, TimerAssumption, ByteAssumption,
     ClientOfChip1
<1> QED BY <1>2, WordsOfChip

\* One cycle of the words under way in a chip.  The retries of the front end are
\* those of the word the controller has latched.
RetriesLatched ==
  \A chip \in Chips :
    State(chip) = "read_wait" /\ rReqRam /\ WordOf(rAddr) % 2 = chip =>
      Latched(chip) = (WordOf(rAddr) \div 2) % NumWords

LEMMA ChipReads ==
  ASSUME CasLatency = 2, InterInv, PinsOnBoth, DrainsOnBoth, WaysOnBoth, RowsOnBoth', RetriesLatched,
         NEW axi \in AxiInputs, InterCycle(axi), NEW chip \in Chips
  PROVE  /\ WaysOnBoth'
         /\ \A i \in 1 .. 4 : UnderWayIn(chip, i) =>
              /\ UnderWayIn(chip, i + 1)'
              /\ ReadIn(chip, i + 1)' = ReadIn(chip, i)
              /\ State(chip) # "write0"
         /\ State(chip) = "read" =>
              UnderWayIn(chip, 1)' /\ ReadIn(chip, 1)' = StoreIn(chip, Latched(chip) % NumWords)
         /\ \A word \in 0 .. NumWords - 1 :
              (State(chip) = "write0" => Latched(chip) % NumWords # word) =>
                /\ StoreIn(chip, word)' = StoreIn(chip, word)
                /\ SettledIn(chip, word) => SettledIn(chip, word)'
         /\ State(chip)' = "read_wait" => State(chip) = "read" /\ Latched(chip)' = Latched(chip)
<1>1. CoreRequest(0) \in Requests /\ CoreRequest(1) \in Requests
  BY CoreRequestIsClient DEF InterInv, Chips
<1>2. \A c \in Chips : State(c) = "read_wait" /\ CoreRequest(c).rd =>
        CoreRequest(c).addr % NumWords = Latched(c) % NumWords
  BY DEF CoreRequest, coreAddr, chipSel, ramAddr, grantRead, ReadAsks, RetriesLatched
<1>3. /\ stateQ0 = "read_wait" /\ CoreRequest(0).rd =>
           CoreRequest(0).addr % NumWords = reqAddrQ0 % NumWords
      /\ stateQ1 = "read_wait" /\ CoreRequest(1).rd =>
           CoreRequest(1).addr % NumWords = reqAddrQ1 % NumWords
  BY <1>2 DEF State, Latched, Chips
<1>4. /\ Chip0!InFlight' /\ Chip0!OneWord'
      /\ \A i \in 1 .. 4 : Chip0!UnderWay(i) =>
           /\ Chip0!UnderWay(i + 1)'
           /\ Chip0!ReadInFlight(i + 1)' = Chip0!ReadInFlight(i)
           /\ stateQ0 # "write0"
      /\ stateQ0 = "read" =>
           Chip0!UnderWay(1)' /\ Chip0!ReadInFlight(1)' = Chip0!Store[reqAddrQ0 % NumWords]
      /\ \A word \in 0 .. NumWords - 1 :
           (stateQ0 = "write0" => reqAddrQ0 % NumWords # word) =>
             /\ Chip0!Store'[word] = Chip0!Store[word]
             /\ Chip0!Settled(word) => Chip0!Settled(word)'
      /\ stateQ0' = "read_wait" => stateQ0 = "read" /\ reqAddrQ0' = reqAddrQ0
  BY <1>1, <1>3, Chip0Reads DEF InterInv, PinsOnBoth, DrainsOnBoth, WaysOnBoth, RowsOnBoth, InterCycle
<1>5. /\ Chip1!InFlight' /\ Chip1!OneWord'
      /\ \A i \in 1 .. 4 : Chip1!UnderWay(i) =>
           /\ Chip1!UnderWay(i + 1)'
           /\ Chip1!ReadInFlight(i + 1)' = Chip1!ReadInFlight(i)
           /\ stateQ1 # "write0"
      /\ stateQ1 = "read" =>
           Chip1!UnderWay(1)' /\ Chip1!ReadInFlight(1)' = Chip1!Store[reqAddrQ1 % NumWords]
      /\ \A word \in 0 .. NumWords - 1 :
           (stateQ1 = "write0" => reqAddrQ1 % NumWords # word) =>
             /\ Chip1!Store'[word] = Chip1!Store[word]
             /\ Chip1!Settled(word) => Chip1!Settled(word)'
      /\ stateQ1' = "read_wait" => stateQ1 = "read" /\ reqAddrQ1' = reqAddrQ1
  BY <1>1, <1>3, Chip1Reads DEF InterInv, PinsOnBoth, DrainsOnBoth, WaysOnBoth, RowsOnBoth, InterCycle
<1>6. CASE chip = 0
  BY <1>4, <1>5, <1>6 DEF WaysOnBoth, UnderWayIn, ReadIn, StoreIn, SettledIn, State, Latched
<1>7. CASE chip = 1
  BY <1>4, <1>5, <1>7 DEF WaysOnBoth, UnderWayIn, ReadIn, StoreIn, SettledIn, State, Latched
<1> QED BY <1>6, <1>7 DEF Chips

------------------------------------------------------------------------------
\* The place of a word: one chip of the two, and a word of it.

LEMMA PlaceOf ==
  ASSUME NEW n \in Nat \ {0}, NEW word \in Nat
  PROVE  /\ word % (2 * n) \in 0 .. 2 * n - 1
         /\ word % 2 \in Chips /\ word % 2 = (word % (2 * n)) % 2
         /\ (word \div 2) % n \in 0 .. n - 1 /\ (word \div 2) % n = (word % (2 * n)) \div 2
<1> DEFINE t == word % 2
           q == word \div 2
           s == q % n
           d == q \div n
           r == 2 * s + t
<1>1. t \in 0 .. 1 /\ q \in Nat /\ word = 2 * q + t
  OBVIOUS
<1> HIDE DEF t, q
<1>2. s \in 0 .. n - 1 /\ d \in Nat /\ q = n * d + s
  <2>1. s \in 0 .. n - 1
    <3>1. q \in Int
      BY <1>1
    <3> QED BY <3>1, Division, Zenon
  <2>2. d \in Nat
    BY <1>1, Division, Zenon
  <2>3. q = n * (q \div n) + (q % n)
    BY <1>1, Division
  <2> QED BY <2>1, <2>2, <2>3
<1> HIDE DEF s, d
<1>3. r \in 0 .. 2 * n - 1 /\ 2 * n \in Nat \ {0}
  BY <1>1, <1>2
<1>4. word = (2 * n) * d + r
  BY <1>1, <1>2
<1>5. r % 2 = t /\ r \div 2 = s
  BY <1>1, <1>2
<1> HIDE DEF r
<1>6. word % (2 * n) = r
  <2>1. d \in Int
    BY <1>2
  <2>2. ((2 * n) * d + r) % (2 * n) = r
    BY <1>3, <2>1, Division
  <2> QED BY <1>4, <2>2
<1>7. t \in Chips
  BY <1>1 DEF Chips
<1> QED BY <1>2, <1>3, <1>5, <1>6, <1>7 DEF t, q, s

BeatAt(b, k) == BeatWord(b.addr, b.type, b.len, k)

\* What is kept at the place of a word.
KeptAt(word) == StoreIn(word % 2, (word \div 2) % NumWords)

LEMMA BeatType ==
  ASSUME BurstsLegal, NEW b \in ReadBursts \union WriteBursts, NEW k \in Nat
  PROVE  BeatAt(b, k) \in Nat
<1>1. b.addr \in Addrs /\ b.type \in 0 .. 3 /\ b.len \in 0 .. 255
  BY BurstTypes
<1>2. WordOf(b.addr) \in Nat
  BY <1>1 DEF WordOf, Addrs
<1> DEFINE v == WordOf(b.addr)
           n == b.len + 1
           m == AddrSpace \div 4
<1>3. v \in Nat /\ n \in Nat \ {0} /\ m \in Nat \ {0}
  BY <1>1, <1>2, AddrSpaceAssumption
<1>4. BeatAt(b, k) = CASE b.type = FIXED -> v
                       [] b.type = WRAP -> (v - (v % n)) + ((v - (v - (v % n)) + k) % n)
                       [] OTHER -> (v + k) % m
  BY DEF BeatAt, BeatWord
<1> HIDE DEF v, n, m
<1>5. (v + k) % m \in Nat
  <2>1. v + k \in Int
    BY <1>3
  <2>2. (v + k) % m \in 0 .. m - 1
    BY <1>3, <2>1, Division, Zenon
  <2> QED BY <1>3, <2>2
<1>6. (v - (v % n)) + ((v - (v - (v % n)) + k) % n) \in Nat
  <2>1. v \in Int
    BY <1>3
  <2>2. v % n \in 0 .. n - 1 /\ v \div n \in Nat /\ v = n * (v \div n) + (v % n)
    BY <1>3, <2>1, Division, Zenon
  <2> DEFINE low == v - (v % n)
             off == v - low + k
  <2>3. low \in Nat /\ off \in Int
    <3>1. n * (v \div n) \in Nat
      BY <1>3, <2>2
    <3> QED BY <1>3, <2>2, <3>1
  <2> HIDE DEF low, off
  <2>4. off % n \in 0 .. n - 1
    BY <1>3, <2>3, Division, Zenon
  <2>5. low + (off % n) \in Nat
    BY <1>3, <2>3, <2>4
  <2> QED BY <2>5 DEF low, off
<1> QED BY <1>3, <1>4, <1>5, <1>6

------------------------------------------------------------------------------
\* The read that is asked for again.

LEMMA RetriesStep ==
  ASSUME BurstsLegal, InterInv, BeatsKept, BurstAsked, LatchedOnBoth,
         NEW axi \in AxiInputs, InterCycle(axi),
         \A chip \in Chips : State(chip)' = "read_wait" =>
           State(chip) = "read" /\ Latched(chip)' = Latched(chip)
  PROVE  RetriesLatched'
<1> SUFFICES ASSUME NEW chip \in Chips, State(chip)' = "read_wait", rReqRam', WordOf(rAddr') % 2 = chip
             PROVE  Latched(chip)' = (WordOf(rAddr') \div 2) % NumWords
  BY DEF RetriesLatched
<1>1. /\ accept \in BOOLEAN /\ routedAck \in BOOLEAN /\ readData \in Word
      /\ PmemTypeOK /\ ReadsAccounted /\ MasterTypeOK
      /\ PmemStep(axi, accept, routedAck, readData)
  BY AnswerTypes DEF InterCycle, InterInv
<1>2. /\ State(chip) = "read" /\ Latched(chip)' = Latched(chip)
      /\ rReqRam /\ WordOf(rAddr) % 2 = chip
      /\ Latched(chip) = (WordOf(rAddr) \div 2) % NumWords
  BY HeadingIsState DEF LatchedOnBoth, Place
<1>3. WordOf(rAddr') = WordOf(rAddr)
  <2>1. CASE grantRead /\ accept
    BY <1>1, <1>2, <2>1, NextRead DEF PmemStep
  <2>2. CASE ~(grantRead /\ accept)
    BY <1>1, <1>2, <2>2, ReadHolds
  <2> QED BY <2>1, <2>2
<1> QED BY <1>2, <1>3

------------------------------------------------------------------------------
\* The words nobody writes.

Untouched(x) == \A c \in WriteBursts : x \notin BurstWords(c)

LEMMA NotWritten ==
  ASSUME BurstsLegal, InterInv, BeatsKept, BurstAsked, LatchedOnBoth,
         NEW x \in 0 .. 2 * NumWords - 1, Untouched(x), x % 2 \in Chips, State(x % 2) = "write0"
  PROVE  Latched(x % 2) % NumWords # x \div 2
<1>1. /\ wReqRam /\ WordOf(wAddr) % 2 = x % 2
      /\ Latched(x % 2) = (WordOf(wAddr) \div 2) % NumWords
  BY HeadingIsState DEF LatchedOnBoth, Place
<1>2. wState = "wBurst" /\ wReqCnt \in 0 .. 255
  BY <1>1 DEF wReqRam, InterInv, PmemTypeOK
<1>3. PICK b \in wAsked : /\ b \in WriteBursts /\ wReqCnt <= b.len
                          /\ WordOf(wAddr) = BeatAt(b, b.len - wReqCnt)
  BY <1>2 DEF BurstAsked, BeatsKept, BeatAt
<1>4. b.len \in 0 .. 255
  BY <1>3, BurstTypes
<1> DEFINE k == b.len - wReqCnt
           v == BeatAt(b, k)
<1>5. k \in Nat /\ k \in 0 .. b.len
  BY <1>2, <1>3, <1>4
<1>6. v \in Nat
  BY <1>3, <1>5, BeatType
<1>7. v % (2 * NumWords) \in BurstWords(b)
  BY <1>5 DEF BurstWords, BeatAt
<1> HIDE DEF k, v
<1>8. x # v % (2 * NumWords)
  BY <1>3, <1>7 DEF Untouched
<1>9. NumWords \in Nat \ {0}
  BY WordsOfChip
<1> DEFINE y == v % (2 * NumWords)
<1>10. y \in 0 .. 2 * NumWords - 1 /\ v % 2 = y % 2 /\ (v \div 2) % NumWords = y \div 2
  BY <1>6, <1>9, PlaceOf
<1>11. WordOf(wAddr) = v
  BY <1>3 DEF v, k
<1>12. Latched(x % 2) = y \div 2 /\ y % 2 = x % 2
  BY <1>1, <1>10, <1>11
<1> HIDE DEF y
<1>13. x # y
  BY <1>8 DEF y
<1>14. \A i, j \in Nat : i % 2 = j % 2 /\ i \div 2 = j \div 2 => i = j
  OBVIOUS
<1>15. x \in Nat /\ y \in Nat
  BY <1>9, <1>10
<1>16. y \div 2 # x \div 2
  BY <1>12, <1>13, <1>14, <1>15
<1>17. (y \div 2) % NumWords = y \div 2
  <2>1. \A n \in Nat \ {0} : \A i \in 0 .. 2 * n - 1 : (i \div 2) % n = i \div 2
    OBVIOUS
  <2> QED BY <1>9, <1>10, <2>1
<1> QED BY <1>12, <1>16, <1>17

\* Nothing is on its way to a word nobody writes.
SettledKept ==
  \A x \in 0 .. 2 * NumWords - 1 : Untouched(x) => SettledIn(x % 2, x \div 2)

\* A cycle changes neither what is stored there nor what is on its way.
WordsKept(chip) ==
  \A word \in 0 .. NumWords - 1 :
    (State(chip) = "write0" => Latched(chip) % NumWords # word) =>
      /\ StoreIn(chip, word)' = StoreIn(chip, word)
      /\ SettledIn(chip, word) => SettledIn(chip, word)'

LEMMA UntouchedStep ==
  ASSUME BurstsLegal, InterInv, BeatsKept, BurstAsked, LatchedOnBoth,
         \A chip \in Chips : WordsKept(chip),
         NEW x \in 0 .. 2 * NumWords - 1, Untouched(x)
  PROVE  /\ StoreIn(x % 2, x \div 2)' = StoreIn(x % 2, x \div 2)
         /\ SettledIn(x % 2, x \div 2) => SettledIn(x % 2, x \div 2)'
<1>1. NumWords \in Nat \ {0}
  BY WordsOfChip
<1>2. x % 2 \in Chips /\ x \div 2 \in 0 .. NumWords - 1
  <2>1. \A n \in Nat \ {0} : \A i \in 0 .. 2 * n - 1 : i % 2 \in 0 .. 1 /\ i \div 2 \in 0 .. n - 1
    OBVIOUS
  <2> QED BY <1>1, <2>1 DEF Chips
<1>3. State(x % 2) = "write0" => Latched(x % 2) % NumWords # x \div 2
  BY <1>2, NotWritten
<1> QED BY <1>2, <1>3 DEF WordsKept

------------------------------------------------------------------------------
\* The reads that are owed.

Returned(b) == b.len - rRespCnt

\* The reads of the queue are under way, each in its chip, the older one ahead of
\* the younger, and each carries what is kept at the place of its beat.
AgesFit(age) ==
  /\ \A i, j \in DOMAIN pendingQ : i < j => age[i] > age[j]
  /\ \A i \in DOMAIN pendingQ :
       /\ UnderWayIn(pendingQ[i], age[i])
       /\ \A b \in rAsked :
            LET word == BeatAt(b, Returned(b) + Len(rDataQ) + i - 1)
            IN  pendingQ[i] = word % 2 /\ ReadIn(pendingQ[i], age[i]) = KeptAt(word)

ReadsUnderWay ==
  wAckPending = 0 => \E age \in [DOMAIN pendingQ -> 1 .. 5] : AgesFit(age)

\* What a cycle does to the queue, and to what the front end counts.
LEMMA QueueCycle ==
  ASSUME InterInv, PendingInv, NEW axi \in AxiInputs, InterCycle(axi)
  PROVE  /\ pendingQ' = LET kept == IF routedAck THEN Tail(pendingQ) ELSE pendingQ
                        IN  IF accept THEN Append(kept, chipSel) ELSE kept
         /\ rAckPending' = rAckPending + One(grantRead /\ accept) - One(ackToRead(routedAck))
         /\ wAckPending' = wAckPending + One(grantWrite /\ accept) - One(ackToWrite(routedAck))
         /\ rOutstanding' = rOutstanding + One(grantRead /\ accept) - One(RFire(axi))
         /\ Len(rDataQ') = Len(rDataQ) + One(ackToRead(routedAck)) - One(RFire(axi))
         /\ ReadFsm(axi, accept) /\ MasterReads(axi)
<1>1. /\ accept \in BOOLEAN /\ routedAck \in BOOLEAN /\ readData \in Word
      /\ PmemTypeOK /\ ReadsAccounted /\ Counters(axi, accept, routedAck)
      /\ ReadQueue(axi, routedAck, readData)
      /\ ReadFsm(axi, accept) /\ MasterReads(axi)
  BY AnswerTypes DEF InterCycle, PmemStep, InterInv
<1>2. /\ rAckPending' = rAckPending + One(grantRead /\ accept) - One(ackToRead(routedAck))
      /\ rOutstanding' = rOutstanding + One(grantRead /\ accept) - One(RFire(axi))
      /\ Len(rDataQ') = Len(rDataQ) + One(ackToRead(routedAck)) - One(RFire(axi))
  BY <1>1, ReadCounters
<1>3. wAckPending \in 0 .. 2 /\ (accept => Len(pendingQ) < PENDING_DEPTH)
  BY PendingBounds
<1>4. wAckPending' = wAckPending + One(grantWrite /\ accept) - One(ackToWrite(routedAck))
  BY <1>1, <1>3 DEF Counters, One, ackToWrite
<1>5. accept => reqActive
  BY AcceptCases
<1>6. pendingQ' = LET kept == IF routedAck THEN Tail(pendingQ) ELSE pendingQ
                  IN  IF accept THEN Append(kept, chipSel) ELSE kept
  BY <1>3, <1>5 DEF InterCycle, PendingQueue
<1> QED BY <1>1, <1>2, <1>4, <1>6

\* A read that is accepted is the beat after those that are owed.
LEMMA AcceptedBeat ==
  ASSUME InterInv, PendingInv, BeatsKept, wAckPending = 0, grantRead, NEW b \in rAsked
  PROVE  WordOf(rAddr) = BeatAt(b, Returned(b) + Len(rDataQ) + Len(pendingQ))
<1>1. rState = "rBurst" /\ ~rAllReqsSent
  BY DEF grantRead, ReadAsks, rReqRam
<1>2. b \in ReadBursts /\ WordOf(rAddr) = BeatAt(b, b.len - rReqCnt)
  BY <1>1 DEF BeatsKept, BeatAt
<1> DEFINE len == b.len
           data == Len(rDataQ)
           owed == Len(pendingQ)
<1>3. len \in 0 .. 255
  BY <1>2, BurstTypes
<1>4. /\ rRespCnt \in 0 .. 255 /\ rReqCnt \in 0 .. 255 /\ rAckPending \in Nat /\ rOutstanding \in Nat
      /\ data \in Nat /\ owed \in Nat
  <2>1. rDataQ \in Seq(Word) /\ pendingQ \in Seq(Chips)
    BY DEF InterInv, PmemTypeOK
  <2> QED BY <2>1 DEF InterInv, PmemTypeOK
<1>5. rOutstanding = rAckPending + data /\ owed = rAckPending + wAckPending
      /\ rRespCnt + 1 = rOutstanding + (rReqCnt + 1)
  BY <1>1 DEF InterInv, ReadsAccounted, PendingInv
<1> HIDE DEF len, data, owed
<1>6. len - rReqCnt = len - rRespCnt + data + owed
  BY <1>3, <1>4, <1>5
<1> QED BY <1>2, <1>6 DEF Returned, len, data, owed

\* A read that is served carries what is kept at the place it was asked for.
LEMMA AcceptedRead ==
  ASSUME CasLatency = 2, InterInv, PinsOnBoth, DrainsOnBoth, WaysOnBoth, RowsOnBoth', RetriesLatched,
         LatchedOnBoth, NEW axi \in AxiInputs, InterCycle(axi), grantRead, accept,
         NEW word \in Nat, word = WordOf(rAddr)
  PROVE  /\ word % 2 \in Chips /\ chipSel = word % 2
         /\ UnderWayIn(word % 2, 1)'
         /\ ReadIn(word % 2, 1)' = KeptAt(word)'
<1> DEFINE chip  == word % 2
           place == (word \div 2) % NumWords
<1>1. chip \in Chips /\ State(chip) = "read" /\ chipSel = chip
  BY AcceptedThere DEF chipSel, ramAddr
<1>2. Latched(chip) = place
  BY <1>1, HeadingIsState DEF LatchedOnBoth, Place
<1>3. place \in 0 .. NumWords - 1 /\ NumWords \in Nat \ {0}
  BY WordsOfChip, PlaceOf
<1> HIDE DEF chip, place
<1>4. Latched(chip) % NumWords = place
  BY <1>2, <1>3
<1>5. /\ UnderWayIn(chip, 1)' /\ ReadIn(chip, 1)' = StoreIn(chip, Latched(chip) % NumWords)
      /\ StoreIn(chip, place)' = StoreIn(chip, place)
  BY <1>1, <1>3, ChipReads
<1>6. KeptAt(word)' = StoreIn(chip, place)'
  BY DEF KeptAt, chip, place
<1> QED BY <1>1, <1>4, <1>5, <1>6 DEF chip

\* A read that is under way goes on, and its word stays what it was.
LEMMA ReadGoesOn ==
  ASSUME CasLatency = 2, InterInv, PinsOnBoth, DrainsOnBoth, WaysOnBoth, RowsOnBoth', RetriesLatched,
         NEW axi \in AxiInputs, InterCycle(axi),
         NEW word \in Nat, NEW i \in 1 .. 4, UnderWayIn(word % 2, i)
  PROVE  /\ UnderWayIn(word % 2, i + 1)'
         /\ ReadIn(word % 2, i + 1)' = ReadIn(word % 2, i)
         /\ KeptAt(word)' = KeptAt(word)
<1> DEFINE chip  == word % 2
           place == (word \div 2) % NumWords
<1>1. chip \in Chips /\ place \in 0 .. NumWords - 1
  BY WordsOfChip, PlaceOf
<1>2. /\ KeptAt(word)' = StoreIn(chip, place)'
      /\ KeptAt(word) = StoreIn(chip, place)
  BY DEF KeptAt
<1> HIDE DEF chip, place
<1>3. /\ UnderWayIn(chip, i + 1)' /\ ReadIn(chip, i + 1)' = ReadIn(chip, i)
      /\ StoreIn(chip, place)' = StoreIn(chip, place)
  <2>1. UnderWayIn(chip, i)
    BY DEF chip
  <2> QED BY <1>1, <2>1, ChipReads
<1> QED BY <1>2, <1>3 DEF chip

\* The head of the queue is acknowledged before it is five cycles old, or then.
LEMMA HeadIsServed ==
  ASSUME InterInv, NEW age \in [DOMAIN pendingQ -> 1 .. 5], AgesFit(age), ~routedAck,
         NEW i \in DOMAIN pendingQ
  PROVE  age[i] \in 1 .. 4
<1>1. pendingQ \in Seq(Chips) /\ DOMAIN pendingQ = 1 .. Len(pendingQ)
  BY DEF InterInv
<1>2. 1 \in DOMAIN pendingQ /\ pendingQ # <<>> /\ Head(pendingQ) = pendingQ[1]
  BY <1>1
<1>3. age[1] # 5
  <2>1. ~Ack(pendingQ[1])
    BY <1>2 DEF routedAck, ackCore
  <2>2. UnderWayIn(pendingQ[1], age[1])
    BY <1>2 DEF AgesFit
  <2> QED BY <2>1, <2>2 DEF UnderWayIn, Ack, Chip0!UnderWay, Chip1!UnderWay
<1>4. age[1] \in 1 .. 5 /\ age[i] \in 1 .. 5
  BY <1>2
<1>5. i # 1 => age[1] > age[i]
  BY <1>1, <1>2 DEF AgesFit
<1> QED BY <1>3, <1>4, <1>5

\* A queue f elements may leave and g join, one of each at most.
LEMMA QueueShift ==
  ASSUME NEW S, NEW q \in Seq(S), NEW x \in S, NEW f \in 0 .. 1, NEW g \in 0 .. 1, f = 1 => q # <<>>,
         NEW kept, kept = IF f = 1 THEN Tail(q) ELSE q,
         NEW q2, q2 = IF g = 1 THEN Append(kept, x) ELSE kept
  PROVE  /\ DOMAIN q2 = 1 .. Len(q) - f + g
         /\ \A i \in 1 .. Len(q) - f : i + f \in DOMAIN q /\ q2[i] = q[i + f]
         /\ g = 1 => q2[Len(q) - f + 1] = x
<1>1. kept \in Seq(S)
  OBVIOUS
<1>2. /\ Len(kept) = Len(q) - f
      /\ \A i \in 1 .. Len(kept) : i + f \in DOMAIN q /\ kept[i] = q[i + f]
  <2>1. CASE f = 1
    <3>1. kept = Tail(q) /\ q # <<>>
      BY <2>1
    <3>2. /\ Len(kept) = Len(q) - 1
          /\ \A i \in 1 .. Len(kept) : kept[i] = q[i + 1]
      BY <3>1, HeadTailProperties, ZenonT(30)
    <3> QED BY <2>1, <3>2
  <2>2. CASE f = 0
    BY <2>2
  <2> QED BY <2>1, <2>2
<1>3. CASE g = 1
  <2>1. /\ DOMAIN q2 = 1 .. Len(kept) + 1 /\ q2[Len(kept) + 1] = x
        /\ \A i \in 1 .. Len(kept) : q2[i] = kept[i]
    BY <1>1, <1>3
  <2> QED BY <1>2, <1>3, <2>1
<1>4. CASE g = 0
  <2>1. q2 = kept /\ DOMAIN q2 = 1 .. Len(kept)
    BY <1>1, <1>4
  <2> QED BY <1>2, <1>4, <2>1
<1> QED BY <1>3, <1>4

LEMMA PendingShift ==
  ASSUME pendingQ \in Seq(Chips), accept => chipSel \in Chips, NEW g \in 0 .. 1,
         g = 1 => pendingQ # <<>>,
         pendingQ' = LET kept == IF g = 1 THEN Tail(pendingQ) ELSE pendingQ
                     IN  IF accept THEN Append(kept, chipSel) ELSE kept,
         NEW n \in Nat, n = Len(pendingQ) - g
  PROVE  /\ DOMAIN pendingQ' = 1 .. n + One(accept)
         /\ \A i \in 1 .. n : i + g \in DOMAIN pendingQ /\ pendingQ'[i] = pendingQ[i + g]
         /\ accept => pendingQ'[n + 1] = chipSel
<1> DEFINE f    == One(accept)
           kept == IF g = 1 THEN Tail(pendingQ) ELSE pendingQ
           c    == IF accept THEN chipSel ELSE 0
           q2   == pendingQ'
<1>1. f \in 0 .. 1 /\ (f = 1 <=> accept) /\ c \in Chips
  BY DEF One, Chips
<1>2. q2 = IF f = 1 THEN Append(kept, c) ELSE kept
  BY <1>1
<1>3. kept = IF g = 1 THEN Tail(pendingQ) ELSE pendingQ
  OBVIOUS
<1>4. accept => c = chipSel
  OBVIOUS
<1> HIDE DEF f, kept, c, q2
<1>5. /\ DOMAIN q2 = 1 .. Len(pendingQ) - g + f
      /\ \A i \in 1 .. Len(pendingQ) - g : i + g \in DOMAIN pendingQ /\ q2[i] = pendingQ[i + g]
      /\ f = 1 => q2[Len(pendingQ) - g + 1] = c
  BY <1>1, <1>2, <1>3, QueueShift
<1> QED BY <1>1, <1>4, <1>5 DEF f, q2

LEMMA AllOfSum == \A n, a \in Nat : n = a + 0 /\ n > 0 => a > 0
OBVIOUS

LEMMA Remaining == \A m, c \in 0 .. 255 : c <= m => m - c \in Nat
OBVIOUS

LEMMA NumbersAreInts == (\A n \in 0 .. 255 : n \in Int) /\ (\A n \in Nat : n \in Int)
OBVIOUS

LEMMA SameBeat ==
  \A len, c, c2, d, d2, g, f, i \in Int :
    c2 = c - f /\ d2 = d + g - f => (len - c2) + d2 + i - 1 = (len - c) + d + (i + g) - 1
OBVIOUS

LEMMA ReadsUnderWayStep ==
  ASSUME CasLatency = 2, BurstsLegal, InterInv, InterInv', PendingInv, PendingInv',
         PinsOnBoth, DrainsOnBoth, WaysOnBoth, RowsOnBoth', RetriesLatched, LatchedOnBoth,
         BeatsKept, BurstAsked, ReadsUnderWay,
         NEW axi \in AxiInputs, InterCycle(axi), wAckPending' = 0
  PROVE  \E age \in [DOMAIN pendingQ' -> 1 .. 5] : AgesFit(age)'
<1>1. /\ pendingQ \in Seq(Chips) /\ Len(pendingQ) \in Nat /\ DOMAIN pendingQ = 1 .. Len(pendingQ)
      /\ pendingQ' \in Seq(Chips) /\ Len(pendingQ') \in Nat
      /\ DOMAIN pendingQ' = 1 .. Len(pendingQ')
  BY DEF InterInv
<1>2. CASE Len(pendingQ') = 0
  <2>1. DOMAIN pendingQ' = {}
    BY <1>1, <1>2
  <2> DEFINE none == [i \in {} |-> 1]
  <2>2. none \in [DOMAIN pendingQ' -> 1 .. 5] /\ AgesFit(none)'
    BY <2>1 DEF AgesFit
  <2> QED BY <2>2
<1>3. CASE Len(pendingQ') > 0
  <2>1. /\ rAckPending' = rAckPending + One(grantRead /\ accept) - One(ackToRead(routedAck))
        /\ wAckPending' = wAckPending + One(grantWrite /\ accept) - One(ackToWrite(routedAck))
        /\ Len(rDataQ') = Len(rDataQ) + One(ackToRead(routedAck)) - One(RFire(axi))
        /\ ReadFsm(axi, accept) /\ MasterReads(axi) /\ accept \in BOOLEAN
        /\ pendingQ' = LET kept == IF routedAck THEN Tail(pendingQ) ELSE pendingQ
                       IN  IF accept THEN Append(kept, chipSel) ELSE kept
    BY QueueCycle, AnswerTypes
  <2>2. /\ rAckPending \in Nat /\ wAckPending \in Nat /\ rOutstanding \in Nat
        /\ Len(rDataQ) \in Nat /\ rDataQ' \in Seq(Word)
        /\ rState \in {"rIdle", "rBurst"} /\ rState' \in {"rIdle", "rBurst"}
        /\ rAckPending' \in Nat /\ rOutstanding' \in Nat /\ Len(rDataQ') \in Nat
    <3>1. rDataQ \in Seq(Word) /\ rDataQ' \in Seq(Word)
      BY DEF InterInv, PmemTypeOK
    <3> QED BY <3>1 DEF InterInv, PmemTypeOK
  <2>3. rAckPending' > 0
    <3> DEFINE n == Len(pendingQ')
    <3>1. n = rAckPending' + wAckPending'
      BY DEF PendingInv
    <3>2. n > 0 /\ n \in Nat
      BY <1>1, <1>3
    <3> HIDE DEF n
    <3>3. n = rAckPending' + 0
      BY <3>1, Zenon
    <3>4. rAckPending' \in Nat
      BY <2>2
    <3> QED BY <3>2, <3>3, <3>4, AllOfSum, Zenon
  <2>4. rState' = "rBurst"
    <3>1. rOutstanding' = rAckPending' + Len(rDataQ') /\ (rState' = "rIdle" => rOutstanding' = 0)
      BY DEF InterInv, ReadsAccounted
    <3> QED BY <2>2, <2>3, <3>1
  <2>5. wAckPending = 0
    <3> SUFFICES ASSUME wAckPending # 0 PROVE FALSE
      OBVIOUS
    <3>1. rAckPending = 0 /\ ~(grantRead /\ accept)
      BY AcceptCases DEF PendingInv
    <3> QED BY <2>1, <2>2, <2>3, <3>1 DEF One, ackToRead
  <2>6. accept => grantRead
    <3> SUFFICES ASSUME accept, ~grantRead PROVE FALSE
      OBVIOUS
    <3>1. grantWrite
      BY AcceptCases
    <3> QED BY <2>1, <2>5, <3>1 DEF One, ackToWrite
  <2>7. rState = "rBurst"
    <3>1. CASE accept
      BY <2>6, <3>1 DEF grantRead, ReadAsks, rReqRam
    <3>2. CASE ~accept
      <4>1. rAckPending > 0
        BY <2>1, <2>2, <2>3, <3>2 DEF One, ackToRead
      <4>2. rOutstanding = rAckPending + Len(rDataQ) /\ (rState = "rIdle" => rOutstanding = 0)
        BY DEF InterInv, ReadsAccounted
      <4> QED BY <2>2, <4>1, <4>2
    <3> QED BY <3>1, <3>2
  <2>8. rAsked' = rAsked /\ rRespCnt' = rRespCnt - One(RFire(axi))
    BY <2>1, <2>4, <2>7, ReadsGoOn DEF InterInv
  <2>9. PICK age \in [DOMAIN pendingQ -> 1 .. 5] : AgesFit(age)
    BY <2>5 DEF ReadsUnderWay
  <2>10. routedAck => pendingQ # <<>> /\ Len(pendingQ) > 0
    BY <1>1 DEF routedAck
  <2>11. PICK g \in 0 .. 1 : g = One(routedAck)
    BY DEF One
  <2>12. PICK n \in Nat : n = Len(pendingQ) - g
    <3>1. Len(pendingQ) - g \in Nat
      BY <1>1, <2>10, <2>11 DEF One
    <3> QED BY <3>1
  <2>13. /\ DOMAIN pendingQ' = 1 .. n + One(accept)
         /\ \A i \in 1 .. n : i + g \in DOMAIN pendingQ /\ pendingQ'[i] = pendingQ[i + g]
         /\ accept => pendingQ'[n + 1] = chipSel
    <3>1. accept => chipSel \in Chips
      BY AcceptCases
    <3>2. g = 1 => pendingQ # <<>>
      BY <2>10, <2>11 DEF One
    <3>3. pendingQ' = LET kept == IF g = 1 THEN Tail(pendingQ) ELSE pendingQ
                      IN  IF accept THEN Append(kept, chipSel) ELSE kept
      <4>1. g = 1 <=> routedAck
        BY <2>11 DEF One
      <4> QED BY <2>1, <4>1
    <3> QED BY <1>1, <2>12, <3>1, <3>2, <3>3, PendingShift
  <2>14. \A i \in 1 .. n : age[i + g] \in 1 .. 4
    <3> SUFFICES ASSUME NEW i \in 1 .. n PROVE age[i + g] \in 1 .. 4
      OBVIOUS
    <3>1. i + g \in DOMAIN pendingQ /\ age[i + g] \in 1 .. 5
      BY <2>13
    <3>2. CASE routedAck
      <4>1. g = 1 /\ 1 \in DOMAIN pendingQ /\ 1 < i + g /\ age[1] \in 1 .. 5
        BY <1>1, <2>10, <2>11, <3>2 DEF One
      <4>2. age[1] > age[i + g]
        BY <2>9, <3>1, <4>1 DEF AgesFit
      <4> QED BY <3>1, <4>1, <4>2
    <3>3. CASE ~routedAck
      BY <2>9, <3>1, <3>3, HeadIsServed
    <3> QED BY <3>2, <3>3
  <2> DEFINE older == [i \in DOMAIN pendingQ' |-> IF i <= n THEN age[i + g] + 1 ELSE 1]
  <2>15. PICK next \in [DOMAIN pendingQ' -> 1 .. 5] : next = older
    <3>1. \A i \in DOMAIN pendingQ' : i <= n => i \in 1 .. n
      BY <2>12, <2>13 DEF One
    <3>2. \A i \in DOMAIN pendingQ' : older[i] \in 1 .. 5
      BY <2>14, <3>1
    <3> QED BY <3>2
  <2>16. \A i, j \in DOMAIN pendingQ' : i < j => next[i] > next[j]
    <3> SUFFICES ASSUME NEW i \in DOMAIN pendingQ', NEW j \in DOMAIN pendingQ', i < j
                 PROVE  next[i] > next[j]
      OBVIOUS
    <3>1. i \in 1 .. n /\ j \in 1 .. n + 1
      BY <2>12, <2>13 DEF One
    <3>2. next[i] = age[i + g] + 1 /\ age[i + g] \in 1 .. 4
      BY <2>12, <2>14, <2>15, <3>1
    <3>3. CASE j \in 1 .. n
      <4>1. next[j] = age[j + g] + 1 /\ age[j + g] \in 1 .. 4
        BY <2>12, <2>14, <2>15, <3>3
      <4>2. i + g < j + g /\ i + g \in DOMAIN pendingQ /\ j + g \in DOMAIN pendingQ
        <5>1. i + g \in DOMAIN pendingQ /\ j + g \in DOMAIN pendingQ
          BY <2>13, <3>1, <3>3
        <5>2. i + g < j + g
          BY <3>1, <3>3
        <5> QED BY <5>1, <5>2
      <4>3. age[i + g] > age[j + g]
        BY <2>9, <4>2 DEF AgesFit
      <4> QED BY <3>2, <4>1, <4>3
    <3>4. CASE j \notin 1 .. n
      <4>1. next[j] = 1
        BY <2>12, <2>15, <3>1, <3>4
      <4> QED BY <3>2, <4>1
    <3> QED BY <3>3, <3>4
  <2>17. ASSUME NEW i \in DOMAIN pendingQ', NEW b \in rAsked,
                NEW word \in Nat, word = BeatAt(b, Returned(b) + Len(rDataQ) + (i + g) - 1)
         PROVE  /\ pendingQ'[i] = word % 2 /\ UnderWayIn(word % 2, next[i])'
                /\ ReadIn(word % 2, next[i])' = KeptAt(word)'
    <3>1. CASE i \in 1 .. n
      <4>1. /\ i + g \in DOMAIN pendingQ /\ pendingQ'[i] = pendingQ[i + g]
            /\ age[i + g] \in 1 .. 4 /\ next[i] = age[i + g] + 1
        <5>2. i + g \in DOMAIN pendingQ /\ pendingQ'[i] = pendingQ[i + g] /\ age[i + g] \in 1 .. 4
          BY <2>13, <2>14, <3>1
        <5>3. next[i] = age[i + g] + 1
          BY <2>15, <3>1
        <5> QED BY <5>2, <5>3
      <4>2. /\ UnderWayIn(pendingQ[i + g], age[i + g]) /\ pendingQ[i + g] = word % 2
            /\ ReadIn(pendingQ[i + g], age[i + g]) = KeptAt(word)
        BY <2>9, <2>17, <4>1, Zenon DEF AgesFit
      <4>3. UnderWayIn(word % 2, age[i + g]) /\ ReadIn(word % 2, age[i + g]) = KeptAt(word)
        BY <4>2, Zenon
      <4>4. PICK k \in 1 .. 4 : k = age[i + g]
        BY <4>1
      <4>5. UnderWayIn(word % 2, k) /\ ReadIn(word % 2, k) = KeptAt(word)
        BY <4>3, <4>4, Zenon
      <4>6. /\ UnderWayIn(word % 2, k + 1)' /\ ReadIn(word % 2, k + 1)' = ReadIn(word % 2, k)
            /\ KeptAt(word)' = KeptAt(word)
        BY <4>5, ReadGoesOn
      <4>7. next[i] = k + 1
        BY <4>1, <4>4
      <4> QED BY <4>1, <4>2, <4>5, <4>6, <4>7, Zenon
    <3>2. CASE i \notin 1 .. n
      <4>1. accept /\ i = n + 1 /\ next[i] = 1 /\ pendingQ'[i] = chipSel /\ i + g = Len(pendingQ) + 1
        BY <2>12, <2>13, <2>15, <3>2 DEF One
      <4>2. grantRead /\ WordOf(rAddr) = BeatAt(b, Returned(b) + Len(rDataQ) + Len(pendingQ))
        BY <2>5, <2>6, <4>1, AcceptedBeat
      <4>3. word = WordOf(rAddr)
        BY <2>17, <4>1, <4>2
      <4> QED BY <4>1, <4>2, <4>3, AcceptedRead
    <3> QED BY <3>1, <3>2
  <2>18. routedAck => rAckPending > 0
    <3>1. Len(pendingQ) = rAckPending
      <4>1. Len(pendingQ) = rAckPending + wAckPending
        BY DEF PendingInv
      <4>2. Len(pendingQ) = rAckPending + 0
        BY <2>5, <4>1
      <4> QED BY <2>2, <4>2
    <3> QED BY <2>10, <3>1
  <2>19. \A i \in DOMAIN pendingQ', b \in rAsked :
           Returned(b)' + Len(rDataQ') + i - 1 = Returned(b) + Len(rDataQ) + (i + g) - 1
    <3> SUFFICES ASSUME NEW i \in DOMAIN pendingQ', NEW b \in rAsked
                 PROVE  Returned(b)' + Len(rDataQ') + i - 1 = Returned(b) + Len(rDataQ) + (i + g) - 1
      OBVIOUS
    <3>1. b.len \in 0 .. 255 /\ rRespCnt \in 0 .. 255 /\ i \in Nat
      <4>1. b \in ReadBursts
        BY <2>7 DEF BeatsKept
      <4> QED BY <1>1, <4>1, BurstTypes DEF InterInv, PmemTypeOK
    <3>2. Len(rDataQ') = Len(rDataQ) + g - One(RFire(axi))
      <4>1. One(ackToRead(routedAck)) = g
        BY <2>5, <2>11, <2>18 DEF One, ackToRead
      <4> QED BY <2>1, <4>1
    <3> DEFINE data == Len(rDataQ)
               data2 == Len(rDataQ')
    <3>3. Returned(b) = b.len - rRespCnt /\ Returned(b)' = b.len - rRespCnt'
      BY DEF Returned
    <3>4. One(RFire(axi)) \in 0 .. 1 /\ data \in Nat
      BY <2>2 DEF One
    <3>5. data2 = data + g - One(RFire(axi)) /\ rRespCnt' = rRespCnt - One(RFire(axi))
      BY <2>8, <3>2
    <3> HIDE DEF data, data2
    <3> DEFINE len == b.len
               c == rRespCnt
               c2 == rRespCnt'
               f == One(RFire(axi))
    <3>6. /\ len \in Int /\ c \in Int /\ i \in Int
          /\ f \in Int /\ g \in Int /\ data \in Int
      <4>1. len \in Int /\ c \in Int /\ i \in Int
        BY <3>1, NumbersAreInts, Zenon
      <4>2. f \in Int /\ data \in Int
        BY <3>4
      <4> QED BY <4>1, <4>2
    <3>7. c2 = c - f /\ data2 = data + g - f
      BY <3>5
    <3> HIDE DEF len, c, c2, f
    <3>8. c2 \in Int /\ data2 \in Int
      BY <3>6, <3>7
    <3>9. (len - c2) + data2 + i - 1 = (len - c) + data + (i + g) - 1
      BY <3>6, <3>7, <3>8, SameBeat
    <3> QED BY <3>3, <3>9 DEF len, c, c2, data, data2
  <2>20. \A i \in DOMAIN pendingQ', b \in rAsked :
           /\ UnderWayIn(pendingQ[i], next[i])'
           /\ (LET word == BeatAt(b, Returned(b) + Len(rDataQ) + i - 1)
               IN  pendingQ[i] = word % 2 /\ ReadIn(pendingQ[i], next[i]) = KeptAt(word))'
    <3> SUFFICES ASSUME NEW i \in DOMAIN pendingQ', NEW b \in rAsked
                 PROVE  /\ UnderWayIn(pendingQ[i], next[i])'
                        /\ (LET word == BeatAt(b, Returned(b) + Len(rDataQ) + i - 1)
                            IN  pendingQ[i] = word % 2 /\ ReadIn(pendingQ[i], next[i]) = KeptAt(word))'
      OBVIOUS
    <3>1. Returned(b) + Len(rDataQ) + (i + g) - 1 \in Nat
      <4>1. b \in ReadBursts /\ rRespCnt <= b.len /\ rRespCnt \in 0 .. 255
        BY <2>7 DEF BeatsKept, BurstAsked, InterInv, PmemTypeOK
      <4>2. b.len \in 0 .. 255 /\ i \in Nat /\ i >= 1
        BY <1>1, <4>1, BurstTypes
      <4>3. Returned(b) \in Nat
        <5>1. Returned(b) = b.len - rRespCnt
          BY DEF Returned
        <5>2. b.len - rRespCnt \in Nat
          BY <4>1, <4>2, Remaining, Zenon
        <5> QED BY <5>1, <5>2, Zenon
      <4> QED BY <2>2, <4>2, <4>3
    <3>2. BeatAt(b, Returned(b) + Len(rDataQ) + (i + g) - 1) \in Nat
      <4>1. b \in ReadBursts
        BY <2>7 DEF BeatsKept
      <4> QED BY <3>1, <4>1, BeatType
    <3>3. PICK word \in Nat : word = BeatAt(b, Returned(b) + Len(rDataQ) + (i + g) - 1)
      BY <3>2
    <3>4. /\ pendingQ'[i] = word % 2 /\ UnderWayIn(word % 2, next[i])'
          /\ ReadIn(word % 2, next[i])' = KeptAt(word)'
      BY <2>17, <3>3
    <3>5. BeatAt(b, Returned(b) + Len(rDataQ) + i - 1)' = word
      BY <2>19, <3>3
    <3>6. UnderWayIn(pendingQ[i], next[i])' /\ ReadIn(pendingQ[i], next[i])' = KeptAt(word)'
      BY <3>4 DEF UnderWayIn, ReadIn
    <3>7. KeptAt(BeatAt(b, Returned(b) + Len(rDataQ) + i - 1))' = KeptAt(word)'
      BY <3>5 DEF KeptAt, StoreIn
    <3> QED BY <3>4, <3>5, <3>6, <3>7
  <2>21. \A i \in DOMAIN pendingQ' : UnderWayIn(pendingQ[i], next[i])'
    <3>1. PICK b \in rAsked : TRUE
      BY <2>7 DEF BurstAsked
    <3> QED BY <2>20
  <2>22. AgesFit(next)'
    BY <2>8, <2>16, <2>20, <2>21 DEF AgesFit
  <2> QED BY <2>22
<1> QED BY <1>1, <1>2, <1>3

------------------------------------------------------------------------------
\* The words that are back in the front end.

LEMMA DataShift ==
  ASSUME rDataQ \in Seq(Word), NEW axi, NEW ack \in BOOLEAN, NEW data \in Word,
         ReadQueue(axi, ack, data), NEW i \in DOMAIN rDataQ'
  PROVE  \/ i + One(RFire(axi)) \in DOMAIN rDataQ /\ rDataQ'[i] = rDataQ[i + One(RFire(axi))]
         \/ ackToRead(ack) /\ i + One(RFire(axi)) = Len(rDataQ) + 1 /\ rDataQ'[i] = data
<1> DEFINE joins == ackToRead(ack) /\ Len(rDataQ) < QUEUE_DEPTH
           kept  == IF RFire(axi) THEN Tail(rDataQ) ELSE rDataQ
           f     == One(RFire(axi))
           g     == One(joins)
           q2    == rDataQ'
<1>1. /\ f \in 0 .. 1 /\ (f = 1 <=> RFire(axi))
      /\ g \in 0 .. 1 /\ (g = 1 => ackToRead(ack))
  BY DEF One
<1>2. f = 1 => rDataQ # <<>>
  BY DEF RFire, RValid, One
<1>3. kept = IF f = 1 THEN Tail(rDataQ) ELSE rDataQ
  BY <1>1
<1>4. q2 = IF g = 1 THEN Append(kept, data) ELSE kept
  BY DEF ReadQueue, One
<1>5. i \in DOMAIN q2
  OBVIOUS
<1> HIDE DEF f, g, kept, q2
<1>6. /\ DOMAIN q2 = 1 .. Len(rDataQ) - f + g
      /\ \A j \in 1 .. Len(rDataQ) - f : j + f \in DOMAIN rDataQ /\ q2[j] = rDataQ[j + f]
      /\ g = 1 => q2[Len(rDataQ) - f + 1] = data
  BY <1>1, <1>2, <1>3, <1>4, QueueShift
<1>7. \/ i + f \in DOMAIN rDataQ /\ q2[i] = rDataQ[i + f]
      \/ g = 1 /\ i + f = Len(rDataQ) + 1 /\ q2[i] = data
  BY <1>1, <1>5, <1>6
<1> QED BY <1>1, <1>7 DEF f, q2

\* The words the front end still holds are those of the beats it has not returned.
OrderKept ==
  rState = "rBurst" =>
    \A b \in rAsked \intersect ReadOnly : \A i \in DOMAIN rDataQ :
      rDataQ[i] = KeptAt(BeatAt(b, Returned(b) + i - 1))

\* The word that is acknowledged is that of the oldest read in the queue.
LEMMA HeadWord ==
  ASSUME InterInv, BeatsKept, rState = "rBurst", WaysOnBoth, routedAck,
         NEW age \in [DOMAIN pendingQ -> 1 .. 5], AgesFit(age), NEW b \in rAsked
  PROVE  readData = KeptAt(BeatAt(b, Returned(b) + Len(rDataQ)))
<1>1. pendingQ \in Seq(Chips) /\ DOMAIN pendingQ = 1 .. Len(pendingQ)
  BY DEF InterInv
<1>2. pendingQ # <<>> /\ Ack(pendingQ[1]) /\ Head(pendingQ) = pendingQ[1]
  BY <1>1 DEF routedAck, ackCore
<1>3. 1 \in DOMAIN pendingQ
  BY <1>1, <1>2
<1>4. pendingQ[1] \in Chips
  BY <1>1, <1>3, ElementOfSeq
<1>5. PICK k \in 1 .. 5 : k = age[1]
  BY <1>3
<1>6. /\ UnderWayIn(pendingQ[1], k)
      /\ ReadIn(pendingQ[1], k) = KeptAt(BeatAt(b, Returned(b) + Len(rDataQ) + 1 - 1))
  BY <1>3, <1>5, Zenon DEF AgesFit
<1>7. Returned(b) + Len(rDataQ) + 1 - 1 = Returned(b) + Len(rDataQ)
  <2>1. Len(rDataQ) \in Int
    BY DEF InterInv, PmemTypeOK
  <2>2. b.len \in 0 .. 255 /\ rRespCnt \in 0 .. 255
    BY BurstTypes DEF BeatsKept, InterInv, PmemTypeOK
  <2>3. Returned(b) \in Int
    BY <2>2 DEF Returned
  <2> QED BY <2>1, <2>3
<1>8. readData = ReadIn(pendingQ[1], k)
  <2>1. CASE pendingQ[1] = 0
    <3>1. Chip0!OneWord /\ ackQ0 /\ Chip0!UnderWay(k)
      BY <1>2, <1>6, <2>1 DEF WaysOnBoth, UnderWayIn, Ack
    <3>2. Chip0!PortWord = Chip0!ReadInFlight(k)
      BY <3>1, Chip0!WhatIsStored, GeometryAssumption, DelayAssumption, TimerAssumption,
         ByteAssumption, ClientOfChip0
    <3> QED BY <1>2, <2>1, <3>2 DEF readData, ackCore, ReadIn
  <2>2. CASE pendingQ[1] = 1
    <3>1. Chip1!OneWord /\ ackQ1 /\ Chip1!UnderWay(k)
      BY <1>2, <1>6, <2>2 DEF WaysOnBoth, UnderWayIn, Ack
    <3>2. Chip1!PortWord = Chip1!ReadInFlight(k)
      BY <3>1, Chip1!WhatIsStored, GeometryAssumption, DelayAssumption, TimerAssumption,
         ByteAssumption, ClientOfChip1
    <3> QED BY <1>2, <2>2, <3>2 DEF readData, ackCore, ReadIn
  <2> QED BY <1>4, <2>1, <2>2 DEF Chips
<1> QED BY <1>6, <1>7, <1>8

\* The beats of a burst that nobody writes keep their words.
LEMMA ReadOnlyKept ==
  ASSUME BurstsLegal, InterInv, BeatsKept, BurstAsked, LatchedOnBoth,
         \A chip \in Chips : WordsKept(chip),
         NEW b \in ReadOnly, NEW k \in 0 .. b.len
  PROVE  KeptAt(BeatAt(b, k))' = KeptAt(BeatAt(b, k))
<1>1. b \in ReadBursts /\ k \in Nat
  <2>1. b \in ReadBursts
    BY DEF ReadOnly
  <2> QED BY <2>1, BurstTypes
<1>2. PICK word \in Nat : word = BeatAt(b, k)
  BY <1>1, BeatType
<1> DEFINE x == word % (2 * NumWords)
<1>3. x \in BurstWords(b)
  BY <1>2 DEF BurstWords, BeatAt
<1>4. Untouched(x)
  BY <1>3 DEF Untouched, ReadOnly
<1>5. /\ x \in 0 .. 2 * NumWords - 1
      /\ word % 2 = x % 2 /\ (word \div 2) % NumWords = x \div 2
  BY WordsOfChip, PlaceOf
<1> HIDE DEF x
<1>6. StoreIn(x % 2, x \div 2)' = StoreIn(x % 2, x \div 2)
  BY <1>4, <1>5, UntouchedStep
<1>7. KeptAt(word)' = StoreIn(x % 2, x \div 2)' /\ KeptAt(word) = StoreIn(x % 2, x \div 2)
  BY <1>5 DEF KeptAt, StoreIn
<1>8. KeptAt(BeatAt(b, k))' = KeptAt(word)'
  BY <1>2 DEF KeptAt, StoreIn
<1> QED BY <1>2, <1>6, <1>7, <1>8

LEMMA BeatInBurst ==
  \A len, c \in 0 .. 255 : \A m, o \in Nat :
    c <= len /\ o <= c + 1 /\ m >= 1 /\ m <= o => (len - c) + m - 1 \in 0 .. len
OBVIOUS

\* The words that are owed are those of the last beats of the burst.
LEMMA BeatOwed ==
  ASSUME InterInv, BeatsKept, BurstAsked, rState = "rBurst", NEW b \in rAsked,
         NEW m \in Nat, m >= 1, m <= rOutstanding
  PROVE  Returned(b) + m - 1 \in 0 .. b.len
<1> DEFINE len == b.len
           c == rRespCnt
           o == rOutstanding
<1>1. len \in 0 .. 255 /\ c \in 0 .. 255 /\ c <= len
  BY BurstTypes DEF BeatsKept, BurstAsked, InterInv, PmemTypeOK
<1>2. o \in Nat /\ o <= c + 1
  <2>1. rReqCnt \in 0 .. 255 /\ o \in Nat /\ c \in 0 .. 255
    BY DEF InterInv, PmemTypeOK
  <2>2. c + 1 = o + (IF rAllReqsSent THEN 0 ELSE rReqCnt + 1)
    BY DEF InterInv, ReadsAccounted
  <2> HIDE DEF o, c
  <2> QED BY <2>1, <2>2
<1> HIDE DEF len, c, o
<1>3. m <= o
  BY DEF o
<1>4. (len - c) + m - 1 \in 0 .. len
  BY <1>1, <1>2, <1>3, BeatInBurst, Zenon
<1> QED BY <1>4 DEF len, c, Returned

LEMMA OrderStep ==
  ASSUME BurstsLegal, InterInv, PendingInv, WaysOnBoth, LatchedOnBoth, BeatsKept, BurstAsked,
         ReadsUnderWay, OrderKept, NEW axi \in AxiInputs, InterCycle(axi),
         \A chip \in Chips : WordsKept(chip)
  PROVE  OrderKept'
<1> SUFFICES ASSUME rState' = "rBurst", NEW b \in rAsked' \intersect ReadOnly, NEW i \in DOMAIN rDataQ'
             PROVE  rDataQ'[i] = KeptAt(BeatAt(b, Returned(b) + i - 1))'
  BY DEF OrderKept
<1>1. /\ rAckPending' = rAckPending + One(grantRead /\ accept) - One(ackToRead(routedAck))
      /\ Len(rDataQ') = Len(rDataQ) + One(ackToRead(routedAck)) - One(RFire(axi))
      /\ ReadFsm(axi, accept) /\ MasterReads(axi) /\ accept \in BOOLEAN
      /\ routedAck \in BOOLEAN /\ readData \in Word /\ ReadQueue(axi, routedAck, readData)
  BY QueueCycle, AnswerTypes DEF InterCycle, PmemStep
<1>2. /\ rDataQ \in Seq(Word) /\ Len(rDataQ) \in Nat
      /\ rAckPending \in Nat /\ wAckPending \in Nat /\ rOutstanding \in Nat
      /\ rState \in {"rIdle", "rBurst"} /\ rRespCnt \in 0 .. 255 /\ rReqCnt \in 0 .. 255
      /\ rOutstanding = rAckPending + Len(rDataQ)
  BY DEF InterInv, PmemTypeOK, ReadsAccounted
<1>3. PICK f \in 0 .. 1 : f = One(RFire(axi))
  BY DEF One
<1>4. \/ i + f \in DOMAIN rDataQ /\ rDataQ'[i] = rDataQ[i + f]
      \/ ackToRead(routedAck) /\ i + f = Len(rDataQ) + 1 /\ rDataQ'[i] = readData
  BY <1>1, <1>2, <1>3, DataShift
<1>5. rState = "rBurst"
  <2> SUFFICES ASSUME rState = "rIdle" PROVE FALSE
    BY <1>2
  <2>1. rOutstanding = 0
    BY DEF InterInv, ReadsAccounted
  <2>2. rAckPending = 0 /\ Len(rDataQ) = 0
    BY <1>2, <2>1
  <2>3. DOMAIN rDataQ = {}
    BY <1>2, <2>2
  <2> QED BY <1>4, <2>2, <2>3 DEF ackToRead
<1>6. rAsked' = rAsked /\ rRespCnt' = rRespCnt - f
  BY <1>1, <1>3, <1>5, ReadsGoOn DEF InterInv
<1>7. b \in ReadOnly /\ b \in rAsked /\ b \in ReadBursts /\ b.len \in 0 .. 255 /\ rRespCnt <= b.len
  <2>1. b \in ReadOnly /\ b \in rAsked /\ b \in ReadBursts /\ rRespCnt <= b.len
    BY <1>5, <1>6 DEF ReadOnly, BurstAsked
  <2> QED BY <2>1, BurstTypes
<1>8. i \in Nat /\ i >= 1
  BY <1>2, <1>4
<1>9. i + f \in Nat /\ i + f >= 1 /\ i + f <= rOutstanding
  BY <1>2, <1>3, <1>4, <1>8 DEF ackToRead
<1>10. Returned(b) + (i + f) - 1 \in 0 .. b.len
  BY <1>5, <1>7, <1>9, BeatOwed
<1>11. PICK k \in 0 .. b.len : k = Returned(b) + (i + f) - 1
  BY <1>10
<1>12. Returned(b)' + i - 1 = k
  <2> DEFINE len == b.len
             c == rRespCnt
             c2 == rRespCnt'
  <2>1. len \in Int /\ c \in Int /\ f \in Int /\ i \in Int /\ c2 = c - f
    <3>1. len \in Int /\ c \in Int /\ i \in Int
      BY <1>2, <1>7, <1>8, NumbersAreInts, Zenon
    <3>2. f \in Int
      OBVIOUS
    <3> QED BY <1>6, <3>1, <3>2, Zenon
  <2>2. Returned(b)' = len - c2 /\ Returned(b) = len - c
    BY DEF Returned
  <2> HIDE DEF len, c, c2
  <2>3. (len - c2) + i - 1 = (len - c) + (i + f) - 1
    BY <2>1
  <2> QED BY <1>11, <2>2, <2>3, Zenon
<1>13. rDataQ'[i] = KeptAt(BeatAt(b, k))
  <2>1. CASE i + f \in DOMAIN rDataQ /\ rDataQ'[i] = rDataQ[i + f]
    BY <1>5, <1>7, <1>11, <2>1 DEF OrderKept
  <2>2. CASE ackToRead(routedAck) /\ i + f = Len(rDataQ) + 1 /\ rDataQ'[i] = readData
    <3>1. wAckPending = 0 /\ routedAck
      BY <1>2, <2>2 DEF ackToRead, PendingInv
    <3>2. PICK age \in [DOMAIN pendingQ -> 1 .. 5] : AgesFit(age)
      BY <3>1 DEF ReadsUnderWay
    <3>3. readData = KeptAt(BeatAt(b, Returned(b) + Len(rDataQ)))
      BY <1>5, <1>7, <3>1, <3>2, HeadWord
    <3>4. Returned(b) + Len(rDataQ) = k
      <4> DEFINE kept == Returned(b)
                 data == Len(rDataQ)
      <4>1. kept \in Int
        <5>1. b.len \in Int /\ rRespCnt \in Int
          BY <1>2, <1>7, NumbersAreInts, Zenon
        <5>2. \A m, c \in Int : m - c \in Int
          OBVIOUS
        <5> QED BY <5>1, <5>2, Zenon DEF Returned
      <4>2. data \in Int /\ i + f = data + 1 /\ k = kept + (i + f) - 1
        BY <1>2, <1>11, <2>2
      <4> HIDE DEF kept, data
      <4>3. k = kept + (data + 1) - 1
        BY <4>2, Zenon
      <4>4. kept + data = k
        BY <4>1, <4>2, <4>3
      <4> QED BY <4>4 DEF kept, data
    <3> QED BY <2>2, <3>3, <3>4
  <2> QED BY <1>4, <2>1, <2>2
<1>14. KeptAt(BeatAt(b, k))' = KeptAt(BeatAt(b, k))
  BY <1>7, ReadOnlyKept
<1>15. KeptAt(BeatAt(b, Returned(b) + i - 1))' = KeptAt(BeatAt(b, k))'
  BY <1>12 DEF KeptAt, StoreIn
<1> QED BY <1>13, <1>14, <1>15

------------------------------------------------------------------------------
\* The invariant of the words.

InOrderInv ==
  /\ WaysOnBoth /\ RetriesLatched
  /\ BeatsKept /\ BurstAsked
  /\ ReadsUnderWay /\ SettledKept /\ OrderKept

LEMMA WaysStart == CasLatency = 2 /\ InterInit => WaysOnBoth
<1>1. CasLatency = 2 /\ Chip0!Init => Chip0!InFlight /\ Chip0!OneWord
  BY Chip0!InFlightStart, Chip0!OneWordStart, GeometryAssumption, DelayAssumption, TimerAssumption,
     ByteAssumption, ClientOfChip0
<1>2. CasLatency = 2 /\ Chip1!Init => Chip1!InFlight /\ Chip1!OneWord
  BY Chip1!InFlightStart, Chip1!OneWordStart, GeometryAssumption, DelayAssumption, TimerAssumption,
     ByteAssumption, ClientOfChip1
<1> QED BY <1>1, <1>2 DEF InterInit, WaysOnBoth

LEMMA SettledKeptStart == InterInit => SettledKept
<1> SUFFICES ASSUME InterInit, NEW x \in 0 .. 2 * NumWords - 1 PROVE SettledIn(x % 2, x \div 2)
  BY DEF SettledKept
<1>1. Chip0!Init => \A word \in 0 .. Chip0!NumWords - 1 : Chip0!Settled(word)
  BY Chip0!SettledStart, GeometryAssumption, DelayAssumption, TimerAssumption, ByteAssumption,
     ClientOfChip0
<1>2. Chip1!Init => \A word \in 0 .. Chip1!NumWords - 1 : Chip1!Settled(word)
  BY Chip1!SettledStart, GeometryAssumption, DelayAssumption, TimerAssumption, ByteAssumption,
     ClientOfChip1
<1>3. x \div 2 \in 0 .. NumWords - 1
  <2>1. \A n \in Nat \ {0} : \A i \in 0 .. 2 * n - 1 : i \div 2 \in 0 .. n - 1
    OBVIOUS
  <2> QED BY <2>1, WordsOfChip
<1> QED BY <1>1, <1>2, <1>3, WordsOfChip DEF InterInit, SettledIn

LEMMA InOrderStart == CasLatency = 2 /\ InterInit => InOrderInv
<1> SUFFICES ASSUME CasLatency = 2, InterInit PROVE InOrderInv
  OBVIOUS
<1>1. WaysOnBoth /\ SettledKept /\ BeatsKept /\ BurstAsked
  BY WaysStart, SettledKeptStart, BeatsStart, AskedStart DEF InterInit
<1>2. RetriesLatched
  BY DEF InterInit, RetriesLatched, State, Chip0!Init, Chip1!Init, Chip0!CoreInit, Chip1!CoreInit
<1>3. ReadsUnderWay
  <2>1. pendingQ = <<>> /\ DOMAIN pendingQ = {}
    BY DEF InterInit
  <2> DEFINE none == [i \in {} |-> 1]
  <2>2. none \in [DOMAIN pendingQ -> 1 .. 5] /\ AgesFit(none)
    BY <2>1 DEF AgesFit
  <2> QED BY <2>2 DEF ReadsUnderWay
<1>4. OrderKept
  BY DEF InterInit, PmemInit, OrderKept
<1> QED BY <1>1, <1>2, <1>3, <1>4 DEF InOrderInv

LEMMA InOrderCycle ==
  ASSUME CasLatency = 2, BurstsLegal, InterInv, InterInv', PendingInv, PendingInv', PinsOnBoth,
         DrainsOnBoth, LatchedOnBoth, RowsOnBoth', InOrderInv,
         NEW axi \in AxiInputs, InterCycle(axi)
  PROVE  InOrderInv'
<1> USE DEF InOrderInv
<1>1. /\ WaysOnBoth'
      /\ \A chip \in Chips : WordsKept(chip)
      /\ \A chip \in Chips :
           State(chip)' = "read_wait" => State(chip) = "read" /\ Latched(chip)' = Latched(chip)
  <2>1. 0 \in Chips
    BY DEF Chips
  <2>2. ASSUME NEW chip \in Chips
        PROVE  /\ WaysOnBoth' /\ WordsKept(chip)
               /\ State(chip)' = "read_wait" => State(chip) = "read" /\ Latched(chip)' = Latched(chip)
    BY ChipReads DEF WordsKept
  <2> QED BY <2>1, <2>2
<1>2. RetriesLatched'
  BY <1>1, RetriesStep
<1>3. BeatsKept' /\ BurstAsked'
  BY AnswerTypes, BeatsStep, AskedStep DEF InterInv, InterCycle, PmemStep
<1>4. ReadsUnderWay'
  BY ReadsUnderWayStep DEF ReadsUnderWay
<1>5. SettledKept'
  BY <1>1, UntouchedStep DEF SettledKept
<1>6. OrderKept'
  BY <1>1, OrderStep
<1> QED BY <1>1, <1>2, <1>3, <1>4, <1>5, <1>6

LEMMA InOrderStutter == InOrderInv /\ UNCHANGED interVars => InOrderInv'
<1> SUFFICES ASSUME InOrderInv, UNCHANGED interVars PROVE InOrderInv'
  OBVIOUS
<1> USE DEF InOrderInv
<1>1. /\ UNCHANGED Chip0!chipVars /\ UNCHANGED Chip1!chipVars
      /\ pendingQ' = pendingQ /\ rDataQ' = rDataQ /\ rState' = rState /\ rRespCnt' = rRespCnt
      /\ rAsked' = rAsked /\ wAckPending' = wAckPending /\ rAllReqsSent' = rAllReqsSent
      /\ rOutstanding' = rOutstanding
      /\ rAddr' = rAddr /\ stateQ0' = stateQ0 /\ stateQ1' = stateQ1
      /\ reqAddrQ0' = reqAddrQ0 /\ reqAddrQ1' = reqAddrQ1
  BY DEF interVars, pmemVars, readVars, masterVars, Chip0!chipVars, Chip1!chipVars, Chip0!coreVars,
     Chip1!coreVars, Chip0!fsmVars, Chip1!fsmVars, Chip0!reqVars, Chip1!reqVars
<1>2. /\ Chip0!InFlight => Chip0!InFlight'
      /\ Chip0!OneWord => Chip0!OneWord'
      /\ Chip0!Store' = Chip0!Store
      /\ \A word \in 0 .. NumWords - 1 : Chip0!Settled(word) => Chip0!Settled(word)'
      /\ \A i \in 1 .. 5 : /\ Chip0!UnderWay(i)' = Chip0!UnderWay(i)
                           /\ Chip0!ReadInFlight(i)' = Chip0!ReadInFlight(i)
  <2>1. Chip0!InFlight => Chip0!InFlight'
    BY <1>1, Chip0!InFlightStutter, GeometryAssumption, DelayAssumption, TimerAssumption,
       ByteAssumption, ClientOfChip0
  <2>2. /\ Chip0!OneWord => Chip0!OneWord'
        /\ Chip0!Store' = Chip0!Store
        /\ \A word \in 0 .. Chip0!NumWords - 1 : Chip0!Settled(word) => Chip0!Settled(word)'
        /\ \A i \in 1 .. 5 : /\ Chip0!UnderWay(i)' = Chip0!UnderWay(i)
                             /\ Chip0!ReadInFlight(i)' = Chip0!ReadInFlight(i)
    BY <1>1, Chip0!StutterReads, GeometryAssumption, DelayAssumption, TimerAssumption,
       ByteAssumption, ClientOfChip0
  <2> QED BY <2>1, <2>2, WordsOfChip
<1>3. /\ Chip1!InFlight => Chip1!InFlight'
      /\ Chip1!OneWord => Chip1!OneWord'
      /\ Chip1!Store' = Chip1!Store
      /\ \A word \in 0 .. NumWords - 1 : Chip1!Settled(word) => Chip1!Settled(word)'
      /\ \A i \in 1 .. 5 : /\ Chip1!UnderWay(i)' = Chip1!UnderWay(i)
                           /\ Chip1!ReadInFlight(i)' = Chip1!ReadInFlight(i)
  <2>1. Chip1!InFlight => Chip1!InFlight'
    BY <1>1, Chip1!InFlightStutter, GeometryAssumption, DelayAssumption, TimerAssumption,
       ByteAssumption, ClientOfChip1
  <2>2. /\ Chip1!OneWord => Chip1!OneWord'
        /\ Chip1!Store' = Chip1!Store
        /\ \A word \in 0 .. Chip1!NumWords - 1 : Chip1!Settled(word) => Chip1!Settled(word)'
        /\ \A i \in 1 .. 5 : /\ Chip1!UnderWay(i)' = Chip1!UnderWay(i)
                             /\ Chip1!ReadInFlight(i)' = Chip1!ReadInFlight(i)
    BY <1>1, Chip1!StutterReads, GeometryAssumption, DelayAssumption, TimerAssumption,
       ByteAssumption, ClientOfChip1
  <2> QED BY <2>1, <2>2, WordsOfChip
<1>4. WaysOnBoth'
  BY <1>2, <1>3 DEF WaysOnBoth
<1>5. RetriesLatched'
  <2>1. (rReqRam' <=> rReqRam) /\ WordOf(rAddr)' = WordOf(rAddr)
    <3>1. rReqRam' <=> rReqRam
      BY <1>1, Zenon DEF rReqRam
    <3>2. WordOf(rAddr)' = WordOf(rAddr)
      BY <1>1 DEF WordOf
    <3> QED BY <3>1, <3>2
  <2>2. \A chip \in Chips : State(chip)' = State(chip) /\ Latched(chip)' = Latched(chip)
    BY <1>1 DEF State, Latched
  <2> QED BY <2>1, <2>2 DEF RetriesLatched
<1>6. BeatsKept' /\ BurstAsked'
  BY DEF BeatsKept, BurstAsked, interVars, pmemVars, readVars, writeVars, masterVars
<1>7. \A word : KeptAt(word)' = KeptAt(word)
  BY <1>2, <1>3 DEF KeptAt, StoreIn
<1>8. ReadsUnderWay'
  <2> SUFFICES ASSUME wAckPending = 0, NEW age \in [DOMAIN pendingQ -> 1 .. 5], AgesFit(age)
               PROVE  AgesFit(age)'
    BY <1>1 DEF ReadsUnderWay
  <2>1. ASSUME NEW i \in DOMAIN pendingQ
        PROVE  /\ UnderWayIn(pendingQ[i], age[i])' = UnderWayIn(pendingQ[i], age[i])
               /\ ReadIn(pendingQ[i], age[i])' = ReadIn(pendingQ[i], age[i])
    <3>1. age[i] \in 1 .. 5
      OBVIOUS
    <3> QED BY <1>1, <1>2, <1>3, <3>1 DEF UnderWayIn, ReadIn
  <2>2. ASSUME NEW i \in DOMAIN pendingQ, NEW b \in rAsked
        PROVE  LET word == BeatAt(b, Returned(b) + Len(rDataQ) + i - 1)
               IN  (pendingQ[i] = word % 2 /\ ReadIn(pendingQ[i], age[i]) = KeptAt(word))'
    <3>1. PICK word : word = BeatAt(b, Returned(b) + Len(rDataQ) + i - 1)
      OBVIOUS
    <3>2. pendingQ[i] = word % 2 /\ ReadIn(pendingQ[i], age[i]) = KeptAt(word)
      BY <3>1 DEF AgesFit
    <3>3. BeatAt(b, Returned(b) + Len(rDataQ) + i - 1)' = word
      BY <1>1, <3>1 DEF Returned
    <3>4. KeptAt(BeatAt(b, Returned(b) + Len(rDataQ) + i - 1))' = KeptAt(word)'
      BY <3>3 DEF KeptAt, StoreIn
    <3> QED BY <1>1, <1>7, <2>1, <3>2, <3>3, <3>4
  <2> QED BY <1>1, <2>1, <2>2 DEF AgesFit
<1>9. SettledKept'
  <2>1. \A n \in Nat \ {0} : \A i \in 0 .. 2 * n - 1 : i \div 2 \in 0 .. n - 1
    OBVIOUS
  <2>2. \A x \in 0 .. 2 * NumWords - 1 : x \div 2 \in 0 .. NumWords - 1
    BY <2>1, WordsOfChip
  <2> QED BY <1>2, <1>3, <2>2 DEF SettledKept, SettledIn
<1>10. OrderKept'
  <2> SUFFICES ASSUME rState = "rBurst", NEW b \in rAsked \intersect ReadOnly, NEW i \in DOMAIN rDataQ
               PROVE  rDataQ[i] = KeptAt(BeatAt(b, Returned(b) + i - 1))'
    BY <1>1 DEF OrderKept
  <2>1. PICK word : word = BeatAt(b, Returned(b) + i - 1)
    OBVIOUS
  <2>2. rDataQ[i] = KeptAt(word)
    BY <2>1 DEF OrderKept
  <2>3. BeatAt(b, Returned(b) + i - 1)' = word
    BY <1>1, <2>1 DEF Returned
  <2>4. KeptAt(BeatAt(b, Returned(b) + i - 1))' = KeptAt(word)'
    BY <2>3 DEF KeptAt, StoreIn
  <2> QED BY <1>7, <2>2, <2>4
<1> QED BY <1>4, <1>5, <1>6, <1>8, <1>9, <1>10

LEMMA InOrderFollows ==
  ASSUME BurstsLegal, InterInv, InOrderInv
  PROVE  WordsInOrder
<1> SUFFICES ASSUME rState = "rBurst", NEW b \in rAsked \intersect ReadOnly, NEW i \in DOMAIN rDataQ
             PROVE  rDataQ[i] = StoredWord(BeatWord(b.addr, b.type, b.len, b.len - rRespCnt + i - 1))
  BY DEF WordsInOrder
<1> USE DEF InOrderInv
<1>1. /\ rDataQ \in Seq(Word) /\ Len(rDataQ) \in Nat /\ rAckPending \in Nat /\ rOutstanding \in Nat
      /\ rOutstanding = rAckPending + Len(rDataQ)
  BY DEF InterInv, PmemTypeOK, ReadsAccounted
<1>2. i \in Nat /\ i >= 1 /\ i <= rOutstanding
  BY <1>1
<1>3. PICK k \in 0 .. b.len : k = Returned(b) + i - 1
  <2>1. Returned(b) + i - 1 \in 0 .. b.len
    BY <1>2, BeatOwed
  <2> QED BY <2>1
<1>4. b \in ReadBursts /\ k \in Nat
  <2>1. b \in ReadBursts
    BY DEF ReadOnly
  <2> QED BY <2>1, BurstTypes
<1>5. PICK word \in Nat : word = BeatAt(b, k)
  BY <1>4, BeatType
<1>6. rDataQ[i] = KeptAt(word)
  BY <1>3, <1>5 DEF OrderKept
<1>7. word = BeatWord(b.addr, b.type, b.len, b.len - rRespCnt + i - 1)
  BY <1>3, <1>5 DEF BeatAt, Returned
<1> DEFINE x == word % (2 * NumWords)
           place == (word \div 2) % NumWords
<1>8. x \in BurstWords(b)
  BY <1>5 DEF BurstWords, BeatAt
<1>9. Untouched(x)
  BY <1>8 DEF Untouched, ReadOnly
<1>10. /\ x \in 0 .. 2 * NumWords - 1 /\ word % 2 \in Chips /\ place \in 0 .. NumWords - 1
       /\ word % 2 = x % 2 /\ place = x \div 2
  BY WordsOfChip, PlaceOf
<1> HIDE DEF x, place
<1>11. SettledIn(word % 2, place)
  BY <1>9, <1>10 DEF SettledKept
<1>12. KeptAt(word) = StoreIn(word % 2, place)
  BY DEF KeptAt, place
<1>13. StoredWord(word) = IF word % 2 = 1 THEN Chip1!JoinHalves(mem1[2 * place], mem1[2 * place + 1])
                                         ELSE Chip0!JoinHalves(mem0[2 * place], mem0[2 * place + 1])
  BY DEF StoredWord, place, Chip0!JoinHalves, Chip1!JoinHalves, ByteLanes, Chip0!ByteLanes,
     Chip1!ByteLanes
<1>14. CASE word % 2 = 1
  <2>1. Chip1!Settled(place) /\ place \in 0 .. Chip1!NumWords - 1
    BY <1>10, <1>11, <1>14, WordsOfChip DEF SettledIn
  <2>2. Chip1!JoinHalves(mem1[2 * place], mem1[2 * place + 1]) = Chip1!Store[place]
    BY <2>1, Chip1!WhatIsStored, GeometryAssumption, DelayAssumption, TimerAssumption,
       ByteAssumption, ClientOfChip1
  <2> QED BY <1>6, <1>7, <1>12, <1>13, <1>14, <2>2 DEF StoreIn
<1>15. CASE word % 2 = 0
  <2>1. Chip0!Settled(place) /\ place \in 0 .. Chip0!NumWords - 1
    BY <1>10, <1>11, <1>15, WordsOfChip DEF SettledIn
  <2>2. Chip0!JoinHalves(mem0[2 * place], mem0[2 * place + 1]) = Chip0!Store[place]
    BY <2>1, Chip0!WhatIsStored, GeometryAssumption, DelayAssumption, TimerAssumption,
       ByteAssumption, ClientOfChip0
  <2> QED BY <1>6, <1>7, <1>12, <1>13, <1>15, <2>2 DEF StoreIn
<1> QED BY <1>10, <1>14, <1>15 DEF Chips

\* The words of a read burst come back in the order of its beats, each from the
\* place of its beat, whichever chip is the faster, whichever of them refreshes and
\* whatever a controller serves that nobody waits for: for bursts AXI allows, and
\* the latency the controllers load into the mode registers of their chips.
THEOREM WordsAlwaysInOrder == CasLatency = 2 /\ BurstsLegal => (InterSpec => []WordsInOrder)
<1> SUFFICES ASSUME CasLatency = 2, BurstsLegal PROVE InterSpec => []WordsInOrder
  OBVIOUS
<1>1. InterInit => InOrderInv
  BY InOrderStart
<1>2. /\ InterInv /\ InterInv' /\ PendingInv /\ PendingInv' /\ PinsOnBoth /\ ServedOnBoth
      /\ RowsOnBoth' /\ InOrderInv /\ [InterNext]_interVars
      => InOrderInv'
  BY InOrderCycle, InOrderStutter DEF ServedOnBoth, InterNext
<1>3. InterSpec => []RowsOnBoth
  BY SafeOnBothChips, PTL DEF RowsOnBoth
<1>4. InterInv /\ InOrderInv => WordsInOrder
  BY InOrderFollows
<1> QED BY <1>1, <1>2, <1>3, <1>4, InterAlways, PendingAlways, PinsOnBothAlways, ServedOnBothAlways,
           PTL DEF InterSpec

==============================================================================
