-------------------------- MODULE SdramAxiTopProofs --------------------------
(***************************************************************************)
(* Proofs about SdramAxiTop: the controller behind the front end is the     *)
(* controller of SdramChip, so what is proved there holds here, and the     *)
(* front end accounts for every read.                                       *)
(***************************************************************************)
EXTENDS SdramAxiTop, AxiMasterProofs, SdramChipProofs, FiniteSetTheorems

TopInv == TypeOK /\ PmemTypeOK /\ ReadsAccounted /\ MasterTypeOK

LEMMA TopStart == TopInit => TopInv
BY InitType, FrontEndStart DEF TopInit, TopInv

LEMMA PortRequestIsClient == PmemTypeOK => PortRequest \in Requests
<1> SUFFICES ASSUME PmemTypeOK PROVE PortRequest \in PortRequests(0 .. AddrSpace \div 4 - 1)
  BY FrontEndAssumption
<1> QED BY PortRequestType DEF PortRequest, PortRequests

\* A step of the whole is a step of controller and chip with one more client.
LEMMA TopStepIsChipStep == PmemTypeOK /\ [TopNext]_topVars => [Next]_chipVars
BY PortRequestIsClient DEF TopNext, TopCycle, Next, topVars

LEMMA TopStep == TopInv /\ [TopNext]_topVars => TopInv'
<1>1. ASSUME TopInv, NEW axi \in AxiInputs, TopCycle(axi) PROVE TopInv'
  <2>1. TypeOK'
    BY <1>1, StepType, PortRequestIsClient DEF TopInv, TopCycle, Next
  <2>2. Accept(PortRequest) \in BOOLEAN
    BY DEF Accept
  <2>3. PortWord \in Word /\ ackQ \in BOOLEAN
    BY <1>1, PortWordType DEF TopInv
  <2>4. PmemTypeOK' /\ ReadsAccounted' /\ MasterTypeOK'
    BY <1>1, <2>2, <2>3, FrontEndStep DEF TopInv, TopCycle
  <2> QED BY <2>1, <2>4 DEF TopInv
<1>2. ASSUME TopInv, UNCHANGED topVars PROVE TopInv'
  <2>1. TypeOK'
    BY <1>2, StutterType DEF TopInv, topVars
  <2>2. PmemTypeOK' /\ ReadsAccounted' /\ MasterTypeOK'
    BY <1>2 DEF TopInv, PmemTypeOK, ReadsAccounted, MasterTypeOK, topVars, pmemVars, readVars,
                writeVars, masterVars
  <2> QED BY <2>1, <2>2 DEF TopInv
<1> QED BY <1>1, <1>2 DEF TopNext

LEMMA TopAlways == TopSpec => []TopInv
BY TopStart, TopStep, PTL DEF TopSpec

\* Every register of the front end keeps its range: no counter wraps below 0 or
\* past 15 and no queue is overrun, for every master and every part.
THEOREM FrontEndTypeCorrect == TopSpec => []PmemTypeOK
<1>1. TopInv => PmemTypeOK
  BY DEF TopInv
<1> QED BY <1>1, TopAlways, PTL

\* No word is dropped for want of room and none is returned twice, for every
\* burst: the queue has room for what the controller owes.
THEOREM ReadsAlwaysAccounted == TopSpec => []ReadsAccounted
<1>1. TopInv => ReadsAccounted
  BY DEF TopInv
<1> QED BY <1>1, TopAlways, PTL

\* The system behind the AXI port implements SdramChip: the controller sees one
\* of the clients it is proved for.
THEOREM ImplementsSdramChip == TopSpec => IsSdramChip
<1>1. TopInit => Init
  BY DEF TopInit
<1>2. TopInv => PmemTypeOK
  BY DEF TopInv
<1> QED BY <1>1, <1>2, TopAlways, TopStepIsChipStep, PTL DEF TopSpec, IsSdramChip, Spec

\* Hence, behind the AXI port too, no command trips an assertion of the chip,
\* each access reaches its row, no burst is disturbed, the data pins have one
\* driver and refreshes come on time.
THEOREM SafeBehindAxi ==
  TopSpec => [](/\ ChipAssertions /\ RightRow /\ RefreshOnTime
                /\ PoweredUp /\ BurstsUndisturbed /\ BusExclusive)
BY ImplementsSdramChip, AssertionsHold, AlwaysRightRow, RefreshAlwaysOnTime, AlwaysPoweredUp,
   BurstsNeverDisturbed, BusAlwaysExclusive, PTL DEF IsSdramChip

------------------------------------------------------------------------------
\* The addresses of a burst.

LEMMA BeatsTopStep ==
  BurstsLegal /\ TopInv /\ BeatsKept /\ [TopNext]_topVars => BeatsKept'
<1>1. ASSUME BurstsLegal, TopInv, BeatsKept, NEW axi \in AxiInputs, TopCycle(axi)
      PROVE  BeatsKept'
  <2>1. Accept(PortRequest) \in BOOLEAN
    BY DEF Accept
  <2> QED BY <1>1, <2>1, BeatsStep DEF TopInv, TopCycle, PmemStep
<1>2. ASSUME BeatsKept, UNCHANGED topVars PROVE BeatsKept'
  BY <1>2 DEF BeatsKept, topVars, pmemVars, readVars, writeVars, masterVars
<1> QED BY <1>1, <1>2 DEF TopNext

\* Every beat of every burst AXI allows goes to the address AXI gives it, around
\* the address space and across the boundary of a wrapping burst.
THEOREM EveryBeatInPlace == BurstsLegal => (TopSpec => []BeatsInPlace)
<1> SUFFICES ASSUME BurstsLegal PROVE TopSpec => []BeatsInPlace
  OBVIOUS
<1>1. TopInit => BeatsKept
  BY BeatsStart DEF TopInit
<1>2. BeatsKept => BeatsInPlace
  BY DEF BeatsKept, BeatsInPlace
<1>3. TopInv /\ BeatsKept /\ [TopNext]_topVars => BeatsKept'
  BY BeatsTopStep
<1> QED BY <1>1, <1>2, <1>3, TopAlways, PTL DEF TopSpec

------------------------------------------------------------------------------
\* What the controller serves.

\* A request is accepted in the state that serves it, and only there.
LEMMA PortCases ==
  ASSUME PmemTypeOK
  PROVE  /\ grantRead /\ Accept(PortRequest) <=> stateQ = "read" /\ grantRead
         /\ grantWrite /\ Accept(PortRequest) <=>
              stateQ = "write0" /\ grantWrite /\ Head(wDataQueue).strb # {}
         /\ Accept(PortRequest) => grantRead \/ grantWrite
         /\ grantRead => ~grantWrite
<1>1. grantRead => ~grantWrite
  BY DEF grantRead
<1>2. Accept(PortRequest) <=> \/ stateQ = "read" /\ grantRead
                              \/ stateQ = "write0" /\ ramWstrb # {}
  BY DEF Accept, PortRequest
<1>3. ramWstrb = IF grantWrite THEN Head(wDataQueue).strb ELSE {}
  BY DEF ramWstrb
<1> QED BY <1>1, <1>2, <1>3

\* While the machine heads for a state that serves a side, that side asks for the
\* word that was latched: the other side can get in between only when it is not
\* accepted, and then nothing moves on.
LatchedInv ==
  /\ Heading = "read" => ReadAsks /\ reqAddrQ = WordOf(rAddr)
  /\ Heading = "write0" => /\ WriteAsks /\ reqAddrQ = WordOf(wAddr)
                           /\ reqWrStrbQ = Head(wDataQueue).strb /\ reqWrStrbQ # {}

LEMMA LatchedStart == TopInit => LatchedInv
BY DEF TopInit, Init, CoreInit, LatchedInv, Heading, Goal

\* Of the steps of the front end, those that matter to what is served.
LEMMA NotAccepted ==
  ASSUME TopInv, NEW axi \in AxiInputs, TopCycle(axi)
  PROVE  /\ ReadAsks /\ stateQ \notin {"read", "write0"} => ReadAsks' /\ rAddr' = rAddr
         /\ WriteAsks /\ stateQ \notin {"read", "write0"} =>
              WriteAsks' /\ wAddr' = wAddr /\ Head(wDataQueue') = Head(wDataQueue)
<1>1. /\ PmemTypeOK /\ ReadsAccounted /\ MasterTypeOK
      /\ Accept(PortRequest) \in BOOLEAN /\ PortWord \in Word /\ ackQ \in BOOLEAN
      /\ PmemStep(axi, Accept(PortRequest), ackQ, PortWord)
  BY PortWordType DEF TopInv, TopCycle, Accept
<1>2. stateQ \notin {"read", "write0"} => ~Accept(PortRequest)
  BY DEF Accept
<1>3. ReadAsks /\ ~Accept(PortRequest) => ReadAsks' /\ rAddr' = rAddr
  <2> SUFFICES ASSUME ReadAsks, ~Accept(PortRequest) PROVE ReadAsks' /\ rAddr' = rAddr
    OBVIOUS
  <2>1. rReqRam' /\ rAddr' = rAddr
    BY <1>1, ReadHolds DEF ReadAsks
  <2>2. wAckPending = 0
    BY DEF ReadAsks
  <2>3. wAckPending' = 0
    BY <1>1, <2>2, WriteCounter DEF One, ackToWrite
  <2> QED BY <2>1, <2>3 DEF ReadAsks
<1>4. WriteAsks /\ ~Accept(PortRequest) =>
        WriteAsks' /\ wAddr' = wAddr /\ Head(wDataQueue') = Head(wDataQueue)
  <2> SUFFICES ASSUME WriteAsks, ~Accept(PortRequest)
               PROVE  WriteAsks' /\ wAddr' = wAddr /\ Head(wDataQueue') = Head(wDataQueue)
    OBVIOUS
  <2>1. wReqRam' /\ wAddr' = wAddr /\ Head(wDataQueue') = Head(wDataQueue)
    BY <1>1, WriteHolds DEF WriteAsks
  <2>2. rAckPending = 0
    BY DEF WriteAsks
  <2>3. rAckPending' = 0
    <3>1. rAckPending' = rAckPending + One(grantRead /\ Accept(PortRequest)) - One(ackToRead(ackQ))
      BY <1>1, ReadCounters DEF PmemStep
    <3> QED BY <2>2, <3>1 DEF One, ackToRead
  <2> QED BY <2>1, <2>3 DEF WriteAsks
<1> QED BY <1>2, <1>3, <1>4

LEMMA LatchedStep ==
  ASSUME TopInv, LatchedInv, NEW axi \in AxiInputs, TopCycle(axi)
  PROVE  LatchedInv'
<1>1. TypeOK /\ PortRequest \in Requests /\ Fsm(PortRequest)
  BY PortRequestIsClient DEF TopInv, TopCycle, Cycle, CoreStep
<1>2. ASSUME Heading' = "read" PROVE ReadAsks' /\ reqAddrQ' = WordOf(rAddr')
  <2>1. stateQ # "write0" /\ ReadAsks /\ stateQ # "read" /\ reqAddrQ' = WordOf(rAddr)
    <3>1. CASE Heading = "read" /\ stateQ # "read" /\ reqAddrQ' = reqAddrQ
      BY <3>1 DEF LatchedInv, Heading, Goal
    <3>2. CASE stateQ \notin {"read", "write0"} /\ PortRequest.rd /\ reqAddrQ' = PortRequest.addr
      BY <3>2 DEF PortRequest, ramAddr, grantRead
    <3> QED BY <1>1, <1>2, <3>1, <3>2, HeadingStep
  <2> QED BY <2>1, NotAccepted
<1>3. ASSUME Heading' = "write0"
      PROVE  /\ WriteAsks' /\ reqAddrQ' = WordOf(wAddr')
             /\ reqWrStrbQ' = Head(wDataQueue').strb /\ reqWrStrbQ' # {}
  <2>1. /\ stateQ \notin {"read", "write0"} /\ WriteAsks /\ reqAddrQ' = WordOf(wAddr)
        /\ reqWrStrbQ' = Head(wDataQueue).strb /\ reqWrStrbQ' # {}
    <3>1. CASE Heading = "write0" /\ stateQ # "write0" /\ UNCHANGED reqVars
      BY <3>1 DEF LatchedInv, Heading, Goal, reqVars
    <3>2. CASE /\ stateQ \notin {"read", "write0"} /\ PortRequest.wr # {}
               /\ reqAddrQ' = PortRequest.addr /\ reqWrStrbQ' = PortRequest.wr
      BY <3>2 DEF PortRequest, ramAddr, ramWstrb, grantRead, grantWrite
    <3> QED BY <1>1, <1>3, <3>1, <3>2, HeadingStep
  <2> QED BY <2>1, NotAccepted
<1> QED BY <1>2, <1>3 DEF LatchedInv

LEMMA LatchedFollows == LatchedInv => LatchedIsNext
BY DEF LatchedInv, LatchedIsNext, Heading, Goal, ReadAsks, WriteAsks, rReqRam, wReqRam

------------------------------------------------------------------------------
\* Whose acknowledgement comes.

\* A shift register holds what it held, less what leaves at its end, and what
\* enters at its start.
LEMMA ShiftCount ==
  ASSUME NEW n \in Nat \ {0}, NEW f, NEW g, NEW first,
         \A i \in 1 .. n : g[i] <=> IF i = 1 THEN first ELSE f[i - 1]
  PROVE  LET F == {i \in 1 .. n : f[i]}
             G == {i \in 1 .. n : g[i]}
         IN  /\ IsFiniteSet(F) /\ IsFiniteSet(G)
             /\ Cardinality(G) = Cardinality(F) - One(f[n]) + One(first)
<1> DEFINE F == {i \in 1 .. n : f[i]}
           G == {i \in 1 .. n : g[i]}
           Stay  == F \ {n}
           Moved == G \ {1}
           shift == [i \in Stay |-> i + 1]
<1>1. IsFiniteSet(F) /\ IsFiniteSet(G)
  <2>1. IsFiniteSet(1 .. n)
    BY FS_Interval
  <2>2. F \in SUBSET (1 .. n) /\ G \in SUBSET (1 .. n)
    OBVIOUS
  <2> HIDE DEF F, G
  <2> QED BY <2>1, <2>2, FS_Subset
<1>2. ExistsBijection(Stay, Moved)
  <2>1. shift \in Bijection(Stay, Moved)
    <3>1. \A i \in Stay : i \in 1 .. n - 1 /\ f[i] /\ i + 1 \in Moved
      OBVIOUS
    <3>2. \A j \in Moved : j - 1 \in Stay /\ (j - 1) + 1 = j
      OBVIOUS
    <3>3. \A i, j \in Stay : i + 1 = j + 1 => i = j
      OBVIOUS
    <3> HIDE DEF Stay, Moved
    <3>4. shift \in [Stay -> Moved]
      BY <3>1
    <3>5. \A i, j \in Stay : shift[i] = shift[j] => i = j
      BY <3>3
    <3>6. \A j \in Moved : \E i \in Stay : shift[i] = j
      BY <3>2
    <3> HIDE DEF shift
    <3> QED BY <3>4, <3>5, <3>6 DEF Bijection, Injection, Surjection, IsInjective
  <2> QED BY <2>1, Zenon DEF ExistsBijection
<1>3. n \in F <=> f[n]
  OBVIOUS
<1>4. 1 \in G <=> first
  OBVIOUS
<1> HIDE DEF F, G, shift
<1>5. /\ IsFiniteSet(Stay)
      /\ Cardinality(Stay) = IF n \in F THEN Cardinality(F) - 1 ELSE Cardinality(F)
  BY <1>1, FS_RemoveElement
<1>6. /\ IsFiniteSet(Moved)
      /\ Cardinality(Moved) = IF 1 \in G THEN Cardinality(G) - 1 ELSE Cardinality(G)
  BY <1>1, FS_RemoveElement
<1>7. Cardinality(Moved) = Cardinality(Stay)
  BY <1>2, <1>5, FS_Bijection
<1>8. Cardinality(F) \in Nat /\ Cardinality(G) \in Nat
  BY <1>1, FS_CardinalityType
<1>9. Cardinality(G) = Cardinality(F) - One(f[n]) + One(first)
  <2> DEFINE cF == Cardinality(F)
             cG == Cardinality(G)
  <2>1. (IF 1 \in G THEN cG - 1 ELSE cG) = (IF n \in F THEN cF - 1 ELSE cF)
    BY <1>5, <1>6, <1>7
  <2>2. cF \in Nat /\ cG \in Nat
    BY <1>8
  <2> HIDE DEF cF, cG
  <2>3. cG = cF - One(f[n]) + One(first)
    BY <1>3, <1>4, <2>1, <2>2 DEF One
  <2> QED BY <2>3 DEF cF, cG
<1> QED BY <1>1, <1>9 DEF F, G

LEMMA PipeCount ==
  ASSUME TypeOK, NEW in \in Requests, Cycle(in)
  PROVE  /\ ReadsInPipe \in Nat /\ ReadsInPipe' \in Nat
         /\ ReadsInPipe' = ReadsInPipe - One(readPipeQ[ReadDepth]) + One(stateQ = "read")
         /\ ReadsInPipe = 0 <=> \A i \in 1 .. ReadDepth : ~readPipeQ[i]
<1>1. ReadDepth \in Nat \ {0}
  BY DelayAssumption DEF ReadDepth
<1>2. \A i \in 1 .. ReadDepth : readPipeQ'[i] <=> IF i = 1 THEN stateQ = "read" ELSE readPipeQ[i - 1]
  BY DEF Cycle, CoreStep, DataPipeline
<1> DEFINE F == {i \in 1 .. ReadDepth : readPipeQ[i]}
           G == {i \in 1 .. ReadDepth : readPipeQ'[i]}
<1>3. /\ IsFiniteSet(F) /\ IsFiniteSet(G)
      /\ Cardinality(G) = Cardinality(F) - One(readPipeQ[ReadDepth]) + One(stateQ = "read")
  BY <1>1, <1>2, ShiftCount
<1>4. ReadsInPipe = Cardinality(F) /\ ReadsInPipe' = Cardinality(G)
  BY DEF ReadsInPipe, ReadDepth
<1>5. ReadsInPipe = 0 <=> F = {}
  BY <1>3, <1>4, FS_EmptySet
<1>6. F = {} <=> \A i \in 1 .. ReadDepth : ~readPipeQ[i]
  OBVIOUS
<1>7. Cardinality(F) \in Nat /\ Cardinality(G) \in Nat
  BY <1>3, FS_CardinalityType
<1> HIDE DEF F, G
<1> QED BY <1>3, <1>4, <1>5, <1>6, <1>7, Zenon

\* AcksMatch with what it rests on: one side at a time has acknowledgements to
\* come, and a read that was served but not accepted lost to a write that now
\* has the port until it is accepted.
AcksInv ==
  /\ AcksMatch
  /\ rAckPending = 0 \/ wAckPending = 0
  /\ ReadsInPipe > 0 /\ rAckPending = 0 => wAckPending = 0 /\ wReqRam /\ lastGrant = "read"

LEMMA AcksStart == TopInit => AcksInv
<1> SUFFICES ASSUME TopInit PROVE AcksInv
  OBVIOUS
<1>1. {i \in 1 .. ReadDepth : readPipeQ[i]} = {}
  BY DEF TopInit, Init, CoreInit
<1>2. ReadsInPipe = 0
  BY <1>1, FS_EmptySet DEF ReadsInPipe
<1> QED BY <1>2 DEF TopInit, PmemInit, AcksInv, AcksMatch

LEMMA AcksStep ==
  ASSUME TopInv, ReadsDrain, LatchedInv, AcksInv, NEW axi \in AxiInputs, TopCycle(axi)
  PROVE  AcksInv'
<1> DEFINE acceptR == grantRead /\ Accept(PortRequest)
           acceptW == grantWrite /\ Accept(PortRequest)
           pipe    == ReadsInPipe
           pipeN   == ReadsInPipe'
           last    == readPipeQ[ReadDepth]
\* The answers, and the counts.
<1>1. /\ PmemTypeOK /\ ReadsAccounted /\ MasterTypeOK /\ TypeOK
      /\ Accept(PortRequest) \in BOOLEAN /\ PortWord \in Word /\ ackQ \in BOOLEAN
      /\ PmemStep(axi, Accept(PortRequest), ackQ, PortWord)
      /\ PortRequest \in Requests /\ Cycle(PortRequest) /\ Fsm(PortRequest)
  BY PortWordType, PortRequestIsClient DEF TopInv, TopCycle, Accept, Cycle, CoreStep
<1>2. /\ pipe \in Nat /\ pipeN \in Nat /\ pipeN = pipe - One(last) + One(stateQ = "read")
      /\ pipe = 0 <=> \A i \in 1 .. ReadDepth : ~readPipeQ[i]
  BY <1>1, PipeCount
<1>3. /\ ReadDepth \in 1 .. ReadDepth /\ last \in BOOLEAN
      /\ ackQ' = (stateQ = "write1" \/ last)
  BY <1>1, DelayAssumption DEF ReadDepth, TypeOK, PipeTypeOK, Cycle, CoreStep, DataPipeline
<1>4. rAckPending \in Nat /\ wAckPending \in Nat
  BY <1>1 DEF PmemTypeOK
<1>5. rAckPending' = rAckPending + One(acceptR) - One(ackToRead(ackQ))
  BY <1>1, ReadCounters DEF PmemStep
<1>6. wAckPending \in 0 .. 2
  BY <1>4 DEF AcksInv, AcksMatch, One
<1>7. wAckPending' = wAckPending + One(acceptW) - One(ackToWrite(ackQ))
  BY <1>1, <1>6, WriteCounter
\* The states.
<1>8. /\ stateQ = "read" => ReadAsks /\ stateQ' = "read_wait"
      /\ stateQ = "write0" => WriteAsks /\ Head(wDataQueue).strb # {} /\ stateQ' = "write1" /\ pipe = 0
      /\ stateQ' = "write1" => stateQ = "write0"
      /\ stateQ = "write1" => ~ackQ
  <2>1. stateQ = "write0" => pipe = 0
    BY <1>2, <1>3 DEF ReadsDrain
  <2> QED BY <1>1, <2>1, StateStep DEF LatchedInv, Heading, Goal, ReadsDrain
<1>9. /\ acceptR <=> stateQ = "read" /\ grantRead
      /\ acceptW <=> stateQ = "write0" /\ grantWrite
      /\ Accept(PortRequest) <=> acceptR \/ acceptW
      /\ ~(acceptR /\ acceptW)
  BY <1>1, <1>8, PortCases
<1>10. /\ grantRead <=> ReadAsks /\ ~grantWrite
       /\ grantWrite <=> WriteAsks /\ (lastGrant = "read" \/ ~ReadAsks)
       /\ ReadAsks => wAckPending = 0
       /\ WriteAsks <=> wReqRam /\ rAckPending = 0
  BY DEF grantRead, grantWrite, ReadAsks, WriteAsks
<1>11. /\ ackToRead(ackQ) <=> ackQ /\ rAckPending > 0
       /\ ackToWrite(ackQ) <=> ackQ /\ wAckPending > 0
  BY DEF ackToRead, ackToWrite
<1>12. AcksMatch /\ (rAckPending = 0 \/ wAckPending = 0)
  BY DEF AcksInv
<1>13. pipe > 0 /\ rAckPending = 0 => wAckPending = 0 /\ wReqRam /\ lastGrant = "read"
  BY DEF AcksInv
<1>14. last => pipe > 0
  BY <1>2, <1>3
<1> HIDE DEF acceptR, acceptW, pipe, pipeN, last
\* Reads are owed: all of them are on their way.
<1>15. CASE rAckPending > 0
  <2>1. wAckPending = 0 /\ pipe + One(ackQ) = rAckPending /\ stateQ # "write1"
    BY <1>4, <1>12, <1>15 DEF AcksMatch, pipe
  <2>2. stateQ # "write0" /\ stateQ' # "write1" /\ ~acceptW /\ (acceptR <=> stateQ = "read")
    BY <1>4, <1>8, <1>9, <1>10, <1>15
  <2>3. wAckPending' = 0
    BY <1>7, <1>11, <2>1, <2>2 DEF One
  <2>4. pipeN + One(ackQ') = rAckPending'
    <3>1. rAckPending' = rAckPending + One(stateQ = "read") - One(ackQ)
      BY <1>5, <1>11, <1>1, <1>15, <2>2 DEF One
    <3>2. One(ackQ') = One(last)
      BY <1>3, <2>1
    <3> QED BY <1>2, <1>4, <2>1, <3>1, <3>2 DEF One
  <2>5. rAckPending' = 0 => pipeN = 0
    BY <1>2, <2>4 DEF One
  <2> QED BY <2>2, <2>3, <2>4, <2>5 DEF AcksInv, AcksMatch, pipeN
\* Writes are owed: no read is on its way.
<1>16. CASE wAckPending > 0
  <2>1. rAckPending = 0 /\ pipe = 0 /\ One(stateQ = "write1") + One(ackQ) = wAckPending
    BY <1>4, <1>12, <1>16 DEF AcksMatch, pipe
  <2>2. stateQ # "read" /\ ~acceptR /\ (acceptW <=> stateQ = "write0")
    BY <1>8, <1>9, <1>10, <1>16
  <2>3. rAckPending' = 0
    BY <1>5, <1>11, <2>1, <2>2 DEF One
  <2>4. ~last /\ pipeN = 0
    BY <1>2, <1>14, <2>1, <2>2 DEF One
  <2>5. wAckPending' = One(stateQ = "write1") + One(stateQ = "write0")
    <3>1. wAckPending' = wAckPending + One(stateQ = "write0") - One(ackQ)
      BY <1>7, <1>11, <1>1, <1>16, <2>2 DEF One
    <3> QED BY <1>4, <2>1, <3>1 DEF One
  <2>6. One(stateQ' = "write1") = One(stateQ = "write0") /\ One(ackQ') = One(stateQ = "write1")
    BY <1>3, <1>8, <2>4 DEF One
  <2> QED BY <2>3, <2>4, <2>5, <2>6 DEF AcksInv, AcksMatch, pipeN, One
\* Nothing is owed: what is accepted is the first, and what is still on its way
\* was not.
<1>17. CASE rAckPending = 0 /\ wAckPending = 0
  <2>1. rAckPending' = One(acceptR) /\ wAckPending' = One(acceptW)
    BY <1>5, <1>7, <1>11, <1>17 DEF One
  <2>2. CASE acceptR
    <3>1. stateQ = "read" /\ ~acceptW /\ pipe = 0
      BY <1>2, <1>9, <1>10, <1>13, <1>17, <2>2
    <3>2. pipeN = 1 /\ ~ackQ' /\ stateQ' # "write1"
      BY <1>2, <1>3, <1>8, <1>14, <3>1 DEF One
    <3> QED BY <2>1, <2>2, <3>1, <3>2 DEF AcksInv, AcksMatch, pipeN, One
  <2>3. CASE acceptW
    <3>1. stateQ = "write0" /\ ~acceptR /\ pipe = 0 /\ stateQ' = "write1"
      BY <1>8, <1>9, <2>3
    <3>2. ~last
      BY <1>14, <3>1
    <3>3. pipeN = 0
      <4>1. One(last) = 0 /\ One(stateQ = "read") = 0
        BY <3>1, <3>2 DEF One
      <4> QED BY <1>2, <3>1, <4>1
    <3>4. ~ackQ'
      BY <1>3, <3>1, <3>2
    <3> QED BY <2>1, <2>3, <3>1, <3>3, <3>4 DEF AcksInv, AcksMatch, pipeN, One
  <2>4. CASE ~acceptR /\ ~acceptW
    <3>1. rAckPending' = 0 /\ wAckPending' = 0
      BY <2>1, <2>4 DEF One
    <3>2. lastGrant' = lastGrant
      BY <1>1, <1>9, <2>4 DEF PmemStep, Arbiter
    <3>3. wReqRam => wReqRam'
      <4>1. ~(grantWrite /\ Accept(PortRequest))
        BY <2>4 DEF acceptW
      <4> QED BY <1>1, <4>1, WriteHolds
    <3>4. pipeN > 0 => wReqRam /\ lastGrant = "read"
      <4>1. CASE pipe > 0
        BY <1>13, <1>17, <4>1
      <4>2. CASE stateQ = "read"
        BY <1>8, <1>9, <1>10, <2>4, <4>2
      <4>3. CASE pipe = 0 /\ stateQ # "read"
        BY <1>2, <1>14, <4>3 DEF One
      <4> QED BY <1>2, <4>1, <4>2, <4>3
    <3> QED BY <3>1, <3>2, <3>3, <3>4 DEF AcksInv, AcksMatch, pipeN
  <2> QED BY <2>2, <2>3, <2>4
<1> QED BY <1>4, <1>12, <1>15, <1>16, <1>17

------------------------------------------------------------------------------
\* When a write is answered.

\* What is still on its way to the storage when all is asked for is owed an
\* acknowledgement, and the answer waits for those.
WrittenInv ==
  /\ wAllReqsSent /\ (stateQ = "write1" \/ burstWriteCountQ > 0) => wAckPending > 0
  /\ wState = "wResp" => wAllReqsSent /\ wAckPending = 0

LEMMA WrittenStart == TopInit => WrittenInv
BY DEF TopInit, Init, CoreInit, MemInit, PmemInit, WrittenInv

LEMMA WrittenStep ==
  ASSUME TopInv, PowerInv, BurstInv, ReadsDrain, LatchedInv, AcksInv, WrittenInv,
         NEW axi \in AxiInputs, TopCycle(axi)
  PROVE  WrittenInv'
<1> DEFINE acceptW == grantWrite /\ Accept(PortRequest)
<1>1. /\ PmemTypeOK /\ ReadsAccounted /\ MasterTypeOK /\ TypeOK
      /\ Accept(PortRequest) \in BOOLEAN /\ PortWord \in Word /\ ackQ \in BOOLEAN
      /\ PmemStep(axi, Accept(PortRequest), ackQ, PortWord)
      /\ PortRequest \in Requests /\ Fsm(PortRequest) /\ MemStep(pins, DQ)
  BY PortWordType, PortRequestIsClient DEF TopInv, TopCycle, Accept, Cycle, CoreStep
<1>2. wAckPending \in 0 .. 2
  BY <1>1 DEF AcksInv, AcksMatch, One, PmemTypeOK
<1>3. wAckPending' = wAckPending + One(acceptW) - One(ackToWrite(ackQ))
  BY <1>1, <1>2, WriteCounter
<1>4. ackToWrite(ackQ) => ackQ /\ wAckPending > 0
  BY DEF ackToWrite
<1>5. acceptW => stateQ = "write0" /\ wReqRam
  BY <1>1, PortCases DEF grantWrite, WriteAsks
<1>6. /\ wState' = "wResp" => \/ wState = "wResp" /\ wAllReqsSent' = wAllReqsSent
                              \/ wState = "wBurst" /\ wAllReqsSent' /\ wAllReqsSent /\ wAckPending = 0
      /\ wAllReqsSent' => wAllReqsSent \/ acceptW
  BY <1>1, WriteEnds
<1>7. stateQ = "write0" => ~wAllReqsSent
  BY DEF LatchedInv, Heading, Goal, WriteAsks, wReqRam
<1> HIDE DEF acceptW
<1>8. ASSUME wAllReqsSent', stateQ' = "write1" \/ burstWriteCountQ' > 0 PROVE wAckPending' > 0
  <2>1. CASE stateQ' = "write1"
    <3>1. acceptW
      BY <1>1, <1>6, <1>7, <1>8, <2>1, StateStep
    <3> QED BY <1>2, <1>3, <1>4, <3>1 DEF One
  <2>2. CASE burstWriteCountQ' > 0
    <3>1. pins.cmd = "WRITE"
      BY <1>1, <2>2, BurstOfStep
    <3>2. stateQ = "write1" /\ ~ackQ
      BY <3>1 DEF BurstInv, ReadsDrain
    <3>3. wAllReqsSent /\ ~acceptW
      BY <1>5, <1>6, <1>8, <3>2
    <3>4. wAckPending > 0
      BY <3>2, <3>3 DEF WrittenInv
    <3> QED BY <1>2, <1>3, <1>4, <3>2, <3>3, <3>4 DEF One
  <2> QED BY <1>8, <2>1, <2>2
<1>9. ASSUME wState' = "wResp" PROVE wAllReqsSent' /\ wAckPending' = 0
  <2>1. wAllReqsSent' /\ wAllReqsSent /\ wAckPending = 0
    BY <1>1, <1>6, <1>9 DEF WrittenInv, PmemTypeOK
  <2>2. ~acceptW
    BY <1>5, <2>1 DEF wReqRam
  <2> QED BY <1>3, <1>4, <2>1, <2>2 DEF One
<1> QED BY <1>8, <1>9 DEF WrittenInv

LEMMA WrittenFollows == BurstInv /\ WrittenInv => WrittenBeforeAnswered
BY DEF BurstInv, WrittenInv, WrittenBeforeAnswered

------------------------------------------------------------------------------
\* The three together.

ServedInv == ReadsDrain /\ LatchedInv /\ AcksInv /\ WrittenInv

LEMMA ServedAlways == TopSpec => [](BurstInv /\ ServedInv)
<1>1. TopInit => ServedInv
  BY DrainStart, LatchedStart, AcksStart, WrittenStart DEF TopInit, ServedInv
<1>2. /\ TopInv /\ TypeOK /\ PowerInv /\ BurstInv /\ ServedInv /\ [TopNext]_topVars
      => ServedInv'
  <2>1. ASSUME TopInv, PowerInv, BurstInv, ServedInv, NEW axi \in AxiInputs, TopCycle(axi)
        PROVE  ServedInv'
    <3>1. TypeOK /\ PortRequest \in Requests /\ Cycle(PortRequest)
      BY <2>1, PortRequestIsClient DEF TopInv, TopCycle
    <3> QED BY <2>1, <3>1, DrainStep, LatchedStep, AcksStep, WrittenStep DEF ServedInv
  <2>2. ASSUME ServedInv, UNCHANGED topVars PROVE ServedInv'
    <3>1. ReadsDrain'
      BY <2>2, StutterDrain DEF ServedInv, topVars
    <3>2. LatchedInv'
      BY <2>2 DEF ServedInv, LatchedInv, Heading, Goal, ReadAsks, WriteAsks, rReqRam, wReqRam,
         topVars, chipVars, coreVars, fsmVars, reqVars, pmemVars, readVars, writeVars
    <3>3. AcksInv'
      BY <2>2 DEF ServedInv, AcksInv, AcksMatch, ReadsInPipe, wReqRam,
         topVars, chipVars, coreVars, fsmVars, pipeVars, pmemVars, writeVars
    <3>4. WrittenInv'
      BY <2>2 DEF ServedInv, WrittenInv, topVars, chipVars, coreVars, memVars, burstVars, fsmVars,
         pmemVars, writeVars
    <3> QED BY <3>1, <3>2, <3>3, <3>4 DEF ServedInv
  <2> QED BY <2>1, <2>2 DEF TopNext
<1>3. Spec => [](TypeOK /\ PowerInv /\ BurstInv)
  BY PinsAlways
<1> QED BY <1>1, <1>2, <1>3, TopAlways, ImplementsSdramChip, PTL DEF TopSpec, IsSdramChip

\* The controller never serves anything but the next beat of the side it latched,
\* though the arbiter may have changed sides meanwhile and nothing holds a request.
THEOREM LatchedAlwaysNext == TopSpec => []LatchedIsNext
<1>1. ServedInv => LatchedIsNext
  BY LatchedFollows DEF ServedInv
<1> QED BY <1>1, ServedAlways, PTL

\* An acknowledgement reaches the side it belongs to, though the controller does
\* not say whose it is and also acknowledges what it served for nothing.
THEOREM AcksAlwaysMatch == TopSpec => []AcksMatch
<1>1. ServedInv => AcksMatch
  BY DEF ServedInv, AcksInv
<1> QED BY <1>1, ServedAlways, PTL

\* A write is never answered before its last half-word is in the storage.
THEOREM AlwaysWrittenBeforeAnswered == TopSpec => []WrittenBeforeAnswered
<1>1. BurstInv /\ ServedInv => WrittenBeforeAnswered
  BY WrittenFollows DEF ServedInv
<1> QED BY <1>1, ServedAlways, PTL

==============================================================================
