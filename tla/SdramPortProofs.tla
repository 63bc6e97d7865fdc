--------------------------- MODULE SdramPortProofs ---------------------------
(***************************************************************************)
(* Proofs about two views of SdramChip and about the chip alone.            *)
(* SdramPort, for every geometry, every timing and every client that holds  *)
(* its requests: what is served is what was asked for, every write reaches  *)
(* its word, with the CAS latency of the chip model the port implements a   *)
(* plain memory of words, and a request is accepted in time.                *)
(* SdramTiming, for every geometry, client and refresh period and all       *)
(* delays the power-up sequence leaves room for: tRCD, tRP and tRFC.        *)
(* SdramHost, for every geometry and every sequence of commands the chip    *)
(* allows: what a burst of any mode stores and fetches.                     *)
(***************************************************************************)
EXTENDS SdramPort, SdramTiming, SdramHost, SdramChipProofs, SequenceTheorems, WellFoundedInduction

\* The client holds its request while the machine heads for it, so what is
\* latched is what is on the port when it is served.
Held ==
  /\ req \in Requests
  /\ Heading = "read" => req.rd /\ reqAddrQ = req.addr
  /\ Heading = "write0" => req.wr # {} /\ reqAddrQ = req.addr /\ reqWrStrbQ = req.wr

ChipInv == TypeOK /\ RowsAgree /\ PowerInv /\ BurstInv /\ ReadsDrain

------------------------------------------------------------------------------
\* A request is held.

LEMMA PortCycle ==
  ASSUME PortNext
  PROVE  Cycle(req) /\ Fsm(req) /\ DataPipeline(req, DQ) /\ MemStep(pins, DQ)
BY DEF PortNext, Cycle, CoreStep

LEMMA HeldStart == PortInit => Held
BY DEF PortInit, Init, CoreInit, Held, Heading, Goal

LEMMA HeldStep == ASSUME TypeOK, Held, PortNext PROVE Held'
<1>1. /\ Fsm(req)
      /\ IF Requesting(req) /\ ~Accept(req) THEN req' = req ELSE req' \in Requests
  BY PortCycle DEF PortNext
<1>2. req \in Requests
  BY DEF Held
<1>3. Heading' = "read" => req' = req /\ req.rd /\ reqAddrQ' = req.addr
  <2> SUFFICES ASSUME Heading' = "read" PROVE req' = req /\ req.rd /\ reqAddrQ' = req.addr
    OBVIOUS
  <2>1. req.rd /\ reqAddrQ' = req.addr
    BY <1>1, <1>2, HeadingStep DEF Held
  <2>2. stateQ \notin {"read", "write0"}
    <3>1. Heading = "read" => stateQ # "write0"
      BY DEF Heading, Goal
    <3> QED BY <1>1, <1>2, <3>1, HeadingStep
  <2> QED BY <1>1, <2>1, <2>2 DEF Requesting, Accept
<1>4. Heading' = "write0" =>
        req' = req /\ req.wr # {} /\ reqAddrQ' = req.addr /\ reqWrStrbQ' = req.wr
  <2> SUFFICES ASSUME Heading' = "write0"
               PROVE  req' = req /\ req.wr # {} /\ reqAddrQ' = req.addr /\ reqWrStrbQ' = req.wr
    OBVIOUS
  <2>1. req.wr # {} /\ reqAddrQ' = req.addr /\ reqWrStrbQ' = req.wr
    BY <1>1, <1>2, HeadingStep DEF Held, reqVars
  <2>2. stateQ \notin {"read", "write0"}
    <3>1. Heading = "write0" => stateQ # "read"
      BY DEF Heading, Goal
    <3> QED BY <1>1, <1>2, <3>1, HeadingStep
  <2> QED BY <1>1, <2>1, <2>2 DEF Requesting, Accept
<1> QED BY <1>1, <1>2, <1>3, <1>4 DEF Held

LEMMA HeldStutter == Held /\ UNCHANGED portVars => Held'
BY DEF Held, Heading, Goal, portVars, chipVars, coreVars, fsmVars, reqVars

\* So every request is accepted when it is served.
LEMMA ServedIsAccepted ==
  ASSUME TypeOK, Held
  PROVE  /\ Accept(req) <=> stateQ \in {"read", "write0"}
         /\ stateQ = "read" => req.rd /\ reqAddrQ = req.addr
         /\ stateQ = "write0" => /\ ~req.rd /\ req.wr # {}
                                 /\ reqAddrQ = req.addr /\ reqWrStrbQ = req.wr
<1>1. stateQ = "read" => Heading = "read"
  BY DEF Heading, Goal
<1>2. stateQ = "write0" => Heading = "write0"
  BY DEF Heading, Goal
<1>3. req.rd => req.wr = {}
  BY ClientAssumption DEF Held
<1> QED BY <1>1, <1>2, <1>3 DEF Held, Accept

------------------------------------------------------------------------------
\* The words of the storage, the half-words under way counted in.

LEMMA JoinWrite ==
  ASSUME NEW lo \in Half, NEW hi \in Half, NEW d \in Word, NEW s \in SUBSET ByteLanes
  PROVE  JoinHalves(MergeHalf(lo, LowHalf(d), LowMask(s)), MergeHalf(hi, HighHalf(d), HighMask(s)))
           = Port!WriteLanes(JoinHalves(lo, hi), d, s)
BY DEF JoinHalves, MergeHalf, LowHalf, HighHalf, LowMask, HighMask, Port!WriteLanes,
       Port!WordLanes, Lanes, ByteLanes

\* A write that is served changes its lanes of its word, and nothing else.
LEMMA StoreOfWrite ==
  ASSUME TypeOK, PowerInv, BurstInv, InFlight, Held, RightRow', PortNext, stateQ = "write0"
  PROVE  Store' = [Store EXCEPT ![req.addr % NumWords] = Port!WriteLanes(@, req.data, req.wr)]
<1>c. req \in Requests /\ Cycle(req) /\ Fsm(req)
  BY PortCycle DEF Held
<1>r. /\ req.data \in Word /\ req.wr \in SUBSET ByteLanes
      /\ reqAddrQ = req.addr /\ reqWrStrbQ = req.wr
  BY <1>c, RequestType, ServedIsAccepted
<1> DEFINE w  == req.addr % NumWords
           lo == MergeHalf(Landing[2 * w], LowHalf(req.data), LowMask(req.wr))
           hi == MergeHalf(Landing[2 * w + 1], HighHalf(req.data), HighMask(req.wr))
<1>1. w \in 0 .. NumWords - 1
  BY <1>c, <1>r, ServedCell
<1>4. Landing' = [[Landing EXCEPT ![2 * w] = lo] EXCEPT ![2 * w + 1] = hi]
  BY <1>c, <1>r, LandingOfWrite
<1> HIDE DEF w
<1>5. ASSUME NEW x \in 0 .. NumWords - 1
      PROVE  Store'[x] = IF x = w THEN Port!WriteLanes(Store[x], req.data, req.wr) ELSE Store[x]
  <2>1. /\ 2 * x \in Cells /\ 2 * x + 1 \in Cells
        /\ 2 * x # 2 * w + 1 /\ 2 * x + 1 # 2 * w
        /\ 2 * x = 2 * w <=> x = w
        /\ 2 * x + 1 = 2 * w + 1 <=> x = w
    BY <1>1, WordsOfCells DEF Cells
  <2>2. /\ Landing'[2 * x] = IF x = w THEN lo ELSE Landing[2 * x]
        /\ Landing'[2 * x + 1] = IF x = w THEN hi ELSE Landing[2 * x + 1]
    BY <1>4, <2>1, LandingType
  <2>3. Store[x] = JoinHalves(Landing[2 * x], Landing[2 * x + 1])
    BY DEF Store
  <2>4. Store'[x] = JoinHalves(Landing'[2 * x], Landing'[2 * x + 1])
    BY DEF Store
  <2>5. CASE x = w
    <3>1. Landing[2 * x] \in Half /\ Landing[2 * x + 1] \in Half
      BY <2>1, LandingType
    <3>2. JoinHalves(lo, hi) = Port!WriteLanes(Store[x], req.data, req.wr)
      BY <1>r, <2>3, <2>5, <3>1, JoinWrite
    <3> QED BY <2>2, <2>4, <2>5, <3>2
  <2>6. CASE x # w
    BY <2>2, <2>3, <2>4, <2>6
  <2> QED BY <2>5, <2>6
<1>6. DOMAIN Store' = 0 .. NumWords - 1 /\ Store \in [0 .. NumWords - 1 -> Word]
  BY StoreType DEF Store
<1> QED BY <1>1, <1>5, <1>6 DEF Store, w

------------------------------------------------------------------------------
\* The answers owed.

\* What the n-th stage of the pipeline owes.
Stage(n) == IF readPipeQ[n] THEN <<{ReadInFlight(n)}>> ELSE <<>>
Stages   == ((Stage(4) \o Stage(3)) \o Stage(2)) \o Stage(1)

Answers == SUBSET Word

LEMMA StageType == TypeOK => \A i \in 1 .. 4 : Stage(i) \in Seq(Answers)
<1> SUFFICES ASSUME TypeOK, NEW i \in 1 .. 4 PROVE Stage(i) \in Seq(Answers)
  OBVIOUS
<1>1. \A a \in Answers : <<a>> \in Seq(Answers)
  OBVIOUS
<1>2. {ReadInFlight(i)} \in Answers
  BY InFlightType DEF Answers
<1>3. <<>> \in Seq(Answers)
  BY EmptySeq
<1> QED BY <1>1, <1>2, <1>3, Zenon DEF Stage

LEMMA OwedIsStages == CasLatency = 2 /\ TypeOK => ReadsOwed = Stages
<1> SUFFICES ASSUME CasLatency = 2, TypeOK PROVE ReadsOwed = Stages
  OBVIOUS
<1> DEFINE Body(f) == [n \in 0 .. 4 |-> IF n = 0 THEN <<>> ELSE Stage(n) \o f[n - 1]]
           s1 == Stage(1) \o <<>>
           s2 == Stage(2) \o s1
           s3 == Stage(3) \o s2
           s4 == Stage(4) \o s3
           sum == [n \in 0 .. 4 |-> IF n = 0 THEN <<>> ELSE IF n = 1 THEN s1
                                    ELSE IF n = 2 THEN s2 ELSE IF n = 3 THEN s3 ELSE s4]
<1>1. OwedUpTo = CHOOSE f : f = Body(f)
  BY DEF OwedUpTo, ReadDepth, Stage
<1>2. sum = Body(sum)
  <2> HIDE DEF s1, s2, s3, s4
  <2>1. ASSUME NEW n \in 0 .. 4 PROVE sum[n] = IF n = 0 THEN <<>> ELSE Stage(n) \o sum[n - 1]
    <3>1. CASE n = 0
      BY <3>1
    <3>2. CASE n = 1
      <4>1. sum[0] = <<>>
        OBVIOUS
      <4>2. sum[1] = s1
        OBVIOUS
      <4>3. 1 - 1 = 0 /\ 1 # 0
        OBVIOUS
      <4> QED BY <3>2, <4>1, <4>2, <4>3, Zenon DEF s1
    <3>3. CASE n = 2
      BY <3>3 DEF s2
    <3>4. CASE n = 3
      BY <3>4 DEF s3
    <3>5. CASE n = 4
      BY <3>5 DEF s4
    <3> QED BY <3>1, <3>2, <3>3, <3>4, <3>5
  <2> QED BY <2>1
<1>3. OwedUpTo = Body(OwedUpTo)
  <2> HIDE DEF Body, sum
  <2> QED BY <1>1, <1>2
<1> HIDE DEF s1, s2, s3, s4, sum
<1>4. OwedUpTo[4] = Stage(4) \o (Stage(3) \o (Stage(2) \o (Stage(1) \o <<>>)))
  <2> DEFINE t == OwedUpTo
  <2> HIDE DEF t
  <2>1. t = [n \in 0 .. 4 |-> IF n = 0 THEN <<>> ELSE Stage(n) \o t[n - 1]]
    BY <1>3 DEF t
  <2>2. t[0] = <<>>
    BY <2>1
  <2>3. ASSUME NEW n \in 1 .. 4 PROVE t[n] = Stage(n) \o t[n - 1]
    <3> DEFINE entry(k) == IF k = 0 THEN <<>> ELSE Stage(k) \o t[k - 1]
    <3>1. t = [k \in 0 .. 4 |-> entry(k)]
      BY <2>1
    <3>2. entry(n) = Stage(n) \o t[n - 1]
      OBVIOUS
    <3> HIDE DEF entry
    <3> QED BY <3>1, <3>2
  <2>4. /\ 1 - 1 = 0 /\ 2 - 1 = 1 /\ 3 - 1 = 2 /\ 4 - 1 = 3
        /\ 1 \in 1 .. 4 /\ 2 \in 1 .. 4 /\ 3 \in 1 .. 4 /\ 4 \in 1 .. 4
    OBVIOUS
  <2>5. t[1] = Stage(1) \o t[0] /\ t[2] = Stage(2) \o t[1]
    BY <2>3, <2>4, Zenon
  <2>6. t[3] = Stage(3) \o t[2] /\ t[4] = Stage(4) \o t[3]
    BY <2>3, <2>4, Zenon
  <2> QED BY <2>2, <2>5, <2>6, Zenon DEF t
<1>5. /\ Stage(1) \in Seq(Answers) /\ Stage(2) \in Seq(Answers)
      /\ Stage(3) \in Seq(Answers) /\ Stage(4) \in Seq(Answers)
  BY StageType
<1>6. Stage(1) \o <<>> = Stage(1)
  BY <1>5, ConcatEmptySeq
<1>7. \A s, t \in Seq(Answers) : s \o t \in Seq(Answers)
  BY ConcatProperties
<1>8. \A s, t, u \in Seq(Answers) : s \o (t \o u) = (s \o t) \o u
  BY ConcatAssociative
<1>9. ReadsOwed = OwedUpTo[4]
  BY DEF ReadsOwed, ReadDepth
<1>10. Stage(3) \o (Stage(2) \o Stage(1)) = (Stage(3) \o Stage(2)) \o Stage(1)
  BY <1>5, <1>8, Zenon
<1>11. /\ Stage(4) \o ((Stage(3) \o Stage(2)) \o Stage(1))
           = (Stage(4) \o (Stage(3) \o Stage(2))) \o Stage(1)
       /\ Stage(4) \o (Stage(3) \o Stage(2)) = (Stage(4) \o Stage(3)) \o Stage(2)
  <2>1. Stage(3) \o Stage(2) \in Seq(Answers)
    BY <1>5, <1>7, Zenon
  <2>2. Stage(4) \o (Stage(3) \o Stage(2)) = (Stage(4) \o Stage(3)) \o Stage(2)
    BY <1>5, <1>8, Zenon
  <2> QED BY <1>5, <1>8, <2>1, <2>2, Zenon
<1> QED BY <1>4, <1>6, <1>9, <1>10, <1>11, Zenon DEF Stages

\* The next stages: every word moves on by one, and that of a read served comes in.
LEMMA StagesStep ==
  ASSUME CasLatency = 2, TypeOK, PowerInv, BurstInv, InFlight, Held, RightRow', PortNext
  PROVE  /\ Stage(4)' = Stage(3) /\ Stage(3)' = Stage(2) /\ Stage(2)' = Stage(1)
         /\ Stage(1)' = IF stateQ = "read" THEN <<{Store[req.addr % NumWords]}>> ELSE <<>>
<1>c. req \in Requests /\ Cycle(req) /\ DataPipeline(req, DQ)
  BY PortCycle DEF Held
<1>1. /\ readPipeQ'[1] = (stateQ = "read")
      /\ readPipeQ'[2] = readPipeQ[1]
      /\ readPipeQ'[3] = readPipeQ[2]
      /\ readPipeQ'[4] = readPipeQ[3]
  BY <1>c DEF DataPipeline, ReadDepth
<1>2. Stage(4)' = Stage(3) /\ Stage(3)' = Stage(2) /\ Stage(2)' = Stage(1)
  BY <1>c, <1>1, ReadsMoveOn DEF Stage
<1>3. Stage(1)' = IF stateQ = "read" THEN <<{Store[req.addr % NumWords]}>> ELSE <<>>
  <2>1. stateQ = "read" => ReadInFlight(1)' = Store[req.addr % NumWords]
    BY <1>c, ReadServed, ServedIsAccepted
  <2> QED BY <1>1, <2>1 DEF Stage
<1> QED BY <1>2, <1>3

LEMMA ConcatRegroups ==
  ASSUME NEW S
  PROVE  /\ \A s, t, u \in Seq(S) : s \o (t \o u) = (s \o t) \o u
         /\ \A s, t \in Seq(S) : s \o t \in Seq(S)
<1>1. \A s, t, u \in Seq(S) : s \o (t \o u) = (s \o t) \o u
  OBVIOUS
<1>2. \A s, t \in Seq(S) : s \o t \in Seq(S)
  BY ConcatProperties
<1> QED BY <1>1, <1>2

\* The oldest answer of a queue of four stages comes before the rest and what
\* comes in.
LEMMA RegroupFive ==
  ASSUME NEW Q,
         \A s, t, u \in Q : s \o (t \o u) = (s \o t) \o u,
         \A s, t \in Q : s \o t \in Q
  PROVE  \A a, b, c, d, e \in Q :
           /\ a \o (((b \o c) \o d) \o e) = (((a \o b) \o c) \o d) \o e
           /\ ((b \o c) \o d) \o e \in Q
<1> SUFFICES ASSUME NEW a \in Q, NEW b \in Q, NEW c \in Q, NEW d \in Q, NEW e \in Q
             PROVE  /\ a \o (((b \o c) \o d) \o e) = (((a \o b) \o c) \o d) \o e
                    /\ ((b \o c) \o d) \o e \in Q
  OBVIOUS
<1>1. b \o c \in Q
  OBVIOUS
<1>2. (b \o c) \o d \in Q
  BY <1>1
<1>3. ((b \o c) \o d) \o e \in Q
  BY <1>2
<1>4. a \o (((b \o c) \o d) \o e) = (((a \o b) \o c) \o d) \o e
  <2> DEFINE Splits(s, u) == a \o (s \o u) = (a \o s) \o u
  <2>s. \A s, u \in Q : Splits(s, u)
    OBVIOUS
  <2> HIDE DEF Splits
  <2>1. Splits(b, c) /\ Splits(b \o c, d) /\ Splits((b \o c) \o d, e)
    BY <1>1, <1>2, <2>s
  <2>2. /\ a \o (b \o c) = (a \o b) \o c
        /\ a \o ((b \o c) \o d) = (a \o (b \o c)) \o d
        /\ a \o (((b \o c) \o d) \o e) = (a \o ((b \o c) \o d)) \o e
    BY <2>1, Zenon DEF Splits
  <2> QED BY <2>2, Zenon
<1> QED BY <1>3, <1>4

LEMMA QueueStep ==
  ASSUME NEW S
  PROVE  \A a, b, c, d, e \in Seq(S) :
           /\ a \o (((b \o c) \o d) \o e) = (((a \o b) \o c) \o d) \o e
           /\ ((b \o c) \o d) \o e \in Seq(S)
<1>1. /\ \A s, t, u \in Seq(S) : s \o (t \o u) = (s \o t) \o u
      /\ \A s, t \in Seq(S) : s \o t \in Seq(S)
  BY ConcatRegroups
<1> QED BY <1>1, RegroupFive

LEMMA HeadOfConcat ==
  ASSUME NEW S, NEW x \in S, NEW s \in Seq(S)
  PROVE  /\ <<x>> \o s # <<>>
         /\ Head(<<x>> \o s) = x
         /\ Tail(<<x>> \o s) = s
<1> DEFINE t == <<x>> \o s
<1>1. <<x>> \in Seq(S) /\ Len(<<x>>) = 1 /\ <<x>>[1] = x
  OBVIOUS
<1>2. /\ t \in Seq(S) /\ Len(t) = 1 + Len(s)
      /\ \A i \in 1 .. 1 + Len(s) : t[i] = IF i <= 1 THEN x ELSE s[i - 1]
  BY <1>1, ConcatProperties
<1>3. Len(s) \in Nat
  BY LenProperties
<1> HIDE DEF t
<1>4. t # <<>>
  BY <1>2, <1>3, EmptySeq
<1>5. Head(t) = x
  BY <1>2, <1>3, <1>4
<1>6. /\ Tail(t) \in Seq(S) /\ Len(Tail(t)) = Len(t) - 1
      /\ \A i \in 1 .. Len(Tail(t)) : Tail(t)[i] = t[i + 1]
  BY <1>2, <1>4, HeadTailProperties
<1>7. \A i \in 1 .. Len(s) : Tail(t)[i] = s[i]
  BY <1>2, <1>3, <1>6
<1>8. Tail(t) = s
  BY <1>2, <1>3, <1>6, <1>7, SeqEqual
<1> QED BY <1>4, <1>5, <1>8 DEF t

------------------------------------------------------------------------------
\* The refinement.

LEMMA PortTypes ==
  /\ Port!Words = Word
  /\ TypeOK => Answer = {} \/ \E w \in Word : Answer = {w}
<1>1. Port!Words = Word
  BY DEF Port!Words, Port!WordLanes, Word, ByteLanes
<1>2. ASSUME TypeOK PROVE JoinHalves(ReadHalves[1], ReadHalves[2]) \in Word
  <2>1. sampleQ[3] \in Half /\ sampleQ[2] \in Half
    BY <1>2 DEF TypeOK, PipeTypeOK
  <2> QED BY <2>1, JoinType DEF ReadHalves
<1> QED BY <1>1, <1>2 DEF Answer

LEMMA MemoryStart == ASSUME CasLatency = 2, PortInit PROVE Port!Init
<1>1. TypeOK
  BY InitType DEF PortInit
<1>2. Owed = <<>>
  <2>1. Stage(1) = <<>> /\ Stage(2) = <<>> /\ Stage(3) = <<>> /\ Stage(4) = <<>>
    BY DEF PortInit, Init, CoreInit, Stage, ReadDepth
  <2>2. <<>> \o <<>> = <<>>
    BY EmptySeq, ConcatEmptySeq
  <2>3. ReadsOwed = <<>>
    BY <1>1, <2>1, <2>2, OwedIsStages DEF Stages
  <2> QED BY <2>2, <2>3 DEF Owed, PortInit, Init, CoreInit
<1>3. Store \in [0 .. NumWords - 1 -> Port!Words]
  BY <1>1, StoreType, PortTypes
<1>4. Answer \in {{}} \union {{w} : w \in Port!Words}
  BY <1>1, PortTypes
<1> QED BY <1>2, <1>3, <1>4 DEF Port!Init, PortInit

\* The step, with the answers owed reduced to stages.
LEMMA MemoryStep ==
  ASSUME CasLatency = 2, ChipInv, ChipInv', Held, InFlight, PortNext,
         ReadsOwed = Stages, ReadsOwed' = Stages'
  PROVE  Port!Next
<1> USE DEF ChipInv
<1>c. /\ req \in Requests /\ Cycle(req) /\ Fsm(req) /\ DataPipeline(req, DQ)
      /\ IF Requesting(req) /\ ~Accept(req) THEN req' = req ELSE req' \in Requests
  BY PortCycle DEF Held, PortNext
<1>p. Port!Pending <=> Requesting(req)
  BY DEF Port!Pending, Requesting
<1>s. stateQ' = "write1" <=> stateQ = "write0"
  BY <1>c, StateStep
<1>a. Answer' = IF stateQ = "write1" \/ readPipeQ[4] THEN {ReadInFlight(4)} ELSE {}
  <2>1. ackQ' = (stateQ = "write1" \/ readPipeQ[4])
    BY <1>c DEF DataPipeline, ReadDepth
  <2>2. JoinHalves(ReadHalves[1], ReadHalves[2])' = ReadInFlight(4)
    BY <1>c, ReadsMoveOn
  <2> QED BY <2>1, <2>2 DEF Answer
<1>m. /\ Stage(4)' = Stage(3) /\ Stage(3)' = Stage(2) /\ Stage(2)' = Stage(1)
      /\ Stage(1)' = IF stateQ = "read" THEN <<{Store[req.addr % NumWords]}>> ELSE <<>>
  BY StagesStep DEF RowsAgree
<1>h. stateQ # "write0" => Store' = Store
  BY <1>c, LandingHolds DEF Store
<1>e. \A q \in Seq(Answers) : q \o <<>> = q /\ <<>> \o q = q
  BY ConcatEmptySeq
<1>q. /\ Stage(1) \in Seq(Answers) /\ Stage(2) \in Seq(Answers)
      /\ Stage(3) \in Seq(Answers) /\ Stage(4) \in Seq(Answers)
  BY StageType
<1>1. CASE stateQ \in {"write0", "write1"}
  <2>1. Stage(1) = <<>> /\ Stage(2) = <<>> /\ Stage(3) = <<>> /\ ~readPipeQ[4] /\ Stage(4) = <<>>
    BY <1>1 DEF Stage, ReadsDrain, ReadDepth
  <2>2. <<>> \in Seq(Answers) /\ <<Word>> \in Seq(Answers)
    <3>1. \A x \in Answers : <<x>> \in Seq(Answers)
      OBVIOUS
    <3>2. Word \in Answers
      BY DEF Answers
    <3> QED BY <3>1, <3>2, EmptySeq
  <2>3. ReadsOwed = <<>>
    BY <1>e, <2>1, <2>2 DEF Stages
  <2>4. ReadsOwed' = <<>>
    BY <1>1, <1>e, <1>m, <2>1, <2>2 DEF Stages
  <2>5. CASE stateQ = "write0"
    <3>1. Owed = <<>> /\ Owed' = <<Word>>
      BY <1>e, <1>s, <2>2, <2>3, <2>4, <2>5 DEF Owed
    <3>2. Append(<<>>, Word) = <<Word>>
      OBVIOUS
    <3>3. Accept(req) /\ ~req.rd
      BY <2>5, ServedIsAccepted
    <3>4. Port!Owing = <<Word>>
      BY <3>1, <3>2, <3>3, PortTypes DEF Port!Owing
    <3>5. Port!Reply(Port!Owing)
      BY <1>a, <2>1, <2>5, <3>1, <3>4 DEF Port!Reply
    <3>6. Store' = [Store EXCEPT ![Port!Place] = Port!WriteLanes(@, req.data, req.wr)]
      BY <2>5, StoreOfWrite DEF RowsAgree, Port!Place
    <3>7. Port!Accept
      BY <1>c, <1>p, <3>3, <3>6 DEF Port!Accept, Accept, Requesting
    <3> QED BY <3>5, <3>7 DEF Port!Next
  <2>6. CASE stateQ = "write1"
    <3>1. Owed = <<Word>> /\ Owed' = <<>>
      BY <1>e, <1>s, <2>2, <2>3, <2>4, <2>6 DEF Owed
    <3>2. <<Word>> # <<>> /\ Head(<<Word>>) = Word /\ Tail(<<Word>>) = <<>>
      OBVIOUS
    <3>3. Answer' = {ReadInFlight(4)} /\ ReadInFlight(4) \in Word
      BY <1>a, <2>6, InFlightType
    <3>4. Port!Reply(Owed)
      BY <3>1, <3>2, <3>3, Zenon DEF Port!Reply
    <3>5. Port!Hold
      BY <1>c, <1>p, <1>h, <2>6 DEF Port!Hold, Accept
    <3> QED BY <3>4, <3>5 DEF Port!Next
  <2> QED BY <1>1, <2>5, <2>6
<1>2. CASE stateQ \notin {"write0", "write1"}
  <2> DEFINE e   == IF stateQ = "read" THEN <<{Store[req.addr % NumWords]}>> ELSE <<>>
             due == Stages \o e
  <2>1. e \in Seq(Answers)
    <3>1. \A x \in Answers : <<x>> \in Seq(Answers)
      OBVIOUS
    <3>2. stateQ = "read" => Store[req.addr % NumWords] \in Word
      BY <1>c, StoreType, ServedCell, ServedIsAccepted DEF RowsAgree
    <3> QED BY <3>1, <3>2, EmptySeq DEF Answers
  <2>2. Stages' = ((Stage(3) \o Stage(2)) \o Stage(1)) \o e
    BY <1>m DEF Stages
  <2> HIDE DEF e
  <2>3. due = Stage(4) \o Stages' /\ Stages' \in Seq(Answers)
    <3> DEFINE Q  == Seq(Answers)
               s1 == Stage(1)
               s2 == Stage(2)
               s3 == Stage(3)
               s4 == Stage(4)
    <3>1. \A v, w, x, y, z \in Q :
            /\ v \o (((w \o x) \o y) \o z) = (((v \o w) \o x) \o y) \o z
            /\ ((w \o x) \o y) \o z \in Q
      BY QueueStep
    <3>2. s1 \in Q /\ s2 \in Q /\ s3 \in Q /\ s4 \in Q /\ e \in Q
      BY <1>q, <2>1
    <3>3. Stages' = ((s3 \o s2) \o s1) \o e /\ due = (((s4 \o s3) \o s2) \o s1) \o e
      BY <2>2 DEF Stages
    <3> SUFFICES due = s4 \o Stages' /\ Stages' \in Q
      OBVIOUS
    <3> HIDE DEF Q, s1, s2, s3, s4, due
    <3>4. \A x, y, z \in Q : /\ s4 \o (((s3 \o x) \o y) \o z) = (((s4 \o s3) \o x) \o y) \o z
                            /\ ((s3 \o x) \o y) \o z \in Q
      BY <3>1, <3>2, Zenon
    <3>5. /\ s4 \o (((s3 \o s2) \o s1) \o e) = (((s4 \o s3) \o s2) \o s1) \o e
          /\ ((s3 \o s2) \o s1) \o e \in Q
      BY <3>2, <3>4, Zenon
    <3> QED BY <3>3, <3>5, Zenon
  <2>4. Stages \in Seq(Answers)
    <3>1. \A s, t \in Seq(Answers) : s \o t \in Seq(Answers)
      BY ConcatRegroups
    <3>2. Stage(4) \o Stage(3) \in Seq(Answers)
      BY <1>q, <3>1, Zenon
    <3>3. (Stage(4) \o Stage(3)) \o Stage(2) \in Seq(Answers)
      BY <1>q, <3>1, <3>2, Zenon
    <3> QED BY <1>q, <3>1, <3>3, Zenon DEF Stages
  <2>5. Owed = Stages /\ Owed' = Stages'
    BY <1>2, <1>e, <1>s, <2>3, <2>4 DEF Owed
  <2> HIDE DEF due
  <2>6. Port!Reply(due)
    <3>1. CASE readPipeQ[4]
      <4>1. Stage(4) = <<{ReadInFlight(4)}>> /\ {ReadInFlight(4)} \in Answers
        BY <3>1, InFlightType DEF Stage, Answers
      <4>2. due # <<>> /\ Head(due) = {ReadInFlight(4)} /\ Tail(due) = Stages'
        BY <2>3, <4>1, HeadOfConcat
      <4>3. Answer' = {ReadInFlight(4)}
        BY <1>a, <3>1
      <4> QED BY <2>5, <4>2, <4>3 DEF Port!Reply
    <3>2. CASE ~readPipeQ[4]
      <4>1. due = Stages'
        BY <1>e, <2>3, <3>2 DEF Stage
      <4>2. Answer' = {}
        BY <1>2, <1>a, <3>2
      <4> QED BY <2>5, <4>1, <4>2 DEF Port!Reply
    <3> QED BY <3>1, <3>2
  <2>7. CASE stateQ = "read"
    <3>1. Accept(req) /\ req.rd
      BY <2>7, ServedIsAccepted
    <3>2. Port!Owing = due
      <4>1. {Store[req.addr % NumWords]} \in Answers
        BY <1>c, <2>7, StoreType, ServedCell, ServedIsAccepted DEF RowsAgree, Answers
      <4>2. Append(Stages, {Store[req.addr % NumWords]}) = due
        BY <2>4, <2>7, <4>1, AppendIsConcat DEF due, e
      <4> QED BY <2>5, <3>1, <4>2 DEF Port!Owing, Port!Place
    <3>3. Port!Accept
      BY <1>c, <1>p, <1>h, <2>7, <3>1 DEF Port!Accept, Requesting
    <3> QED BY <2>6, <3>2, <3>3 DEF Port!Next
  <2>8. CASE stateQ # "read"
    <3>1. due = Owed
      BY <1>e, <2>4, <2>5, <2>8 DEF due, e
    <3>2. Port!Hold
      BY <1>2, <1>c, <1>p, <1>h, <2>8 DEF Port!Hold, Accept
    <3> QED BY <2>6, <3>1, <3>2 DEF Port!Next
  <2> QED BY <2>7, <2>8
<1> QED BY <1>1, <1>2

LEMMA MemoryStutter == UNCHANGED portVars => UNCHANGED Port!vars
BY DEF portVars, chipVars, coreVars, memVars, fsmVars, reqVars, rowVars, outVars, pipeVars,
       modeVars, bankVars, burstVars, Port!vars, Store, Landing, LowLanding, Cell0, PinCell, Owed,
       ReadsOwed, OwedUpTo, ReadInFlight, Answer, ReadHalves

LEMMA PortStep == Held /\ [PortNext]_portVars => [Next]_chipVars
BY DEF Held, PortNext, Next, portVars

LEMMA PortAlways == PortSpec => Spec /\ [](ChipInv /\ Held /\ InFlight)
<1>1. PortInit => Init /\ TypeOK /\ Held /\ ReadsDrain /\ InFlight
  BY InitType, HeldStart, DrainStart, InFlightStart DEF PortInit
<1>2. TypeOK /\ Held /\ [PortNext]_portVars => TypeOK' /\ Held'
  BY PortStep, StepType, HeldStep, HeldStutter
<1>3. TypeOK /\ ReadsDrain /\ [Next]_chipVars => ReadsDrain'
  BY DrainStep, StutterDrain DEF Next
<1>4. TypeOK /\ PowerInv /\ BurstInv /\ ReadsDrain /\ InFlight /\ [Next]_chipVars => InFlight'
  BY InFlightStep, InFlightStutter DEF Next
<1>5. TypeOK /\ RowsAgree /\ PowerInv /\ BurstInv /\ ReadsDrain => ChipInv
  BY DEF ChipInv
<1>6. PortSpec => [](TypeOK /\ Held)
  BY <1>1, <1>2, PTL DEF PortSpec
<1>7. PortSpec => Spec
  BY <1>1, <1>6, PortStep, PTL DEF PortSpec, Spec
<1>8. PortSpec => []ReadsDrain
  BY <1>1, <1>3, <1>6, <1>7, PTL DEF PortSpec, Spec
<1>9. PortSpec => []InFlight
  BY <1>1, <1>4, <1>7, <1>8, TypeCorrect, PinsAlways, PTL DEF PortSpec, Spec
<1> QED BY <1>5, <1>6, <1>7, <1>8, <1>9, TypeCorrect, RowsAlwaysAgree, PinsAlways, PTL

\* With the CAS latency the chip model is built for, the port is a memory of words:
\* whatever refreshes, row changes and bursts come between, every accepted request
\* takes effect when it is accepted and is answered once, in order, with the word
\* stored then.
THEOREM ImplementsWordMemory == CasLatency = 2 => (PortSpec => IsWordMemory)
<1> SUFFICES ASSUME CasLatency = 2 PROVE PortSpec => IsWordMemory
  OBVIOUS
<1>1. PortInit => Port!Init
  BY MemoryStart
<1>2. ChipInv => ReadsOwed = Stages
  BY OwedIsStages DEF ChipInv
<1>3. /\ ChipInv /\ ChipInv' /\ Held /\ InFlight
      /\ ReadsOwed = Stages /\ (ReadsOwed = Stages)' /\ [PortNext]_portVars
      => [Port!Next]_(Port!vars)
  BY MemoryStep, MemoryStutter
<1> QED BY <1>1, <1>2, <1>3, PortAlways, PTL DEF PortSpec, IsWordMemory, Port!Spec

------------------------------------------------------------------------------
\* The times the commands keep.

\* What the stopwatches will show once the command on the pins is counted.
ActiveFor(b)    == IF b \in OpenedByPins THEN 0 ELSE sinceActive[b]
PrechargeFor(b) == IF b \in ClosedByPins THEN 0 ELSE sincePrecharge[b]
RefreshFor      == IF pins.cmd = "REFRESH" THEN 0 ELSE sinceRefresh

\* Cycles the machine still waits.
Left == IF stateQ = "delay" THEN delayQ ELSE 0

\* The power-up sequence waits by its countdown: tick is the countdown at the
\* last command in question.
Counted(n, cycles, tick) == n >= cycles \/ (initTimerQ <= tick /\ n + initTimerQ >= tick)

WatchTypeOK ==
  /\ sinceActive \in [Banks -> Nat]
  /\ sincePrecharge \in [Banks -> Nat]
  /\ sinceRefresh \in Nat

\* The inductive invariant: a row that is open, a bank that is closed, and the
\* part after a refresh, are given their time by the delay that is still to come.
TimesNear ==
  /\ \A b \in rowOpenQ : ActiveFor(b) + Left >= TrcdCycles
  /\ IF stateQ = "init"
     THEN /\ \A b \in Banks : Counted(PrechargeFor(b), TrpCycles, 39)
          /\ \/ Counted(RefreshFor, TrfcCycles, 19)
             \/ Counted(RefreshFor, TrfcCycles, 29) /\ initTimerQ >= 20
     ELSE /\ \A b \in Banks \ rowOpenQ : PrechargeFor(b) + Left >= TrpCycles
          /\ RefreshFor + Left >= TrfcCycles
  /\ stateQ = "delay" => delayQ >= 1

TimesInv == WatchTypeOK /\ TimesNear /\ TimesKept

LEMMA TimesInit == TimingInit => TimesInv
<1> SUFFICES ASSUME TimingInit PROVE TimesInv
  OBVIOUS
<1>1. Saturation \in Nat /\ Saturation >= TrcdCycles /\ Saturation >= TrpCycles /\ Saturation >= TrfcCycles
  BY DelayAssumption DEF Saturation
<1>2. /\ sinceActive = [b \in Banks |-> Saturation]
      /\ sincePrecharge = [b \in Banks |-> Saturation]
      /\ sinceRefresh = Saturation
      /\ stateQ = "init" /\ rowOpenQ = {} /\ pins.cmd = "INHIBIT"
  BY DEF TimingInit, Init, CoreInit
<1> HIDE DEF Saturation
<1>3. WatchTypeOK
  BY <1>1, <1>2 DEF WatchTypeOK
<1>4. /\ \A b \in Banks : PrechargeFor(b) = Saturation
      /\ RefreshFor = Saturation
  BY <1>2 DEF PrechargeFor, ClosedByPins, RefreshFor
<1>5. TimesNear
  BY <1>1, <1>2, <1>4 DEF TimesNear, Counted
<1>6. TimesKept
  BY <1>1, <1>2 DEF TimesKept, ActiveToAccess, PrechargeToOpen, RefreshToCommand
<1> QED BY <1>3, <1>5, <1>6 DEF TimesInv

\* A stopwatch counts on from what it will show, until it is past every time it
\* is compared with.
LEMMA WatchStep ==
  ASSUME WatchTypeOK, Watch
  PROVE  /\ WatchTypeOK'
         /\ \A b \in Banks :
              /\ ActiveFor(b) \in Nat /\ PrechargeFor(b) \in Nat
              /\ sinceActive'[b] = ActiveFor(b) + 1 \/ sinceActive'[b] >= Saturation
              /\ sinceActive'[b] >= ActiveFor(b)
              /\ sincePrecharge'[b] = PrechargeFor(b) + 1 \/ sincePrecharge'[b] >= Saturation
              /\ sincePrecharge'[b] >= PrechargeFor(b)
         /\ RefreshFor \in Nat
         /\ sinceRefresh' = RefreshFor + 1 \/ sinceRefresh' >= Saturation
         /\ sinceRefresh' >= RefreshFor
<1>1. Saturation \in Nat
  BY DelayAssumption DEF Saturation
<1>2. \A n \in Nat : Tick(n) \in Nat /\ (Tick(n) = n + 1 \/ Tick(n) >= Saturation) /\ Tick(n) >= n
  BY <1>1 DEF Tick
<1> HIDE DEF Saturation
<1>3. WatchTypeOK'
  BY <1>2 DEF WatchTypeOK, Watch
<1>4. ASSUME NEW b \in Banks
      PROVE  /\ ActiveFor(b) \in Nat
             /\ sinceActive'[b] = ActiveFor(b) + 1 \/ sinceActive'[b] >= Saturation
             /\ sinceActive'[b] >= ActiveFor(b)
  BY <1>2, <1>4 DEF WatchTypeOK, Watch, ActiveFor
<1>5. ASSUME NEW b \in Banks
      PROVE  /\ PrechargeFor(b) \in Nat
             /\ sincePrecharge'[b] = PrechargeFor(b) + 1 \/ sincePrecharge'[b] >= Saturation
             /\ sincePrecharge'[b] >= PrechargeFor(b)
  BY <1>2, <1>5 DEF WatchTypeOK, Watch, PrechargeFor
<1>6. /\ RefreshFor \in Nat
      /\ sinceRefresh' = RefreshFor + 1 \/ sinceRefresh' >= Saturation
      /\ sinceRefresh' >= RefreshFor
  BY <1>2 DEF WatchTypeOK, Watch, RefreshFor
<1> QED BY <1>3, <1>4, <1>5, <1>6

\* Whatever the step, the rows that are open and the banks that are closed before
\* it have their time, less what is left to wait and the cycle that passes.
LEMMA TimePasses ==
  ASSUME TypeOK, WatchTypeOK, TimesNear, Watch, stateQ # "init", NEW left \in Nat, left >= Left - 1
  PROVE  /\ \A b \in rowOpenQ : sinceActive'[b] + left >= TrcdCycles
         /\ \A b \in Banks \ rowOpenQ : sincePrecharge'[b] + left >= TrpCycles
         /\ sinceRefresh' + left >= TrfcCycles
<1>1. /\ TrcdCycles \in Nat /\ TrpCycles \in Nat /\ TrfcCycles \in Nat
      /\ Saturation \in Nat /\ Saturation >= TrcdCycles /\ Saturation >= TrpCycles
      /\ Saturation >= TrfcCycles
  BY DelayAssumption DEF Saturation
<1>2. Left \in Nat /\ rowOpenQ \in SUBSET Banks
  BY DEF Left, TypeOK, FsmTypeOK
<1>3. /\ \A b \in rowOpenQ : ActiveFor(b) + Left >= TrcdCycles
      /\ \A b \in Banks \ rowOpenQ : PrechargeFor(b) + Left >= TrpCycles
      /\ RefreshFor + Left >= TrfcCycles
  BY DEF TimesNear
<1>4. /\ \A b \in Banks : /\ ActiveFor(b) \in Nat /\ sinceActive'[b] \in Nat
                          /\ PrechargeFor(b) \in Nat /\ sincePrecharge'[b] \in Nat
                          /\ sinceActive'[b] = ActiveFor(b) + 1 \/ sinceActive'[b] >= Saturation
                          /\ sincePrecharge'[b] = PrechargeFor(b) + 1 \/ sincePrecharge'[b] >= Saturation
      /\ RefreshFor \in Nat /\ sinceRefresh' \in Nat
      /\ sinceRefresh' = RefreshFor + 1 \/ sinceRefresh' >= Saturation
  BY WatchStep DEF WatchTypeOK
<1> HIDE DEF Left, ActiveFor, PrechargeFor, RefreshFor, Saturation
<1>5. \A n, m, c \in Nat : /\ n = m + 1 \/ n >= Saturation
                           /\ m + Left >= c
                           /\ Saturation >= c
                           => n + left >= c
  BY <1>1, <1>2
<1>6. \A b \in rowOpenQ : sinceActive'[b] + left >= TrcdCycles
  BY <1>1, <1>2, <1>3, <1>4, <1>5
<1>7. \A b \in Banks \ rowOpenQ : sincePrecharge'[b] + left >= TrpCycles
  BY <1>1, <1>3, <1>4, <1>5
<1>8. sinceRefresh' + left >= TrfcCycles
  BY <1>1, <1>3, <1>4, <1>5
<1> QED BY <1>6, <1>7, <1>8

\* A step without a command lets time pass.
LEMMA NopStep ==
  ASSUME TypeOK, TypeOK', WatchTypeOK, TimesNear, Watch, stateQ # "init", stateQ' # "init",
         pins'.cmd = "NOP", rowOpenQ' = rowOpenQ, Left' >= Left - 1,
         stateQ' = "delay" => delayQ' >= 1
  PROVE  TimesNear' /\ TimesKept'
<1>1. Left' \in Nat
  BY DEF Left, TypeOK, FsmTypeOK
<1>2. /\ \A b \in rowOpenQ : sinceActive'[b] + Left' >= TrcdCycles
      /\ \A b \in Banks \ rowOpenQ : sincePrecharge'[b] + Left' >= TrpCycles
      /\ sinceRefresh' + Left' >= TrfcCycles
  BY <1>1, TimePasses
<1>3. /\ \A b \in Banks : ActiveFor(b)' = sinceActive'[b] /\ PrechargeFor(b)' = sincePrecharge'[b]
      /\ RefreshFor' = sinceRefresh'
  BY DEF ActiveFor, PrechargeFor, RefreshFor, OpenedByPins, ClosedByPins
<1>4. rowOpenQ \in SUBSET Banks
  BY DEF TypeOK, FsmTypeOK
<1>5. TimesNear'
  BY <1>2, <1>3, <1>4 DEF TimesNear
<1> QED BY <1>5 DEF TimesKept, ActiveToAccess, PrechargeToOpen, RefreshToCommand

\* A step with a command finds every time over that it could be too early for.
LEMMA CommandStep ==
  ASSUME TypeOK, TypeOK', WatchTypeOK, TimesNear, Watch, stateQ \notin {"init", "delay"},
         stateQ' # "init", stateQ' = "delay" => delayQ' >= 1,
         pins'.cmd \in {"ACTIVE", "READ", "WRITE", "PRECHARGE", "REFRESH"},
         pins'.cmd \in {"READ", "WRITE"} => pins'.bank \in rowOpenQ,
         pins'.cmd = "ACTIVE" => pins'.bank \notin rowOpenQ /\ Left' >= TrcdCycles,
         pins'.cmd = "PRECHARGE" => Left' >= TrpCycles,
         pins'.cmd = "REFRESH" => rowOpenQ = {} /\ Left' >= TrfcCycles,
         rowOpenQ' = (rowOpenQ \ ClosedByPins') \union OpenedByPins'
  PROVE  TimesNear' /\ TimesKept'
<1>1. Left' \in Nat /\ 0 \in Nat /\ 0 >= Left - 1
  BY DEF Left, TypeOK, FsmTypeOK
<1>0. /\ \A n, c \in Nat : n >= c => 0 + n >= c
      /\ \A n, l, c \in Nat : n >= c => n + l >= c
  OBVIOUS
<1>z. Left' \in Nat /\ TrcdCycles \in Nat /\ TrpCycles \in Nat /\ TrfcCycles \in Nat
  BY <1>1, DelayAssumption
<1>2. /\ \A b \in rowOpenQ : sinceActive'[b] + 0 >= TrcdCycles
      /\ \A b \in Banks \ rowOpenQ : sincePrecharge'[b] + 0 >= TrpCycles
      /\ sinceRefresh' + 0 >= TrfcCycles
  BY <1>1, TimePasses, Zenon
<1>3. /\ \A b \in Banks : sinceActive'[b] \in Nat /\ sincePrecharge'[b] \in Nat
      /\ sinceRefresh' \in Nat
      /\ rowOpenQ \in SUBSET Banks /\ pins' \in Pins
      /\ TrcdCycles \in Nat /\ TrpCycles \in Nat /\ TrfcCycles \in Nat
  BY WatchStep, DelayAssumption DEF WatchTypeOK, TypeOK, FsmTypeOK
<1>4. /\ \A b \in rowOpenQ : sinceActive'[b] >= TrcdCycles
      /\ \A b \in Banks \ rowOpenQ : sincePrecharge'[b] >= TrpCycles
      /\ sinceRefresh' >= TrfcCycles
  BY <1>2, <1>3
<1>5. TimesKept'
  BY <1>3, <1>4 DEF TimesKept, ActiveToAccess, PrechargeToOpen, RefreshToCommand, Pins
<1>6. \A b \in rowOpenQ' : ActiveFor(b)' + Left' >= TrcdCycles
  <2>1. TAKE b \in rowOpenQ'
  <2>2. CASE b \in OpenedByPins'
    <3>1. ActiveFor(b)' = 0 /\ Left' >= TrcdCycles
      BY <2>2 DEF ActiveFor, OpenedByPins
    <3> HIDE DEF Left, ActiveFor
    <3> QED BY <1>z, <1>0, <3>1, Zenon
  <2>3. CASE b \notin OpenedByPins'
    <3>1. b \in rowOpenQ /\ ActiveFor(b)' = sinceActive'[b]
      BY <2>1, <2>3 DEF ActiveFor
    <3> HIDE DEF Left, ActiveFor
    <3> QED BY <1>0, <1>z, <1>3, <1>4, <3>1, Zenon
  <2> QED BY <2>2, <2>3
<1>7. \A b \in Banks \ rowOpenQ' : PrechargeFor(b)' + Left' >= TrpCycles
  <2>1. TAKE b \in Banks \ rowOpenQ'
  <2>2. CASE b \in ClosedByPins'
    <3>1. PrechargeFor(b)' = 0 /\ Left' >= TrpCycles
      BY <2>2 DEF PrechargeFor, ClosedByPins
    <3> HIDE DEF Left, PrechargeFor
    <3> QED BY <1>z, <1>0, <3>1, Zenon
  <2>3. CASE b \notin ClosedByPins'
    <3>1. b \in Banks \ rowOpenQ /\ PrechargeFor(b)' = sincePrecharge'[b]
      BY <2>1, <2>3 DEF PrechargeFor
    <3> HIDE DEF Left, PrechargeFor
    <3> QED BY <1>0, <1>z, <1>3, <1>4, <3>1, Zenon
  <2> QED BY <2>2, <2>3
<1>8. RefreshFor' + Left' >= TrfcCycles
  <2>1. CASE pins'.cmd = "REFRESH"
    <3>1. RefreshFor' = 0 /\ Left' >= TrfcCycles
      BY <2>1 DEF RefreshFor
    <3> HIDE DEF Left, RefreshFor
    <3> QED BY <1>z, <1>0, <3>1, Zenon
  <2>2. CASE pins'.cmd # "REFRESH"
    <3>1. RefreshFor' = sinceRefresh'
      BY <2>2 DEF RefreshFor
    <3> HIDE DEF Left, RefreshFor
    <3> QED BY <1>0, <1>z, <1>3, <1>4, <3>1, Zenon
  <2> QED BY <2>1, <2>2
<1> QED BY <1>5, <1>6, <1>7, <1>8 DEF TimesNear

LEMMA RunStep ==
  ASSUME TypeOK, TypeOK', WatchTypeOK, TimesNear, RowsAgree, Watch, NEW in \in Requests, Fsm(in),
         stateQ # "init"
  PROVE  TimesNear' /\ TimesKept'
<1>d. /\ TrcdCycles \in 1 .. 15 /\ TrpCycles \in 1 .. 15 /\ TrfcCycles \in 1 .. 15
      /\ CasLatency \in 1 .. 15
  BY DelayAssumption
<1>t. /\ stateQ \in States /\ delayQ \in 0 .. 15 /\ rowOpenQ \in SUBSET Banks
      /\ delayStateQ \in {"idle", "activate", "read", "write0", "refresh"}
      /\ pins \in Pins /\ reqBankW \in Banks
  BY AddrRanges DEF TypeOK, FsmTypeOK, reqBankW
<1>n. NopPins \in Pins /\ NopPins.cmd = "NOP"
  BY NopPinsType DEF TypeOK
<1>l. Left \in Nat /\ Left' \in Nat /\ (stateQ # "delay" => Left' >= Left - 1)
  BY DEF Left, TypeOK, FsmTypeOK
<1>r. /\ Goal \in {"read", "write0"} => reqBankW \in rowOpenQ
      /\ Goal = "activate" => reqBankW \notin rowOpenQ
      /\ Goal = "refresh" => rowOpenQ = {}
  BY DEF RowsAgree
<1> USE DEF GotoDelay
<1>1. CASE PowerUp
  BY <1>1 DEF PowerUp
<1>2. CASE IdleRefresh
  BY <1>2, <1>n, <1>l, NopStep DEF IdleRefresh, rowVars
<1>3. CASE IdleHit(in)
  BY <1>3, <1>n, <1>l, NopStep DEF IdleHit, rowVars, ServeState
<1>4. CASE IdleMiss(in)
  BY <1>4, <1>n, <1>l, NopStep DEF IdleMiss, rowVars
<1>5. CASE IdleWait(in)
  BY <1>5, <1>n, <1>l, NopStep DEF IdleWait, rowVars, fsmVars
<1>6. CASE Activate
  <2>1. /\ pins'.cmd = "ACTIVE" /\ pins'.bank = reqBankW /\ rowOpenQ' = rowOpenQ \union {reqBankW}
        /\ stateQ' = "delay" /\ delayQ' = TrcdCycles /\ stateQ = "activate"
    BY <1>6, <1>n DEF Activate, Pins
  <2>2. OpenedByPins' = {reqBankW} /\ ClosedByPins' = {} /\ Left' = TrcdCycles
    BY <2>1 DEF OpenedByPins, ClosedByPins, Left
  <2>3. reqBankW \notin rowOpenQ
    BY <1>r, <2>1 DEF Goal
  <2> QED BY <1>d, <2>1, <2>2, <2>3, CommandStep
<1>7. CASE Read
  <2>1. /\ pins'.cmd = "READ" /\ pins'.bank = reqBankW /\ rowOpenQ' = rowOpenQ
        /\ stateQ' = "read_wait" /\ stateQ = "read"
    BY <1>7 DEF Read, rowVars
  <2>2. OpenedByPins' = {} /\ ClosedByPins' = {} /\ reqBankW \in rowOpenQ
    BY <1>r, <2>1 DEF OpenedByPins, ClosedByPins, Goal
  <2> QED BY <2>1, <2>2, CommandStep
<1>8. CASE ReadWait(in)
  BY <1>8, <1>d, <1>n, <1>l, NopStep DEF ReadWait, rowVars
<1>9. CASE Write0(in)
  <2>1. /\ pins'.cmd = "WRITE" /\ pins'.bank = reqBankW /\ rowOpenQ' = rowOpenQ
        /\ stateQ' = "write1" /\ stateQ = "write0"
    BY <1>9 DEF Write0, rowVars
  <2>2. OpenedByPins' = {} /\ ClosedByPins' = {} /\ reqBankW \in rowOpenQ
    BY <1>r, <2>1 DEF OpenedByPins, ClosedByPins, Goal
  <2> QED BY <2>1, <2>2, CommandStep
<1>10. CASE Write1(in)
  <2>1. /\ pins'.cmd = "NOP" /\ rowOpenQ' = rowOpenQ /\ stateQ' \in {"write0", "idle"}
        /\ stateQ = "write1"
    BY <1>10, <1>n DEF Write1, rowVars, Pins
  <2> QED BY <1>l, <2>1, NopStep
<1>11. CASE PrechargeAll
  <2>1. /\ pins'.cmd = "PRECHARGE" /\ pins'.a10 = TRUE /\ rowOpenQ' = {}
        /\ stateQ' = "delay" /\ delayQ' = TrpCycles /\ stateQ = "precharge"
    BY <1>11, <1>n DEF PrechargeAll, Pins
  <2>2. OpenedByPins' = {} /\ ClosedByPins' = Banks /\ Left' = TrpCycles
    BY <2>1 DEF OpenedByPins, ClosedByPins, Left
  <2> QED BY <1>d, <1>t, <2>1, <2>2, CommandStep
<1>12. CASE PrechargeBank
  <2>1. /\ pins'.cmd = "PRECHARGE" /\ pins'.a10 = FALSE /\ pins'.bank = reqBankW
        /\ rowOpenQ' = rowOpenQ \ {reqBankW}
        /\ stateQ' = "delay" /\ delayQ' = TrpCycles /\ stateQ = "precharge"
    BY <1>12, <1>n DEF PrechargeBank, Pins
  <2>2. OpenedByPins' = {} /\ ClosedByPins' = {reqBankW} /\ Left' = TrpCycles
    BY <2>1 DEF OpenedByPins, ClosedByPins, Left
  <2> QED BY <1>d, <2>1, <2>2, CommandStep
<1>13. CASE Refresh
  <2>1. /\ pins'.cmd = "REFRESH" /\ rowOpenQ' = rowOpenQ
        /\ stateQ' = "delay" /\ delayQ' = TrfcCycles /\ stateQ = "refresh"
    BY <1>13, <1>n DEF Refresh, rowVars, Pins
  <2>2. OpenedByPins' = {} /\ ClosedByPins' = {} /\ Left' = TrfcCycles /\ rowOpenQ = {}
    BY <1>r, <2>1 DEF OpenedByPins, ClosedByPins, Left, Goal
  <2> QED BY <1>d, <2>1, <2>2, CommandStep
<1>14. CASE Delay
  <2>1. delayQ >= 1
    BY <1>14 DEF Delay, TimesNear
  <2>2. delayQ' = delayQ - 1 /\ stateQ' = IF delayQ = 1 THEN delayStateQ ELSE "delay"
    BY <1>14, <1>t, <2>1 DEF Delay
  <2>3. stateQ = "delay" /\ pins'.cmd = "NOP" /\ rowOpenQ' = rowOpenQ
    BY <1>14, <1>n DEF Delay, rowVars
  <2>4. Left' = Left - 1
    BY <1>t, <2>2, <2>3 DEF Left
  <2>5. stateQ' # "init" /\ (stateQ' = "delay" => delayQ' >= 1)
    BY <1>t, <2>1, <2>2
  <2> QED BY <1>l, <2>3, <2>4, <2>5, NopStep
<1> QED
  BY <1>1, <1>2, <1>3, <1>4, <1>5, <1>6, <1>7, <1>8, <1>9, <1>10, <1>11, <1>12, <1>13, <1>14 DEF Fsm

\* A countdown and a stopwatch that move together.
LEMMA CountOn ==
  ASSUME NEW r \in Nat, NEW s \in Nat, NEW t \in Nat, NEW tp \in Int, NEW c \in Nat,
         NEW tick \in {19, 29},
         tp = t - 1, s = r + 1 \/ s >= c, s >= r, r >= c \/ (t <= tick /\ r + t >= tick)
  PROVE  s >= c \/ (tp <= tick /\ s + tp >= tick)
OBVIOUS

\* The power-up sequence leaves nine cycles between one command and the next.
LEMMA PowerUpStep ==
  ASSUME TrpCycles <= 10, TrfcCycles <= 10,
         TypeOK, TypeOK', WatchTypeOK, TimesNear, RowsAgree, Watch, PowerUp
  PROVE  TimesNear' /\ TimesKept'
<1>1. /\ TrcdCycles \in Nat /\ TrpCycles \in Nat /\ TrfcCycles \in Nat
      /\ Saturation \in Nat /\ Saturation >= TrpCycles /\ Saturation >= TrfcCycles
  BY DelayAssumption DEF Saturation
<1>2. /\ initTimerQ \in Nat /\ initTimerQ' = initTimerQ - 1
      /\ stateQ = "init" /\ stateQ' = IF initTimerQ = 0 THEN "idle" ELSE "init"
      /\ rowOpenQ = {} /\ rowOpenQ' = {}
  BY TimerAssumption DEF PowerUp, TypeOK, FsmTypeOK, InitTime, RowsAgree, Goal, rowVars
<1>3. /\ initTimerQ = 40 => pins'.cmd = "PRECHARGE" /\ pins'.a10 = TRUE
      /\ initTimerQ \in {20, 30} => pins'.cmd = "REFRESH"
      /\ initTimerQ = 10 => pins'.cmd = "LOAD_MODE"
      /\ initTimerQ \notin {10, 20, 30, 40} => pins'.cmd = "NOP"
  <2>1. NopPins \in Pins /\ NopPins.cmd = "NOP"
    BY NopPinsType DEF TypeOK
  <2> QED BY <2>1 DEF PowerUp, InitPins, Pins
<1>4. /\ \A b \in Banks : Counted(PrechargeFor(b), TrpCycles, 39)
      /\ \/ Counted(RefreshFor, TrfcCycles, 19)
         \/ Counted(RefreshFor, TrfcCycles, 29) /\ initTimerQ >= 20
  BY <1>2 DEF TimesNear
<1>5. /\ \A b \in Banks : /\ PrechargeFor(b) \in Nat /\ sincePrecharge'[b] \in Nat
                          /\ sincePrecharge'[b] = PrechargeFor(b) + 1 \/ sincePrecharge'[b] >= Saturation
                          /\ sincePrecharge'[b] >= PrechargeFor(b)
      /\ RefreshFor \in Nat /\ sinceRefresh' \in Nat
      /\ sinceRefresh' = RefreshFor + 1 \/ sinceRefresh' >= Saturation
      /\ sinceRefresh' >= RefreshFor
  BY WatchStep DEF WatchTypeOK
<1>6. /\ \A b \in Banks : PrechargeFor(b)' = IF initTimerQ = 40 THEN 0 ELSE sincePrecharge'[b]
      /\ RefreshFor' = IF initTimerQ \in {20, 30} THEN 0 ELSE sinceRefresh'
  BY <1>3 DEF PrechargeFor, RefreshFor, ClosedByPins
<1> HIDE DEF PrechargeFor, RefreshFor, Saturation
<1>7. ASSUME NEW b \in Banks
      PROVE  /\ Counted(PrechargeFor(b), TrpCycles, 39)'
             /\ initTimerQ \in {20, 30} => sincePrecharge'[b] >= TrpCycles
             /\ initTimerQ = 0 => PrechargeFor(b)' >= TrpCycles
  BY <1>1, <1>2, <1>4, <1>5, <1>6 DEF Counted
<1>8. initTimerQ \in {10, 20, 30, 40} => sinceRefresh' >= TrfcCycles
  BY <1>1, <1>2, <1>4, <1>5 DEF Counted
<1>y. \/ Counted(RefreshFor, TrfcCycles, 19)'
      \/ Counted(RefreshFor, TrfcCycles, 29)' /\ initTimerQ' >= 20
  <2>4. /\ RefreshFor \in Nat /\ sinceRefresh' \in Nat /\ initTimerQ \in Nat
        /\ TrfcCycles \in Nat /\ initTimerQ' = initTimerQ - 1
        /\ sinceRefresh' = RefreshFor + 1 \/ sinceRefresh' >= TrfcCycles
        /\ sinceRefresh' >= RefreshFor
    BY <1>1, <1>2, <1>5
  <2>5. initTimerQ' \in Int
    BY <2>4
  <2>1. CASE initTimerQ = 30
    BY <1>1, <1>2, <1>6, <2>1 DEF Counted
  <2>2. CASE initTimerQ = 20
    BY <1>1, <1>2, <1>6, <2>2 DEF Counted
  <2>3. CASE initTimerQ \notin {20, 30}
    <3>1. RefreshFor' = sinceRefresh'
      BY <1>6, <2>3
    <3>2. CASE Counted(RefreshFor, TrfcCycles, 19)
      <4>0. sinceRefresh' >= TrfcCycles \/ (initTimerQ' <= 19 /\ sinceRefresh' + initTimerQ' >= 19)
        BY <2>4, <2>5, <3>2, CountOn DEF Counted
      <4>1. Counted(RefreshFor, TrfcCycles, 19)'
        BY <3>1, <4>0 DEF Counted
      <4> QED BY <4>1
    <3>3. CASE Counted(RefreshFor, TrfcCycles, 29) /\ initTimerQ >= 20
      <4>0. sinceRefresh' >= TrfcCycles \/ (initTimerQ' <= 29 /\ sinceRefresh' + initTimerQ' >= 29)
        BY <2>4, <2>5, <3>3, CountOn DEF Counted
      <4>1. Counted(RefreshFor, TrfcCycles, 29)'
        BY <3>1, <4>0 DEF Counted
      <4>2. initTimerQ' >= 20
        BY <1>2, <2>3, <3>3
      <4> QED BY <4>1, <4>2
    <3> QED BY <1>4, <3>2, <3>3
  <2> QED BY <2>1, <2>2, <2>3
<1>x. initTimerQ = 0 => RefreshFor' \in Nat /\ RefreshFor' >= TrfcCycles
  <2> SUFFICES ASSUME initTimerQ = 0 PROVE RefreshFor' \in Nat /\ RefreshFor' >= TrfcCycles
    OBVIOUS
  <2>1. RefreshFor' = sinceRefresh' /\ sinceRefresh' \in Nat /\ RefreshFor \in Nat
    BY <1>5, <1>6
  <2>2. RefreshFor >= TrfcCycles \/ RefreshFor >= 19
    BY <1>4, <2>1 DEF Counted
  <2> QED BY <1>1, <1>5, <2>1, <2>2
<1>9. TimesKept'
  BY <1>3, <1>7, <1>8 DEF TimesKept, ActiveToAccess, PrechargeToOpen, RefreshToCommand, TypeOK,
     FsmTypeOK, Pins
<1>10. TimesNear'
  <2>1. CASE initTimerQ = 0
    <3>1. stateQ' = "idle" /\ Left' = 0
      BY <1>2, <2>1 DEF Left
    <3>2. RefreshFor' + Left' >= TrfcCycles
      BY <1>1, <1>x, <2>1, <3>1
    <3>3. \A b \in Banks : PrechargeFor(b)' + Left' >= TrpCycles
      BY <1>1, <1>5, <1>6, <1>7, <2>1, <3>1
    <3> QED BY <1>2, <3>1, <3>2, <3>3 DEF TimesNear
  <2>2. CASE initTimerQ # 0
    <3>1. stateQ' = "init"
      BY <1>2, <2>2
    <3> QED BY <1>2, <1>7, <1>y, <3>1 DEF TimesNear
  <2> QED BY <2>1, <2>2
<1> QED BY <1>9, <1>10

LEMMA TimesStep ==
  ASSUME TrpCycles <= 10, TrfcCycles <= 10,
         TypeOK, TypeOK', RowsAgree, TimesInv, [TimingNext]_timingVars
  PROVE  TimesInv'
<1>1. CASE UNCHANGED timingVars
  BY <1>1 DEF TimesInv, WatchTypeOK, TimesNear, TimesKept, ActiveToAccess, PrechargeToOpen,
     RefreshToCommand, ActiveFor, PrechargeFor, RefreshFor, Left, Counted, OpenedByPins,
     ClosedByPins, timingVars, watchVars, chipVars, coreVars, fsmVars, rowVars, outVars
<1>2. ASSUME NEW in \in Requests, Cycle(in), Watch PROVE TimesInv'
  <2>1. WatchTypeOK'
    BY <1>2, WatchStep DEF TimesInv
  <2>2. Fsm(in)
    BY <1>2 DEF Cycle, CoreStep
  <2>3. CASE stateQ = "init"
    <3>1. PowerUp
      BY <2>2, <2>3 DEF Fsm, IdleRefresh, IdleHit, IdleMiss, IdleWait, Activate, Read, ReadWait,
         Write0, Write1, PrechargeAll, PrechargeBank, Refresh, Delay
    <3> QED BY <1>2, <2>1, <3>1, PowerUpStep DEF TimesInv
  <2>4. CASE stateQ # "init"
    BY <1>2, <2>1, <2>2, <2>4, RunStep DEF TimesInv
  <2> QED BY <2>3, <2>4
<1> QED BY <1>1, <1>2 DEF TimingNext, Next

\* The stopwatches only watch.
LEMMA TimingIsSpec == TimingSpec => Spec
<1>1. TimingInit => Init
  BY DEF TimingInit
<1>2. [TimingNext]_timingVars => [Next]_chipVars
  BY DEF TimingNext, timingVars
<1> QED BY <1>1, <1>2, PTL DEF TimingSpec, Spec

\* Every command comes no sooner than the times of the part allow, for all delays
\* of up to ten cycles between the commands of the power-up sequence, and whatever
\* CAS latency and tRCD.
THEOREM TimesAlwaysKept ==
  ASSUME TrpCycles <= 10, TrfcCycles <= 10
  PROVE  TimingSpec => []TimesKept
<1>1. Spec => [](TypeOK /\ RowsAgree)
  BY TypeCorrect, RowsAlwaysAgree, PTL
<1>2. TypeOK /\ TypeOK' /\ RowsAgree /\ TimesInv /\ [TimingNext]_timingVars => TimesInv'
  BY TimesStep
<1>3. TimesInv => TimesKept
  BY DEF TimesInv
<1> QED BY <1>1, <1>2, <1>3, TimesInit, TimingIsSpec, PTL DEF TimingSpec

------------------------------------------------------------------------------
\* A held request is accepted in time.

\* The longest way from a request to its acceptance: it comes too late to go on in
\* place after a read, and a refresh falls due meanwhile, which closes its row.
AcceptBound == TrpCycles + TrfcCycles + TrcdCycles + CasLatency + 6

\* No refresh falls due before the machine is back in idle.
QuietUntilIdle == ~refreshQ /\ refreshCntQ + delayQ <= RefreshCycles /\ rowOpenQ = {}

\* The cycles to the acceptance of the request on the port, at most.
AfterRefresh == TrcdCycles + 2
FromRefresh  == TrfcCycles + 1 + AfterRefresh
AtMostIdle   == TrpCycles + 2 + FromRefresh
IdleToAccept ==
  IF refreshQ THEN IF rowOpenQ = {} THEN 1 + FromRefresh ELSE AtMostIdle
  ELSE IF RowHit(req) THEN 1
  ELSE IF AddrBank(req.addr) \in rowOpenQ THEN TrpCycles + TrcdCycles + 3 ELSE AfterRefresh

StateToAccept ==
  CASE stateQ = "init" -> initTimerQ + 1 + AfterRefresh
    [] stateQ = "idle" -> IdleToAccept
    [] stateQ = "precharge" -> TrpCycles + 1 + (IF targetStateQ = "refresh" THEN FromRefresh ELSE TrcdCycles + 1)
    [] stateQ = "activate" -> TrcdCycles + 1
    [] stateQ = "refresh" -> FromRefresh
    [] stateQ = "read_wait" -> 1 + CasLatency + AtMostIdle
    [] stateQ = "write1" -> 1 + AtMostIdle
    [] OTHER -> 0

DelayToAccept ==
  delayQ + CASE delayStateQ = "activate" -> TrcdCycles + 1
             [] delayStateQ = "refresh" -> FromRefresh
             [] delayStateQ = "idle" -> IF QuietUntilIdle THEN AfterRefresh ELSE AtMostIdle
             [] OTHER -> 0

CyclesToAccept == IF stateQ = "delay" THEN DelayToAccept ELSE StateToAccept

AcceptInv ==
  /\ Goal = "refresh" => refreshQ
  /\ Goal = "precharge" /\ targetStateQ = "refresh" => refreshQ
  /\ stateQ # "init" => CyclesToAccept <= AcceptBound

\* Every cycle in which a request is held brings its acceptance nearer.
HeldNears ==
  [][Requesting(req) /\ ~Accept(req) => req' = req /\ CyclesToAccept' < CyclesToAccept]_portVars

LEMMA IdleBound == TypeOK => IdleToAccept \in 1 .. AtMostIdle
BY Bounds DEF TypeOK, PipeTypeOK, IdleToAccept, AtMostIdle, FromRefresh, AfterRefresh

LEMMA ToAcceptType == TypeOK /\ RefreshNears => CyclesToAccept \in Nat
<1> SUFFICES ASSUME TypeOK, RefreshNears PROVE CyclesToAccept \in Nat
  OBVIOUS
<1> USE Bounds DEF AtMostIdle, FromRefresh, AfterRefresh
<1>1. /\ stateQ \in States /\ delayQ \in 0 .. 15 /\ initTimerQ \in -1 .. InitTime
      /\ stateQ = "init" => initTimerQ >= 0
      /\ delayStateQ \in {"idle", "activate", "read", "write0", "refresh"}
  BY DEF TypeOK, FsmTypeOK
<1>2. IdleToAccept \in Nat
  BY IdleBound
<1>3. StateToAccept \in Nat
  BY <1>1, <1>2, TimerAssumption DEF StateToAccept, States, InitTime
<1>4. DelayToAccept \in Nat
  <2> DEFINE rest == CASE delayStateQ = "activate" -> TrcdCycles + 1
                       [] delayStateQ = "refresh" -> FromRefresh
                       [] delayStateQ = "idle" -> IF QuietUntilIdle THEN AfterRefresh ELSE AtMostIdle
                       [] OTHER -> 0
  <2>1. AfterRefresh \in Nat /\ FromRefresh \in Nat /\ AtMostIdle \in Nat /\ TrcdCycles + 1 \in Nat
    OBVIOUS
  <2> HIDE DEF AtMostIdle, FromRefresh, AfterRefresh
  <2>2. rest \in Nat
    BY <1>1, <2>1
  <2>3. DelayToAccept = delayQ + rest
    BY DEF DelayToAccept
  <2> HIDE DEF rest
  <2> QED BY <1>1, <2>2, <2>3
<1> QED BY <1>3, <1>4 DEF CyclesToAccept

\* What a cycle of the controller does to the measure.
LEMMA AcceptStep ==
  ASSUME RefreshCycles > ServeBound + TrfcCycles,
         TypeOK, TypeOK', RowsAgree, RefreshNears, AcceptInv, Held, PortNext
  PROVE  AcceptInv' /\ (Requesting(req) /\ ~Accept(req) => CyclesToAccept' < CyclesToAccept)
<1> USE Bounds DEF AtMostIdle, FromRefresh, AfterRefresh, AcceptBound
<1>0. Fsm(req) /\ RefreshTimer
  BY PortCycle DEF Cycle, CoreStep
<1>t. /\ stateQ \in States /\ delayQ \in 0 .. 15 /\ initTimerQ \in -1 .. InitTime
      /\ stateQ = "init" => initTimerQ >= 0
      /\ delayStateQ \in {"idle", "activate", "read", "write0", "refresh"}
      /\ targetStateQ \in {"idle", "read", "write0", "refresh"}
      /\ refreshCntQ \in 0 .. RefreshCycles /\ refreshQ \in BOOLEAN /\ refreshQ' \in BOOLEAN
      /\ RefreshCycles \in Nat /\ InitTime \in Nat
  BY TimerAssumption DEF TypeOK, FsmTypeOK, PipeTypeOK, InitTime
<1>b. IdleToAccept' \in 1 .. AtMostIdle'
  <2>1. (TypeOK => IdleToAccept \in 1 .. AtMostIdle)'
    BY IdleBound, PTL
  <2> QED BY <2>1
<1>r. /\ stateQ # "init" /\ stateQ # "refresh" /\ refreshQ => refreshQ'
      /\ stateQ = "init" => refreshQ' = refreshQ /\ refreshCntQ' = refreshCntQ
  BY <1>0, <1>t DEF RefreshTimer, RefreshTick
<1>e. refreshQ' = FALSE /\ rowOpenQ' = {} => IdleToAccept' = AfterRefresh
  BY DEF IdleToAccept, RowHit
<1>1. CASE PowerUp
  <2>1. /\ stateQ = "init" /\ refreshQ' = FALSE /\ rowOpenQ' = {}
        /\ initTimerQ' = initTimerQ - 1 /\ stateQ' = IF initTimerQ = 0 THEN "idle" ELSE "init"
    BY <1>1, <1>r, <1>t DEF PowerUp, RefreshNears, RowsAgree, Goal, rowVars
  <2>2. CyclesToAccept = initTimerQ + 1 + AfterRefresh
    BY <2>1 DEF CyclesToAccept, StateToAccept
  <2>3. CASE initTimerQ = 0
    BY <1>e, <2>1, <2>2, <2>3 DEF CyclesToAccept, StateToAccept, AcceptInv, Goal
  <2>4. CASE initTimerQ # 0
    BY <1>t, <2>1, <2>2, <2>4 DEF CyclesToAccept, StateToAccept, AcceptInv, Goal
  <2> QED BY <2>3, <2>4
<1>2. CASE IdleRefresh
  <2>1. /\ stateQ = "idle" /\ refreshQ = TRUE /\ refreshQ' = TRUE /\ targetStateQ' = "refresh"
        /\ stateQ' = IF rowOpenQ # {} THEN "precharge" ELSE "refresh"
    BY <1>2, <1>r, <1>t DEF IdleRefresh
  <2>2. CyclesToAccept = IF rowOpenQ = {} THEN 1 + FromRefresh ELSE AtMostIdle
    BY <2>1 DEF CyclesToAccept, StateToAccept, IdleToAccept
  <2>3. CyclesToAccept' = IF rowOpenQ = {} THEN FromRefresh ELSE TrpCycles + 1 + FromRefresh
    BY <2>1 DEF CyclesToAccept, StateToAccept
  <2> QED BY <2>1, <2>2, <2>3 DEF AcceptInv
<1>3. CASE IdleHit(req)
  <2>1. stateQ = "idle" /\ refreshQ = FALSE /\ RowHit(req) /\ stateQ' \in {"read", "write0"}
    BY <1>3, <1>t DEF IdleHit, ServeState
  <2>2. CyclesToAccept = 1
    BY <2>1 DEF CyclesToAccept, StateToAccept, IdleToAccept
  <2>3. CyclesToAccept' = 0
    BY <2>1 DEF CyclesToAccept, StateToAccept
  <2> QED BY <2>1, <2>2, <2>3 DEF AcceptInv, Goal
<1>4. CASE IdleMiss(req)
  <2>1. /\ stateQ = "idle" /\ refreshQ = FALSE /\ ~RowHit(req)
        /\ targetStateQ' \in {"read", "write0"}
        /\ stateQ' = IF AddrBank(req.addr) \in rowOpenQ THEN "precharge" ELSE "activate"
    BY <1>4, <1>t DEF IdleMiss, ServeState
  <2>2. CyclesToAccept = IF AddrBank(req.addr) \in rowOpenQ THEN TrpCycles + TrcdCycles + 3
                         ELSE AfterRefresh
    BY <2>1 DEF CyclesToAccept, StateToAccept, IdleToAccept
  <2>3. CyclesToAccept' = IF AddrBank(req.addr) \in rowOpenQ THEN TrpCycles + 1 + (TrcdCycles + 1)
                          ELSE TrcdCycles + 1
    BY <2>1 DEF CyclesToAccept, StateToAccept
  <2> QED BY <2>1, <2>2, <2>3 DEF AcceptInv, Goal
<1>5. CASE IdleWait(req)
  <2>1. ~Requesting(req) /\ stateQ' = "idle"
    BY <1>5 DEF IdleWait, fsmVars
  <2>2. CyclesToAccept' = IdleToAccept'
    BY <2>1 DEF CyclesToAccept, StateToAccept
  <2> QED BY <1>b, <2>1, <2>2 DEF AcceptInv, Goal
<1>6. CASE Activate
  <2>1. /\ stateQ = "activate" /\ stateQ' = "delay" /\ delayQ' = TrcdCycles
        /\ delayStateQ' \in {"read", "write0"}
    BY <1>6 DEF Activate, GotoDelay, RowsAgree, Goal
  <2>2. CyclesToAccept = TrcdCycles + 1
    BY <2>1 DEF CyclesToAccept, StateToAccept
  <2>3. CyclesToAccept' = TrcdCycles
    BY <2>1 DEF CyclesToAccept, DelayToAccept
  <2> QED BY <2>1, <2>2, <2>3 DEF AcceptInv, Goal
<1>7. CASE Read
  <2>1. stateQ = "read" /\ stateQ' = "read_wait" /\ Accept(req)
    BY <1>7, ServedIsAccepted DEF Read
  <2>2. CyclesToAccept' = 1 + CasLatency + AtMostIdle
    BY <2>1 DEF CyclesToAccept, StateToAccept
  <2> QED BY <2>1, <2>2 DEF AcceptInv, Goal
<1>8. CASE ReadWait(req)
  <2>1. /\ stateQ = "read_wait"
        /\ \/ stateQ' = "read"
           \/ stateQ' = "delay" /\ delayStateQ' = "idle" /\ delayQ' = CasLatency
    BY <1>8 DEF ReadWait
  <2>2. CyclesToAccept = 1 + CasLatency + AtMostIdle
    BY <2>1 DEF CyclesToAccept, StateToAccept
  <2>3. CASE stateQ' = "read"
    <3>1. CyclesToAccept' = 0
      BY <2>3 DEF CyclesToAccept, StateToAccept
    <3> QED BY <2>2, <2>3, <3>1 DEF AcceptInv, Goal
  <2>4. CASE stateQ' = "delay" /\ delayStateQ' = "idle" /\ delayQ' = CasLatency
    <3>1. CyclesToAccept' = CasLatency + AfterRefresh \/ CyclesToAccept' = CasLatency + AtMostIdle
      BY <2>4 DEF CyclesToAccept, DelayToAccept
    <3> QED BY <2>2, <2>4, <3>1 DEF AcceptInv, Goal
  <2> QED BY <2>1, <2>3, <2>4
<1>9. CASE Write0(req)
  <2>1. stateQ = "write0" /\ stateQ' = "write1" /\ Accept(req)
    BY <1>9, ServedIsAccepted DEF Write0
  <2>2. CyclesToAccept' = 1 + AtMostIdle
    BY <2>1 DEF CyclesToAccept, StateToAccept
  <2> QED BY <2>1, <2>2 DEF AcceptInv, Goal
<1>10. CASE Write1(req)
  <2>1. stateQ = "write1" /\ stateQ' \in {"write0", "idle"}
    BY <1>10 DEF Write1
  <2>2. CyclesToAccept = 1 + AtMostIdle
    BY <2>1 DEF CyclesToAccept, StateToAccept
  <2>3. CyclesToAccept' = 0 \/ CyclesToAccept' = IdleToAccept'
    BY <2>1 DEF CyclesToAccept, StateToAccept
  <2> QED BY <1>b, <2>1, <2>2, <2>3 DEF AcceptInv, Goal
<1>11. CASE PrechargeAll
  <2>1. /\ stateQ = "precharge" /\ targetStateQ = "refresh" /\ refreshQ' = TRUE
        /\ stateQ' = "delay" /\ delayQ' = TrpCycles /\ delayStateQ' = "refresh"
    BY <1>11, <1>r, <1>t DEF PrechargeAll, GotoDelay, AcceptInv, Goal
  <2>2. CyclesToAccept = TrpCycles + 1 + FromRefresh
    BY <2>1 DEF CyclesToAccept, StateToAccept
  <2>3. CyclesToAccept' = TrpCycles + FromRefresh
    BY <2>1 DEF CyclesToAccept, DelayToAccept
  <2> QED BY <2>1, <2>2, <2>3 DEF AcceptInv, Goal
<1>12. CASE PrechargeBank
  <2>1. /\ stateQ = "precharge" /\ targetStateQ # "refresh"
        /\ stateQ' = "delay" /\ delayQ' = TrpCycles /\ delayStateQ' = "activate"
    BY <1>12 DEF PrechargeBank, GotoDelay
  <2>2. CyclesToAccept = TrpCycles + 1 + (TrcdCycles + 1)
    BY <2>1 DEF CyclesToAccept, StateToAccept
  <2>3. CyclesToAccept' = TrpCycles + (TrcdCycles + 1)
    BY <2>1 DEF CyclesToAccept, DelayToAccept
  <2> QED BY <2>1, <2>2, <2>3 DEF AcceptInv, Goal
<1>13. CASE Refresh
  <2>1. /\ stateQ = "refresh" /\ stateQ' = "delay" /\ delayQ' = TrfcCycles /\ delayStateQ' = "idle"
        /\ rowOpenQ' = {} /\ refreshQ
    BY <1>13 DEF Refresh, GotoDelay, AcceptInv, Goal, RowsAgree, rowVars
  <2>2. refreshCntQ <= ServeBound
    BY <1>t, <2>1 DEF RefreshNears, CyclesLeft, CyclesTo
  <2>3. ~RefreshTick
    BY <1>t, <2>2 DEF RefreshTick
  <2>4. refreshQ' = FALSE /\ refreshCntQ' = refreshCntQ + 1
    BY <1>0, <2>1, <2>3 DEF RefreshTimer
  <2>5. QuietUntilIdle'
    BY <1>t, <2>1, <2>2, <2>4 DEF QuietUntilIdle
  <2>6. CyclesToAccept = FromRefresh
    BY <2>1 DEF CyclesToAccept, StateToAccept
  <2>7. CyclesToAccept' = TrfcCycles + AfterRefresh
    BY <2>1, <2>5 DEF CyclesToAccept, DelayToAccept
  <2> QED BY <2>1, <2>6, <2>7 DEF AcceptInv, Goal
<1>14. CASE Delay
  <2>1. /\ stateQ = "delay" /\ delayQ >= 1 /\ delayQ' = delayQ - 1
        /\ delayStateQ' = delayStateQ /\ targetStateQ' = targetStateQ /\ rowOpenQ' = rowOpenQ
        /\ stateQ' = IF delayQ = 1 THEN delayStateQ ELSE "delay"
    BY <1>14, <1>t DEF Delay, RefreshNears, rowVars
  <2>2. Goal' = Goal /\ Goal = delayStateQ
    BY <1>t, <2>1 DEF Goal
  <2>3. QuietUntilIdle => refreshQ' = FALSE /\ refreshCntQ' = refreshCntQ + 1 /\ QuietUntilIdle'
    <3>1. QuietUntilIdle => ~RefreshTick
      BY <1>t, <2>1 DEF QuietUntilIdle, RefreshTick
    <3>2. QuietUntilIdle => refreshQ' = FALSE /\ refreshCntQ' = refreshCntQ + 1
      BY <1>0, <1>t, <2>1, <3>1 DEF RefreshTimer, QuietUntilIdle
    <3> QED BY <1>t, <2>1, <3>2 DEF QuietUntilIdle
  <2>4. CyclesToAccept' < CyclesToAccept
    <3>1. CASE delayQ = 1 /\ delayStateQ = "idle"
      <4>1. CyclesToAccept' = IdleToAccept'
        BY <2>1, <3>1 DEF CyclesToAccept, StateToAccept
      <4>2. CyclesToAccept = 1 + IF QuietUntilIdle THEN AfterRefresh ELSE AtMostIdle
        BY <2>1, <3>1 DEF CyclesToAccept, DelayToAccept
      <4>3. QuietUntilIdle => IdleToAccept' = AfterRefresh
        BY <1>e, <2>1, <2>3 DEF QuietUntilIdle
      <4> QED BY <1>b, <4>1, <4>2, <4>3
    <3>2. CASE delayQ = 1 /\ delayStateQ # "idle"
      BY <1>t, <2>1, <3>2 DEF CyclesToAccept, StateToAccept, DelayToAccept
    <3>3. CASE delayQ # 1 /\ delayStateQ = "idle"
      <4>1. CyclesToAccept = delayQ + IF QuietUntilIdle THEN AfterRefresh ELSE AtMostIdle
        BY <2>1, <3>3 DEF CyclesToAccept, DelayToAccept
      <4>2. CyclesToAccept' = delayQ - 1 + IF QuietUntilIdle' THEN AfterRefresh ELSE AtMostIdle
        BY <2>1, <3>3 DEF CyclesToAccept, DelayToAccept
      <4> QED BY <1>t, <2>3, <4>1, <4>2
    <3>4. CASE delayQ # 1 /\ delayStateQ # "idle"
      BY <1>t, <2>1, <3>4 DEF CyclesToAccept, DelayToAccept
    <3> QED BY <3>1, <3>2, <3>3, <3>4
  <2>5. CyclesToAccept <= AcceptBound
    BY <2>1 DEF AcceptInv
  <2>6. CyclesToAccept' <= AcceptBound
    <3>1. CyclesToAccept \in Nat
      BY ToAcceptType
    <3>2. CyclesToAccept' \in Int
      <4>1. DelayToAccept' \in Int /\ (delayQ = 1 => StateToAccept' \in Int)
        BY <1>b, <1>t, <2>1 DEF DelayToAccept, StateToAccept
      <4> QED BY <1>t, <2>1, <4>1 DEF CyclesToAccept
    <3> QED BY <2>4, <2>5, <3>1, <3>2
  <2>7. Goal = "refresh" => refreshQ'
    BY <1>r, <2>1 DEF AcceptInv
  <2> QED BY <1>t, <2>2, <2>4, <2>6, <2>7 DEF AcceptInv
<1> QED
  BY <1>0, <1>1, <1>2, <1>3, <1>4, <1>5, <1>6, <1>7, <1>8, <1>9, <1>10, <1>11, <1>12, <1>13, <1>14, Zenon DEF Fsm

LEMMA AcceptStutter == AcceptInv /\ UNCHANGED portVars => AcceptInv'
<1> SUFFICES ASSUME AcceptInv, UNCHANGED portVars PROVE AcceptInv'
  OBVIOUS
<1>1. UNCHANGED <<stateQ, targetStateQ, delayStateQ, delayQ, initTimerQ, refreshCntQ, refreshQ,
                  rowOpenQ, activeRowQ, req>>
  BY DEF portVars, chipVars, coreVars, fsmVars, rowVars, pipeVars
<1> QED BY <1>1 DEF AcceptInv, Goal, CyclesToAccept, StateToAccept, DelayToAccept, IdleToAccept,
             RowHit, QuietUntilIdle

\* A request that is held is accepted within AcceptBound cycles, 13 at 50 MHz: in
\* each of them it comes nearer, whatever the machine was about when it came and
\* whichever row it needs, and one refresh at most comes first.  The refresh
\* period has to leave room for it.
THEOREM HeldIsAcceptedInTime ==
  ASSUME RefreshCycles > ServeBound + TrfcCycles
  PROVE  PortSpec => HeldNears /\ [](stateQ # "init" => CyclesToAccept \in 0 .. AcceptBound)
<1>1. PortInit => AcceptInv
  BY DEF PortInit, Init, CoreInit, AcceptInv, Goal
<1> DEFINE Inv  == TypeOK /\ RowsAgree /\ RefreshNears /\ Held
           Near == Requesting(req) /\ ~Accept(req) => req' = req /\ CyclesToAccept' < CyclesToAccept
<1>2. Inv /\ Inv' /\ AcceptInv /\ [PortNext]_portVars => AcceptInv' /\ [Near]_portVars
  <2>1. ASSUME Inv, Inv', AcceptInv, PortNext PROVE AcceptInv' /\ Near
    BY <2>1, AcceptStep DEF PortNext
  <2> QED BY <2>1, AcceptStutter
<1>3. PortSpec => []Inv
  BY PortAlways, RowsAlwaysAgree, TypeCorrect, AlwaysNears, PTL DEF ChipInv
<1>4. Inv /\ AcceptInv => (stateQ # "init" => CyclesToAccept \in 0 .. AcceptBound)
  <2> SUFFICES ASSUME Inv, AcceptInv, stateQ # "init" PROVE CyclesToAccept \in 0 .. AcceptBound
    OBVIOUS
  <2>1. CyclesToAccept \in Nat /\ CyclesToAccept <= AcceptBound
    BY ToAcceptType DEF AcceptInv
  <2> QED BY <2>1, Bounds DEF AcceptBound
<1> QED BY <1>1, <1>2, <1>3, <1>4, PTL DEF PortSpec, HeldNears

------------------------------------------------------------------------------
\* The chip alone: the storage as a burst fills it.

\* What the recursion in Stored is defined by.
Column1(store, c) == [store EXCEPT ![c.cell] = MergeHalf(@, c.dq, c.dqm)]
Filling(b, s, f)  == [n \in 0 .. Len(s) |-> IF n = 0 THEN b ELSE Column1(f[n - 1], s[n])]

LEMMA StoredIsFilling ==
  ASSUME NEW f, f = Filling(before, sent, f)
  PROVE  \E g : g = Filling(before, sent, g) /\ Stored = g
<1> DEFINE P(g) == g = [n \in 0 .. Len(sent) |->
             IF n = 0 THEN before
             ELSE LET c == sent[n] IN [g[n - 1] EXCEPT ![c.cell] = MergeHalf(@, c.dq, c.dqm)]]
<1>1. ASSUME NEW g
      PROVE  P(g) <=> g = Filling(before, sent, g)
  BY DEF Filling, Column1
<1>2. P(f)
  BY <1>1
<1>3. P(CHOOSE g : P(g))
  BY <1>2, Zenon
<1>4. Stored = CHOOSE g : P(g)
  BY Zenon DEF Stored
<1> QED BY <1>1, <1>3, <1>4

\* A set of naturals has a least element.
LEMMA LeastElement ==
  ASSUME NEW S \in SUBSET Nat, S # {}
  PROVE  \E x \in S : \A y \in S : x =< y
<1>1. IsWellFoundedOn(OpToRel(<, Nat), Nat)
  BY NatLessThanWellFounded
<1> DEFINE R == OpToRel(<, Nat)
<1>2. \A x, y \in Nat : <<x, y>> \in R <=> x < y
  BY DEF OpToRel
<1> HIDE DEF R
<1>3. PICK x \in S : \A y \in S : ~(<<y, x>> \in R)
  BY <1>1, WFMin DEF R
<1>4. \A y \in S : x =< y
  <2> TAKE y \in S
  <2>1. ~(<<y, x>> \in R) /\ x \in Nat /\ y \in Nat
    BY <1>3
  <2>2. ~(y < x)
    BY <1>2, <2>1, Zenon
  <2> QED BY <2>1, <2>2
<1> QED BY <1>4

\* There is one way to fill it.
LEMMA OneFilling ==
  ASSUME NEW b, NEW s, Len(s) \in Nat, NEW f, NEW g, f = Filling(b, s, f), g = Filling(b, s, g)
  PROVE  f = g
<1> DEFINE D == {n \in 0 .. Len(s) : f[n] # g[n]}
<1>1. SUFFICES ASSUME D # {} PROVE FALSE
  <2>1. \A n \in 0 .. Len(s) : f[n] = g[n]
    BY <1>1
  <2>2. f = [n \in 0 .. Len(s) |-> f[n]] /\ g = [n \in 0 .. Len(s) |-> g[n]]
    BY Zenon DEF Filling
  <2> QED BY <2>1, <2>2
<1>2. D \in SUBSET Nat
  OBVIOUS
<1>4. PICK x \in D : \A y \in D : x =< y
  <2> HIDE DEF D
  <2> QED BY <1>1, <1>2, LeastElement
<1>5. x \in 0 .. Len(s) /\ f[x] # g[x]
  BY <1>4
<1>6. /\ f[x] = IF x = 0 THEN b ELSE Column1(f[x - 1], s[x])
      /\ g[x] = IF x = 0 THEN b ELSE Column1(g[x - 1], s[x])
  BY <1>5, Zenon DEF Filling
<1>7. x # 0
  BY <1>5, <1>6
<1>8. x - 1 \in 0 .. Len(s) /\ x - 1 \in Nat /\ x \in Nat /\ ~(x =< x - 1)
  BY <1>5, <1>7
<1>9. x - 1 \notin D
  <2> HIDE DEF D
  <2> QED BY <1>4, <1>8
<1>10. f[x - 1] = g[x - 1]
  BY <1>8, <1>9
<1> QED BY <1>5, <1>6, <1>7, <1>10

\* One more column.
LEMMA FillingGrows ==
  ASSUME NEW b, NEW U, NEW s \in Seq(U), NEW c, NEW f, f = Filling(b, s, f)
  PROVE  \E g : /\ g = Filling(b, Append(s, c), g)
                /\ g[Len(s) + 1] = Column1(f[Len(s)], c)
<1> DEFINE t == Append(s, c)
           L == Len(s)
           g == [n \in 0 .. L + 1 |-> IF n = L + 1 THEN Column1(f[L], c) ELSE f[n]]
<1>1. s \in Seq(U \union {c}) /\ L \in Nat
  BY SeqDef
<1>2. Len(t) = L + 1 /\ t[L + 1] = c /\ \A n \in 1 .. L : t[n] = s[n]
  BY <1>1
<1> HIDE DEF t
<1>3. \A n \in 0 .. L : f[n] = IF n = 0 THEN b ELSE Column1(f[n - 1], s[n])
  BY Zenon DEF Filling
<1> HIDE DEF L
<1>4. \A n \in 0 .. L : g[n] = f[n]
  BY <1>1
<1>5. g[L + 1] = Column1(f[L], c)
  BY <1>1
<1>6. g = [n \in 0 .. L + 1 |-> g[n]]
  OBVIOUS
<1> HIDE DEF g
<1>7. ASSUME NEW n \in 0 .. L + 1
      PROVE  g[n] = IF n = 0 THEN b ELSE Column1(g[n - 1], t[n])
  <2>1. CASE n = L + 1
    <3>1. n - 1 = L /\ L \in 0 .. L /\ n # 0
      BY <1>1, <2>1
    <3> QED BY <1>2, <1>4, <1>5, <2>1, <3>1
  <2>2. CASE n = 0
    <3>1. 0 \in 0 .. L
      BY <1>1
    <3> QED BY <1>3, <1>4, <2>2, <3>1
  <2>3. CASE n # 0 /\ n # L + 1
    <3>1. n \in 1 .. L /\ n \in 0 .. L /\ n - 1 \in 0 .. L
      BY <1>1, <2>3
    <3> QED BY <1>2, <1>3, <1>4, <2>3, <3>1
  <2> QED BY <2>1, <2>2, <2>3
<1>8. g = Filling(b, t, g)
  BY <1>2, <1>6, <1>7 DEF Filling
<1> QED BY <1>5, <1>8 DEF t, L

------------------------------------------------------------------------------
\* The bursts.

SentInv == \E U : sent \in Seq(U)

\* The counters of the chip are those of the history, and the address is that of
\* the next column.
CountsInv ==
  /\ SentInv
  /\ writeLeft = burstWriteCountQ /\ writeLeft \in 0 .. 7
  /\ readLeft = burstReadCountQ /\ readLeft \in 0 .. 7
  /\ writeLeft = 0 \/ readLeft = 0
  /\ writeLeft > 0 => sent # <<>> /\ NextCell(sent[Len(sent)].cell) = burstAddrQ
  /\ readLeft > 0 => readNext = burstAddrQ

\* The columns sent so far are those in the storage.
FilledInv == \E f : f = Filling(before, sent, f) /\ mem = f[Len(sent)]

HostInv == CountsInv /\ FilledInv

LEMMA SentKept == SentInv /\ sent' = sent => SentInv'
BY DEF SentInv

LEMMA BurstTails == BurstTail \in 0 .. 7 /\ BurstLength = BurstTail + 1
BY DEF BurstTail, BurstLength

\* What a command does to the storage and to the bursts.
LEMMA HostStep ==
  ASSUME CountsInv, NEW p \in HostPins, NEW dq \in HostData, Command(p, dq)
  PROVE  /\ CountsInv'
         /\ memOutEnQ' = (fetched' # {})
         /\ \A c \in fetched' : memRdata' = mem[c]
         /\ \/ before' = mem /\ \E c : sent' = <<c>> /\ mem' = Column1(mem, c)
            \/ before' = before /\ \E c : sent' = Append(sent, c) /\ mem' = Column1(mem, c)
            \/ UNCHANGED <<before, sent, mem>>
<1>0. /\ Allowed(p) /\ RecordWrite(p, dq) /\ RecordRead(p)
      /\ writeLeft = burstWriteCountQ /\ writeLeft \in 0 .. 7
      /\ readLeft = burstReadCountQ /\ readLeft \in 0 .. 7
  BY DEF Command, CountsInv
<1>1. CASE p.cmd \in {"LOAD_MODE", "REFRESH", "ACTIVE", "PRECHARGE"}
  <2>1. writeLeft = 0 /\ readLeft = 0
    BY <1>0, <1>1 DEF Allowed
  <2>2. NoRead /\ UNCHANGED <<burstVars, mem>>
    BY <1>1 DEF Command, MemStep, LoadMode, RefreshRows, ActivateRow, ReadColumn, WriteColumn,
       BurstColumn, Quiet, BurstTerminate, PrechargeRows
  <2>3. /\ UNCHANGED <<before, sent, writeLeft, readLeft, readNext>> /\ fetched' = {}
    BY <1>0, <1>1 DEF RecordWrite, RecordRead
  <2> QED BY <1>0, <2>1, <2>2, <2>3, SentKept DEF CountsInv, NoRead, burstVars
<1>2. CASE p.cmd = "TERMINATE"
  <2>1. NoRead /\ burstReadCountQ' = 0 /\ burstWriteCountQ' = 0 /\ mem' = mem
    BY <1>2 DEF Command, MemStep, LoadMode, RefreshRows, ActivateRow, ReadColumn, WriteColumn,
       BurstColumn, Quiet, BurstTerminate, PrechargeRows
  <2>2. UNCHANGED <<before, sent>> /\ fetched' = {} /\ writeLeft' = 0 /\ readLeft' = 0
    BY <1>0, <1>2 DEF RecordWrite, RecordRead
  <2>3. SentInv'
    BY <2>2, SentKept DEF CountsInv
  <2>4. CountsInv'
    BY <2>1, <2>2, <2>3, Z3 DEF CountsInv
  <2> QED BY <2>1, <2>2, <2>4 DEF NoRead
<1>3. CASE p.cmd = "READ"
  <2>1. writeLeft = 0 /\ readLeft = 0
    BY <1>0, <1>3 DEF Allowed
  <2>2. /\ MemRead(PinCell(p)) /\ burstReadCountQ' = BurstTail
        /\ burstAddrQ' = NextCell(PinCell(p)) /\ UNCHANGED <<burstWriteCountQ, mem>>
    BY <1>3 DEF Command, MemStep, LoadMode, RefreshRows, ActivateRow, ReadColumn, WriteColumn,
       BurstColumn, Quiet, BurstTerminate, PrechargeRows
  <2>3. /\ UNCHANGED <<before, sent, writeLeft>>
        /\ fetched' = {PinCell(p)} /\ readLeft' = BurstLength - 1 /\ readNext' = NextCell(PinCell(p))
    BY <1>0, <1>3 DEF RecordWrite, RecordRead, NextCell
  <2>4. BurstLength - 1 = BurstTail /\ BurstTail \in 0 .. 7
    BY BurstTails
  <2>5. CountsInv'
    <3>1. SentInv'
      BY <2>3, SentKept DEF CountsInv
    <3>2. writeLeft' = 0 /\ burstWriteCountQ' = 0
      BY <1>0, <2>1, <2>2, <2>3
    <3>3. readLeft' = burstReadCountQ' /\ readLeft' \in 0 .. 7 /\ readNext' = burstAddrQ'
      BY <2>2, <2>3, <2>4
    <3> QED BY <3>1, <3>2, <3>3, Z3 DEF CountsInv
  <2> QED BY <2>2, <2>3, <2>5 DEF MemRead
<1>4. CASE p.cmd = "WRITE"
  <2>1. writeLeft = 0 /\ readLeft = 0
    BY <1>0, <1>4 DEF Allowed
  <2> DEFINE c == Column(PinCell(p), p, dq)
  <2>2. /\ mem' = [mem EXCEPT ![PinCell(p)] = MergeHalf(@, dq, p.dqm)] /\ NoRead
        /\ burstWriteCountQ' = IF writeBurstEnQ THEN BurstTail ELSE 0
        /\ burstAddrQ' = NextCell(PinCell(p)) /\ UNCHANGED burstReadCountQ
    BY <1>4 DEF Command, MemStep, LoadMode, RefreshRows, ActivateRow, ReadColumn, WriteColumn,
       BurstColumn, Quiet, BurstTerminate, PrechargeRows, MemWrite
  <2>3. /\ before' = mem /\ sent' = <<c>> /\ fetched' = {} /\ UNCHANGED <<readLeft, readNext>>
        /\ writeLeft' = IF writeBurstEnQ THEN BurstLength - 1 ELSE 0
    BY <1>0, <1>4 DEF RecordWrite, RecordRead
  <2>4. BurstLength - 1 = BurstTail /\ BurstTail \in 0 .. 7
    BY BurstTails
  <2>5. /\ c.cell = PinCell(p) /\ c.dq = dq /\ c.dqm = p.dqm
        /\ mem' = Column1(mem, c)
    BY <2>2 DEF Column, Column1
  <2>6. sent' # <<>> /\ sent'[Len(sent')].cell = PinCell(p) /\ SentInv'
    <3> HIDE DEF c
    <3>1. sent' \in Seq({c})
      BY <2>3
    <3> QED BY <2>3, <2>5, <3>1 DEF SentInv
  <2>7. CountsInv'
    <3>1. readLeft' = 0 /\ burstReadCountQ' = 0
      BY <1>0, <2>1, <2>2, <2>3
    <3>2. writeLeft' = burstWriteCountQ' /\ writeLeft' \in 0 .. 7
      <4>1. CASE writeBurstEnQ
        BY <2>2, <2>3, <2>4, <4>1
      <4>2. CASE ~writeBurstEnQ
        BY <2>2, <2>3, <4>2
      <4> QED BY <4>1, <4>2
    <3>3. NextCell(sent'[Len(sent')].cell) = burstAddrQ'
      BY <2>2, <2>6
    <3>4. NextCell(sent[Len(sent)].cell)' = burstAddrQ'
      BY <3>3 DEF NextCell
    <3> QED BY <2>6, <3>1, <3>2, <3>4, Z3 DEF CountsInv
  <2> HIDE DEF c
  <2> QED BY <2>2, <2>3, <2>5, <2>7 DEF NoRead
<1>5. CASE p.cmd \in {"NOP", "INHIBIT"} /\ writeLeft = 0 /\ readLeft = 0
  <2>1. NoRead /\ UNCHANGED <<burstVars, mem>>
    BY <1>0, <1>5 DEF Command, MemStep, LoadMode, RefreshRows, ActivateRow, ReadColumn, WriteColumn,
       BurstColumn, Quiet, BurstTerminate, PrechargeRows
  <2>2. /\ UNCHANGED <<before, sent, writeLeft, readLeft, readNext>> /\ fetched' = {}
    BY <1>0, <1>5 DEF RecordWrite, RecordRead
  <2> QED BY <1>0, <1>5, <2>1, <2>2, SentKept DEF CountsInv, NoRead, burstVars
<1>6. CASE p.cmd \in {"NOP", "INHIBIT"} /\ writeLeft > 0
  <2>1. p.cmd = "NOP" /\ readLeft = 0
    BY <1>0, <1>6 DEF Allowed, CountsInv
  <2> DEFINE e == NextCell(sent[Len(sent)].cell)
             c == Column(e, p, dq)
  <2>2. e = burstAddrQ /\ sent # <<>>
    BY <1>6 DEF CountsInv
  <2>3. /\ mem' = [mem EXCEPT ![e] = MergeHalf(@, dq, p.dqm)] /\ NoRead
        /\ burstWriteCountQ' = burstWriteCountQ - 1
        /\ burstAddrQ' = NextCell(e) /\ UNCHANGED burstReadCountQ
    <3> HIDE DEF e
    <3> QED BY <1>0, <1>6, <2>1, <2>2 DEF Command, MemStep, LoadMode, RefreshRows, ActivateRow, ReadColumn,
            WriteColumn, BurstColumn, Quiet, BurstTerminate, PrechargeRows, MemWrite
  <2>4. /\ before' = before /\ sent' = Append(sent, c) /\ writeLeft' = writeLeft - 1
        /\ fetched' = {} /\ UNCHANGED <<readLeft, readNext>>
    BY <1>0, <1>6, <2>1 DEF RecordWrite, RecordRead, NextCell
  <2>5. /\ c.cell = e /\ c.dq = dq /\ c.dqm = p.dqm
        /\ mem' = Column1(mem, c)
    BY <2>3 DEF Column, Column1
  <2> HIDE DEF c, e
  <2>6. /\ sent' # <<>> /\ sent'[Len(sent')].cell = e
        /\ SentInv'
    <3>1. PICK U : sent \in Seq(U)
      BY DEF CountsInv, SentInv
    <3>2. sent \in Seq(U \union {c})
      BY <3>1, SeqDef
    <3>3. /\ Len(sent') = Len(sent) + 1 /\ sent'[Len(sent) + 1] = c /\ Len(sent) \in Nat
          /\ sent' \in Seq(U \union {c})
      BY <2>4, <3>2
    <3>4. sent' # <<>>
      BY <3>3
    <3> QED BY <2>5, <3>3, <3>4 DEF SentInv
  <2>7. CountsInv'
    <3>1. NextCell(sent'[Len(sent')].cell) = burstAddrQ'
      BY <2>3, <2>6
    <3>2. NextCell(sent[Len(sent)].cell)' = burstAddrQ'
      BY <3>1 DEF NextCell
    <3>3. writeLeft' = burstWriteCountQ' /\ writeLeft' \in 0 .. 7
      BY <1>0, <1>6, <2>3, <2>4
    <3>4. readLeft' = 0 /\ burstReadCountQ' = 0
      BY <1>0, <2>1, <2>3, <2>4
    <3> QED BY <2>6, <3>2, <3>3, <3>4, Z3 DEF CountsInv
  <2> QED BY <2>3, <2>4, <2>5, <2>7 DEF NoRead
<1>7. CASE p.cmd \in {"NOP", "INHIBIT"} /\ readLeft > 0
  <2>1. p.cmd = "NOP" /\ writeLeft = 0 /\ readNext = burstAddrQ
    BY <1>0, <1>7 DEF Allowed, CountsInv
  <2>2. /\ MemRead(readNext) /\ burstReadCountQ' = burstReadCountQ - 1
        /\ burstAddrQ' = NextCell(readNext) /\ UNCHANGED <<burstWriteCountQ, mem>>
    BY <1>0, <1>7, <2>1 DEF Command, MemStep, LoadMode, RefreshRows, ActivateRow, ReadColumn,
       WriteColumn, BurstColumn, Quiet, BurstTerminate, PrechargeRows
  <2>3. /\ UNCHANGED <<before, sent, writeLeft>> /\ fetched' = {readNext}
        /\ readLeft' = readLeft - 1 /\ readNext' = NextCell(readNext)
    BY <1>0, <1>7, <2>1 DEF RecordWrite, RecordRead, NextCell
  <2>4. readLeft' = burstReadCountQ' /\ readLeft' \in 0 .. 7
    BY <1>0, <1>7, <2>2, <2>3
  <2>5. CountsInv'
    <3>1. SentInv'
      BY <2>3, SentKept DEF CountsInv
    <3>2. writeLeft' = 0 /\ burstWriteCountQ' = 0
      BY <1>0, <2>1, <2>2, <2>3
    <3>3. readNext' = burstAddrQ'
      BY <2>2, <2>3
    <3> QED BY <2>4, <3>1, <3>2, <3>3, Z3 DEF CountsInv
  <2> QED BY <2>2, <2>3, <2>5 DEF MemRead
<1>8. p.cmd \in {"LOAD_MODE", "REFRESH", "ACTIVE", "PRECHARGE", "TERMINATE", "READ", "WRITE", "NOP", "INHIBIT"}
  BY DEF Command, MemStep, LoadMode, RefreshRows, ActivateRow, ReadColumn, WriteColumn,
     BurstColumn, Quiet, BurstTerminate, PrechargeRows
<1>9. writeLeft > 0 \/ readLeft > 0 \/ (writeLeft = 0 /\ readLeft = 0)
  BY <1>0
<1> QED BY <1>1, <1>2, <1>3, <1>4, <1>5, <1>6, <1>7, <1>8, <1>9

LEMMA HostStart == HostInit => HostInv
<1> SUFFICES ASSUME HostInit PROVE HostInv
  OBVIOUS
<1>1. /\ before = mem /\ sent = <<>> /\ writeLeft = 0 /\ readLeft = 0
      /\ burstReadCountQ = 0 /\ burstWriteCountQ = 0
  BY DEF HostInit, MemInit
<1>2. Len(sent) = 0 /\ sent \in Seq({})
  BY <1>1
<1>3. CountsInv
  BY <1>1, <1>2 DEF CountsInv, SentInv
<1>4. FilledInv
  <2> DEFINE f == [n \in 0 .. 0 |-> before]
  <2>1. f = Filling(before, sent, f)
    BY <1>2 DEF Filling
  <2>2. mem = f[Len(sent)]
    BY <1>1, <1>2
  <2> QED BY <2>1, <2>2 DEF FilledInv
<1> QED BY <1>3, <1>4 DEF HostInv

LEMMA FilledStep ==
  ASSUME HostInv, NEW p \in HostPins, NEW dq \in HostData, Command(p, dq)
  PROVE  FilledInv'
<1>1. \/ before' = mem /\ \E c : sent' = <<c>> /\ mem' = Column1(mem, c)
      \/ before' = before /\ \E c : sent' = Append(sent, c) /\ mem' = Column1(mem, c)
      \/ UNCHANGED <<before, sent, mem>>
  BY HostStep DEF HostInv
<1>2. ASSUME NEW c, before' = mem, sent' = <<c>>, mem' = Column1(mem, c)
      PROVE  FilledInv'
  <2> DEFINE f == [n \in 0 .. 0 |-> mem]
  <2>1. <<>> \in Seq({}) /\ Len(<<>>) = 0 /\ sent' = Append(<<>>, c) /\ Len(sent') = 1
    BY <1>2
  <2>2. f = Filling(mem, <<>>, f) /\ f[0] = mem
    BY <2>1 DEF Filling
  <2> HIDE DEF f
  <2>3. PICK g : /\ g = Filling(mem, Append(<<>>, c), g)
                 /\ g[Len(<<>>) + 1] = Column1(f[Len(<<>>)], c)
    <3> DEFINE none == <<>>
    <3>1. none \in Seq({}) /\ f = Filling(mem, none, f)
      BY <2>1, <2>2
    <3> HIDE DEF none
    <3> SUFFICES \E g : /\ g = Filling(mem, Append(none, c), g)
                        /\ g[Len(none) + 1] = Column1(f[Len(none)], c)
      BY Zenon DEF none
    <3> QED BY <3>1, FillingGrows
  <2> QED BY <1>2, <2>1, <2>2, <2>3 DEF FilledInv
<1>3. ASSUME NEW c, before' = before, sent' = Append(sent, c), mem' = Column1(mem, c)
      PROVE  FilledInv'
  <2>1. PICK U : sent \in Seq(U)
    BY DEF HostInv, CountsInv, SentInv
  <2>2. PICK f : f = Filling(before, sent, f) /\ mem = f[Len(sent)]
    BY DEF HostInv, FilledInv
  <2>3. PICK g : g = Filling(before, Append(sent, c), g) /\ g[Len(sent) + 1] = Column1(f[Len(sent)], c)
    BY <2>1, <2>2, FillingGrows
  <2>4. Len(sent') = Len(sent) + 1
    <3>1. sent \in Seq(U \union {c})
      BY <2>1, SeqDef
    <3> QED BY <1>3, <3>1
  <2> QED BY <1>3, <2>2, <2>3, <2>4 DEF FilledInv
<1>4. CASE UNCHANGED <<before, sent, mem>>
  BY <1>4 DEF HostInv, FilledInv
<1> QED BY <1>1, <1>2, <1>3, <1>4

LEMMA HostNextInv == ASSUME HostInv, [HostNext]_hostVars PROVE HostInv'
<1>1. CASE UNCHANGED hostVars
  <2>1. UNCHANGED <<before, sent, writeLeft, readLeft, readNext, mem, burstReadCountQ, burstWriteCountQ, burstAddrQ>>
    BY <1>1 DEF hostVars, historyVars, memVars, burstVars
  <2> QED BY <2>1 DEF HostInv, CountsInv, SentInv, FilledInv
<1>2. ASSUME NEW p \in HostPins, NEW dq \in HostData, Command(p, dq)
      PROVE  HostInv'
  BY <1>2, HostStep, FilledStep DEF HostInv
<1> QED BY <1>1, <1>2 DEF HostNext

\* The inductive invariant of the chip alone: at most one burst is under way, the
\* chip's counter and address are those of what is left of it, and the columns sent
\* so far fill the storage, in their order.
THEOREM AlwaysHostInv == HostSpec => []HostInv
<1>1. HostInv /\ [HostNext]_hostVars => HostInv'
  BY HostNextInv
<1> QED BY <1>1, HostStart, PTL DEF HostSpec

\* In every mode of the mode register a write burst fills the columns of its burst
\* in turn, as far as it gets, and nothing else ever touches the storage.
THEOREM BurstsAlwaysStored == HostSpec => []BurstsStored
<1>1. HostInv => BurstsStored
  <2> SUFFICES ASSUME HostInv PROVE BurstsStored
    OBVIOUS
  <2>1. PICK f : f = Filling(before, sent, f) /\ mem = f[Len(sent)]
    BY DEF HostInv, FilledInv
  <2>2. PICK g : g = Filling(before, sent, g) /\ Stored = g
    BY <2>1, StoredIsFilling
  <2>3. Len(sent) \in Nat
    BY DEF HostInv, CountsInv, SentInv
  <2>4. f = g
    BY <2>1, <2>2, <2>3, OneFilling
  <2> QED BY <2>1, <2>2, <2>4 DEF BurstsStored
<1> QED BY <1>1, AlwaysHostInv, PTL

\* The chip drives the data pins in the cycle after each column of a read burst,
\* with the half-word of that column, and in no other cycle.
THEOREM BurstsAlwaysFetched == HostSpec => BurstsFetched
<1> DEFINE Fetch == memOutEnQ' = (fetched' # {}) /\ \A c \in fetched' : memRdata' = mem[c]
<1>1. HostInv /\ [HostNext]_hostVars => [Fetch]_hostVars
  <2>1. ASSUME HostInv, NEW p \in HostPins, NEW dq \in HostData, Command(p, dq)
        PROVE  Fetch
    BY <2>1, HostStep DEF HostInv
  <2> QED BY <2>1 DEF HostNext
<1> QED BY <1>1, AlwaysHostInv, PTL DEF HostSpec, BurstsFetched

==============================================================================
