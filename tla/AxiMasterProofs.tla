--------------------------- MODULE AxiMasterProofs ---------------------------
(***************************************************************************)
(* Proofs about the AXI front end and its master, whatever controllers      *)
(* accept and acknowledge its requests, for every address space, every set  *)
(* of bursts and every word.                                                *)
(***************************************************************************)
EXTENDS AxiMaster, TLAPS

LEMMA Division ==
  ASSUME NEW n \in Nat \ {0}
  PROVE  /\ \A a \in Int : a % n \in 0 .. n - 1
         /\ \A a \in Nat : a \div n \in Nat /\ a = n * (a \div n) + (a % n)
         /\ \A q \in Int, r \in 0 .. n - 1 : (n * q + r) \div n = q /\ (n * q + r) % n = r
OBVIOUS

------------------------------------------------------------------------------
\* calculateAddrNext leads from each beat of a burst to the next, for every burst
\* AXI allows and every address space.

LEMMA ModSuccessor ==
  ASSUME NEW n \in Nat \ {0}, NEW x \in Nat
  PROVE  ((x % n) + 1) % n = (x + 1) % n
<1> DEFINE r == x % n
           d == x \div n
<1>1. r \in 0 .. n - 1 /\ d \in Nat /\ x = n * d + r
  OBVIOUS
<1>2. CASE r + 1 < n
  <2>1. (n * d + (r + 1)) % n = r + 1
    BY <1>1, <1>2
  <2> QED BY <1>1, <1>2, <2>1
<1>3. CASE r + 1 = n
  <2>1. (n * (d + 1)) % n = 0
    BY <1>1
  <2> QED BY <1>1, <1>3, <2>1
<1> QED BY <1>1, <1>2, <1>3

LEMMA WordPlus4 ==
  ASSUME NEW a \in Addrs
  PROVE  WordOf(AddrPlus4(a)) = (WordOf(a) + 1) % (AddrSpace \div 4)
BY AddrSpaceAssumption DEF WordOf, AddrPlus4, Addrs

\* The next word of a block of n words, n dividing the address space.
LEMMA WrapStep ==
  ASSUME NEW n \in {1, 2, 4, 8, 16}, NEW a \in Addrs, NEW first \in Nat, NEW k \in Nat,
         WordOf(a) = (first - (first % n)) + (((first % n) + k) % n)
  PROVE  WordOf((a - (a % (4 * n))) + (AddrPlus4(a) % (4 * n)))
           = (first - (first % n)) + (((first % n) + (k + 1)) % n)
<1> DEFINE low == first - (first % n)
           x   == (first % n) + k
<1>1. x \in Nat /\ low \in Nat /\ low % n = 0 /\ n \in Nat \ {0}
  OBVIOUS
<1>3. x % n \in 0 .. n - 1
  BY <1>1
<1> HIDE DEF low, x
<1>2. ((x % n) + 1) % n = (x + 1) % n
  BY <1>1, ModSuccessor
<1>4. WordOf(a) = low + (x % n)
  BY DEF low, x
<1>5. WordOf((a - (a % (4 * n))) + (AddrPlus4(a) % (4 * n))) = low + (((x % n) + 1) % n)
  <2> DEFINE y == x % n
  <2> HIDE DEF y
  <2>1. a \in Nat /\ y \in 0 .. n - 1 /\ a \div 4 = low + y /\ low \in Nat /\ low % n = 0
    BY <1>1, <1>3, <1>4 DEF y, WordOf, Addrs
  <2>2. AddrPlus4(a) % (4 * n) = (a + 4) % (4 * n)
    <3>1. AddrSpace % (4 * n) = 0 /\ AddrSpace \in Nat \ {0}
      BY AddrSpaceAssumption
    <3>2. AddrPlus4(a) = a + 4 \/ AddrPlus4(a) = a + 4 - AddrSpace
      BY <3>1 DEF AddrPlus4, Addrs
    <3> QED BY <3>1, <3>2 DEF Addrs
  <2>3. ((a - (a % (4 * n))) + ((a + 4) % (4 * n))) \div 4 = low + ((y + 1) % n)
    <3>1. CASE n = 1
      BY <2>1, <3>1
    <3>2. CASE n = 2
      BY <2>1, <3>2
    <3>3. CASE n = 4
      BY <2>1, <3>3
    <3>4. CASE n = 8
      BY <2>1, <3>4
    <3>5. CASE n = 16
      BY <2>1, <3>5
    <3> QED BY <3>1, <3>2, <3>3, <3>4, <3>5
  <2> QED BY <2>2, <2>3 DEF WordOf, y
<1> QED BY <1>1, <1>2, <1>5 DEF low, x

\* One step of calculateAddrNext takes the k-th beat's word to the next one's.
LEMMA NextBeat ==
  ASSUME NEW a \in Addrs, NEW first \in Addrs, NEW type \in 0 .. 3, NEW len \in 0 .. 255,
         NEW k \in Nat, type = WRAP => len \in WrapLens,
         WordOf(a) = BeatWord(first, type, len, k)
  PROVE  WordOf(NextAddr(a, type, len)) = BeatWord(first, type, len, k + 1)
<1>1. CASE type = FIXED
  BY <1>1 DEF BeatWord, NextAddr, FIXED, WRAP
<1>2. CASE type = WRAP
  <2> DEFINE n == len + 1
  <2>1. n \in {1, 2, 4, 8, 16} /\ WrapSpan(len) = 4 * n
    BY <1>2 DEF WrapLens, WrapSpan
  <2>2. WordOf(first) \in Nat
    BY DEF WordOf, Addrs
  <2>3. \A j \in Nat : BeatWord(first, type, len, j)
          = (WordOf(first) - (WordOf(first) % n)) + (((WordOf(first) % n) + j) % n)
    BY <1>2, <2>1, <2>2 DEF BeatWord, FIXED, WRAP
  <2>4. NextAddr(a, type, len) = (a - (a % (4 * n))) + (AddrPlus4(a) % (4 * n))
    BY <1>2, <2>1 DEF NextAddr, FIXED, WRAP
  <2> DEFINE v == WordOf(first)
  <2> HIDE DEF n, v
  <2>5. WordOf(a) = (v - (v % n)) + (((v % n) + k) % n)
    BY <2>3 DEF v
  <2>6. WordOf((a - (a % (4 * n))) + (AddrPlus4(a) % (4 * n)))
          = (v - (v % n)) + (((v % n) + (k + 1)) % n)
    BY <2>1, <2>2, <2>5, WrapStep DEF v
  <2>7. BeatWord(first, type, len, k + 1) = (v - (v % n)) + (((v % n) + (k + 1)) % n)
    BY <2>3 DEF v
  <2> QED BY <2>4, <2>6, <2>7
<1>3. CASE type # FIXED /\ type # WRAP
  <2> DEFINE N == AddrSpace \div 4
  <2>1. N \in Nat \ {0} /\ WordOf(first) + k \in Nat
    BY AddrSpaceAssumption DEF WordOf, Addrs
  <2>2. NextAddr(a, type, len) = AddrPlus4(a)
    BY <1>3 DEF NextAddr
  <2>3. \A j \in Nat : BeatWord(first, type, len, j) = (WordOf(first) + j) % N
    BY <1>3 DEF BeatWord
  <2>4. WordOf(AddrPlus4(a)) = (WordOf(a) + 1) % N
    BY WordPlus4
  <2> HIDE DEF N
  <2>5. WordOf(a) = (WordOf(first) + k) % N
    BY <2>3
  <2>6. BeatWord(first, type, len, k + 1) = (WordOf(first) + k + 1) % N
    <3>1. WordOf(first) \in Nat
      BY DEF WordOf, Addrs
    <3> QED BY <2>3, <3>1
  <2> QED BY <2>1, <2>2, <2>4, <2>5, <2>6, ModSuccessor
<1> QED BY <1>1, <1>2, <1>3

------------------------------------------------------------------------------
\* The front end and its master.

\* The step of a burst stays in the address space: the blocks a burst wraps in
\* divide it.
LEMMA NextAddrInSpace ==
  ASSUME NEW a \in Addrs, NEW type \in 0 .. 3, NEW len \in 0 .. 255
  PROVE  NextAddr(a, type, len) \in Addrs
<1>1. AddrPlus4(a) \in Addrs
  BY AddrSpaceAssumption DEF AddrPlus4, Addrs
<1>2. WrapSpan(len) \in {1, 4, 8, 16, 32, 64}
  BY DEF WrapSpan, WrapLens
<1>3. ASSUME NEW s \in {1, 4, 8, 16, 32, 64}, NEW b \in Addrs
      PROVE  (a - (a % s)) + (b % s) \in Addrs
  <2>1. CASE s = 1
    BY <2>1 DEF Addrs
  <2>2. CASE s = 4
    BY <2>2, AddrSpaceAssumption DEF Addrs
  <2>3. CASE s = 8
    BY <2>3, AddrSpaceAssumption DEF Addrs
  <2>4. CASE s = 16
    BY <2>4, AddrSpaceAssumption DEF Addrs
  <2>5. CASE s = 32
    BY <2>5, AddrSpaceAssumption DEF Addrs
  <2>6. CASE s = 64
    BY <2>6, AddrSpaceAssumption DEF Addrs
  <2> QED BY <1>3, <2>1, <2>2, <2>3, <2>4, <2>5, <2>6
<1> QED BY <1>1, <1>2, <1>3 DEF NextAddr

LEMMA AtMostFour == \A n \in Nat : n <= 4 => n \in 0 .. 4
OBVIOUS

LEMMA HeadType ==
  ASSUME NEW S, NEW q \in Seq(S), q # <<>>
  PROVE  Head(q) \in S
OBVIOUS

\* What the master has put on its channels.
MasterTypeOK ==
  /\ ar \in SUBSET ReadBursts
  /\ aw \in SUBSET WriteBursts
  /\ w \in SUBSET Beats

LEMMA BurstTypes ==
  \A b \in ReadBursts \union WriteBursts :
    b.addr \in Addrs /\ b.type \in 0 .. 3 /\ b.len \in 0 .. 255
BY MasterAssumption

\* The front end begins typed, with every read accounted for.
LEMMA FrontEndStart == PmemInit /\ MasterInit => PmemTypeOK /\ ReadsAccounted /\ MasterTypeOK
<1> SUFFICES ASSUME PmemInit, MasterInit PROVE PmemTypeOK /\ ReadsAccounted /\ MasterTypeOK
  OBVIOUS
<1>1. 0 \in Addrs
  BY AddrSpaceAssumption DEF Addrs
<1>2. PmemTypeOK
  BY <1>1 DEF PmemInit, PmemTypeOK, FIXED, QUEUE_DEPTH
<1>3. ReadsAccounted
  BY DEF PmemInit, ReadsAccounted, QUEUE_DEPTH
<1> QED BY <1>2, <1>3 DEF MasterInit, MasterTypeOK

------------------------------------------------------------------------------
\* One step, with any answers of the controllers.

LEMMA MasterStep ==
  ASSUME MasterTypeOK, NEW axi \in AxiInputs, MasterReads(axi), MasterWrites(axi)
  PROVE  MasterTypeOK'
<1>1. ar' \in SUBSET ReadBursts
  BY DEF MasterTypeOK, MasterReads, MaybeOne
<1>2. aw' \in SUBSET WriteBursts
  BY DEF MasterTypeOK, MasterWrites, MaybeOne
<1>3. w' \in SUBSET Beats
  BY DEF MasterTypeOK, MasterWrites, MaybeOne
<1> QED BY <1>1, <1>2, <1>3 DEF MasterTypeOK

\* The bookkeeping of the reads: what each counter and the queue gain and lose.
LEMMA ReadCounters ==
  ASSUME PmemTypeOK, ReadsAccounted,
         NEW axi \in AxiInputs, NEW accept \in BOOLEAN, NEW ack \in BOOLEAN, NEW data \in Word,
         Counters(axi, accept, ack), ReadQueue(axi, ack, data)
  PROVE  /\ rDataQ' \in Seq(Word)
         /\ rAckPending' = rAckPending + One(grantRead /\ accept) - One(ackToRead(ack))
         /\ rOutstanding' = rOutstanding + One(grantRead /\ accept) - One(RFire(axi))
         /\ Len(rDataQ') = Len(rDataQ) + One(ackToRead(ack)) - One(RFire(axi))
         /\ wAckPending' \in 0 .. 15
<1> USE DEF QUEUE_DEPTH
<1>1. /\ rAckPending \in 0 .. 15 /\ wAckPending \in 0 .. 15 /\ rOutstanding \in 0 .. 4
      /\ rDataQ \in Seq(Word) /\ Len(rDataQ) \in 0 .. 4
      /\ rOutstanding = rAckPending + Len(rDataQ)
  <2>1. /\ rAckPending \in 0 .. 15 /\ wAckPending \in 0 .. 15 /\ rOutstanding \in 0 .. 15
        /\ rDataQ \in Seq(Word)
    BY DEF PmemTypeOK
  <2>2. rOutstanding = rAckPending + Len(rDataQ) /\ rOutstanding <= 4
    BY DEF ReadsAccounted
  <2>3. Len(rDataQ) \in Nat
    BY <2>1
  <2>4. Len(rDataQ) \in 0 .. 4
    <3>1. Len(rDataQ) <= 4
      BY DEF PmemTypeOK
    <3> QED BY <2>3, <3>1, AtMostFour
  <2>5. rOutstanding \in 0 .. 4
    BY <2>1, <2>2
  <2> QED BY <2>1, <2>2, <2>4, <2>5
<1>2. grantRead => rOutstanding < 4
  BY DEF grantRead, ReadAsks, rReqRam
<1>3. ackToRead(ack) => rAckPending > 0
  BY DEF ackToRead
<1>4. RFire(axi) => Len(rDataQ) > 0
  BY <1>1 DEF RFire, RValid
<1>5. \A b \in BOOLEAN : One(b) \in 0 .. 1 /\ (One(b) = 1 <=> b)
  BY DEF One
<1>6. rAckPending' = rAckPending + One(grantRead /\ accept) - One(ackToRead(ack))
  BY <1>1, <1>2, <1>3 DEF Counters, One
<1>7. rOutstanding' = rOutstanding + One(grantRead /\ accept) - One(RFire(axi))
  BY <1>1, <1>2, <1>4 DEF Counters, One
<1>8. wAckPending' \in 0 .. 15
  BY <1>1 DEF Counters, One
<1> DEFINE kept == IF RFire(axi) THEN Tail(rDataQ) ELSE rDataQ
<1>9. kept \in Seq(Word) /\ Len(kept) = Len(rDataQ) - One(RFire(axi))
  BY <1>1, <1>4 DEF One
<1>10. rDataQ' = IF ackToRead(ack) THEN Append(kept, data) ELSE kept
  BY <1>1, <1>3 DEF ReadQueue
<1> HIDE DEF kept
<1>11. rDataQ' \in Seq(Word) /\ Len(rDataQ') = Len(kept) + One(ackToRead(ack))
  <2>1. CASE ackToRead(ack)
    BY <1>9, <1>10, <2>1 DEF One
  <2>2. CASE ~ackToRead(ack)
    <3>1. rDataQ' = kept /\ One(ackToRead(ack)) = 0
      BY <1>10, <2>2 DEF One
    <3>2. Len(kept) \in Nat
      BY <1>9
    <3> QED BY <1>9, <3>1, <3>2
  <2> QED BY <2>1, <2>2
<1>12. Len(rDataQ') = Len(rDataQ) + One(ackToRead(ack)) - One(RFire(axi))
  <2>1. One(ackToRead(ack)) \in 0 .. 1 /\ One(RFire(axi)) \in 0 .. 1
    BY DEF One
  <2> QED BY <1>1, <1>9, <1>11, <2>1
<1> QED BY <1>6, <1>7, <1>8, <1>11, <1>12

LEMMA ReadTypesStep ==
  ASSUME PmemTypeOK, MasterTypeOK,
         NEW axi \in AxiInputs, NEW accept \in BOOLEAN, ReadFsm(axi, accept)
  PROVE  /\ rState' \in {"rIdle", "rBurst"}
         /\ rAddr' \in Addrs
         /\ rBurst' \in [type : 0 .. 3, len : 0 .. 255]
         /\ rReqCnt' \in 0 .. 255 /\ rRespCnt' \in 0 .. 255
         /\ rAllReqsSent' \in BOOLEAN
<1> USE DEF PmemTypeOK
<1>1. CASE ReadIdle(axi)
  BY <1>1 DEF ReadIdle, readVars
<1>2. CASE ReadStart(axi)
  <2>1. PICK b \in axi.ar :
          /\ rAddr' = b.addr
          /\ rBurst' = [type |-> b.type, len |-> b.len]
          /\ rReqCnt' = b.len /\ rRespCnt' = b.len
    BY <1>2 DEF ReadStart
  <2>2. b \in ReadBursts
    BY <2>1 DEF AxiInputs, MasterTypeOK
  <2>3. b.addr \in Addrs /\ b.type \in 0 .. 3 /\ b.len \in 0 .. 255
    BY <2>2, BurstTypes
  <2>4. rAllReqsSent' = FALSE /\ rState' = "rBurst"
    BY <1>2 DEF ReadStart
  <2> QED BY <2>1, <2>3, <2>4
<1>3. CASE ReadBurst(axi, accept)
  <2> HIDE DEF PmemTypeOK
  <2>0. /\ rAllReqsSent \in BOOLEAN /\ rReqCnt \in 0 .. 255
        /\ rState \in {"rIdle", "rBurst"} /\ rRespCnt \in 0 .. 255
    BY DEF PmemTypeOK
  <2>1. rAllReqsSent' \in BOOLEAN /\ rReqCnt' \in 0 .. 255
    <3>1. rAllReqsSent' = rAllReqsSent \/ rAllReqsSent' = TRUE
      BY <1>3, Zenon DEF ReadBurst, ReadRequest
    <3>2. rAllReqsSent' \in BOOLEAN
      BY <2>0, <3>1, Zenon
    <3>3. rReqCnt' = rReqCnt \/ (rReqCnt > 0 /\ rReqCnt' = rReqCnt - 1)
      BY <1>3, Zenon DEF ReadBurst, ReadRequest
    <3> QED BY <2>0, <3>2, <3>3
  <2>2. rState' \in {"rIdle", "rBurst"} /\ rRespCnt' \in 0 .. 255
    BY <1>3, <2>0 DEF ReadBurst, ReadReturn
  <2> USE DEF PmemTypeOK
  <2>3. rBurst' \in [type : 0 .. 3, len : 0 .. 255]
    BY <1>3 DEF ReadBurst
  <2>4. rAddr' \in Addrs
    <3>1. NextAddr(rAddr, rBurst.type, rBurst.len) \in Addrs
      BY NextAddrInSpace
    <3> QED BY <1>3, <3>1 DEF ReadBurst, ReadRequest
  <2> QED BY <2>1, <2>2, <2>3, <2>4
<1> QED BY <1>1, <1>2, <1>3 DEF ReadFsm

LEMMA WriteTypesStep ==
  ASSUME PmemTypeOK, MasterTypeOK,
         NEW axi \in AxiInputs, NEW accept \in BOOLEAN, WriteFsm(axi, accept)
  PROVE  /\ wState' \in {"wIdle", "wBurst", "wResp"}
         /\ wAddr' \in Addrs
         /\ wBurst' \in [type : 0 .. 3, len : 0 .. 255]
         /\ wReqCnt' \in 0 .. 255
         /\ wAllReqsSent' \in BOOLEAN
<1> USE DEF PmemTypeOK
<1>1. CASE WriteIdle(axi)
  BY <1>1 DEF WriteIdle, writeVars
<1>2. CASE WriteStart(axi)
  <2>1. PICK b \in axi.aw :
          /\ wAddr' = b.addr
          /\ wBurst' = [type |-> b.type, len |-> b.len]
          /\ wReqCnt' = b.len
    BY <1>2 DEF WriteStart
  <2>2. b \in WriteBursts
    BY <2>1 DEF AxiInputs, MasterTypeOK
  <2>3. b.addr \in Addrs /\ b.type \in 0 .. 3 /\ b.len \in 0 .. 255
    BY <2>2, BurstTypes
  <2>4. wAllReqsSent' = FALSE /\ wState' = "wBurst"
    BY <1>2 DEF WriteStart
  <2> QED BY <2>1, <2>3, <2>4
<1>3. CASE WriteBurst(axi, accept)
  <2> HIDE DEF PmemTypeOK
  <2>0. wAllReqsSent \in BOOLEAN /\ wReqCnt \in 0 .. 255
    BY DEF PmemTypeOK
  <2>1. wAllReqsSent' \in BOOLEAN /\ wReqCnt' \in 0 .. 255
    <3>1. wAllReqsSent' = wAllReqsSent \/ wAllReqsSent' = TRUE
      BY <1>3, Zenon DEF WriteBurst, WriteRequest
    <3>2. wAllReqsSent' \in BOOLEAN
      BY <2>0, <3>1, Zenon
    <3>3. wReqCnt' = wReqCnt \/ (wReqCnt > 0 /\ wReqCnt' = wReqCnt - 1)
      BY <1>3, Zenon DEF WriteBurst, WriteRequest
    <3> QED BY <2>0, <3>2, <3>3
  <2> USE DEF PmemTypeOK
  <2>2. wState' \in {"wIdle", "wBurst", "wResp"}
    BY <1>3 DEF WriteBurst
  <2>3. wBurst' \in [type : 0 .. 3, len : 0 .. 255]
    BY <1>3 DEF WriteBurst
  <2>4. wAddr' \in Addrs
    <3>1. NextAddr(wAddr, wBurst.type, wBurst.len) \in Addrs
      BY NextAddrInSpace
    <3> QED BY <1>3, <3>1 DEF WriteBurst, WriteRequest
  <2> QED BY <2>1, <2>2, <2>3, <2>4
<1>4. CASE WriteResp(axi)
  BY <1>4 DEF WriteResp
<1> QED BY <1>1, <1>2, <1>3, <1>4 DEF WriteFsm

\* A beat enters the write queue only when there is room, and leaves it only
\* when there is one.
LEMMA WriteQueueStep ==
  ASSUME PmemTypeOK, MasterTypeOK,
         NEW axi \in AxiInputs, NEW accept \in BOOLEAN, WriteQueue(axi, accept)
  PROVE  /\ wDataQueue' \in Seq(Beats)
         /\ Len(wDataQueue') <= QUEUE_DEPTH
<1> DEFINE kept == IF grantWrite /\ accept THEN Tail(wDataQueue) ELSE wDataQueue
<1>1. wDataQueue \in Seq(Beats) /\ Len(wDataQueue) <= 4
  BY DEF PmemTypeOK, QUEUE_DEPTH
<1>2. grantWrite => wDataQueue # <<>>
  BY DEF grantWrite, WriteAsks, wReqRam
<1>3. kept \in Seq(Beats) /\ Len(kept) <= Len(wDataQueue)
  BY <1>1, <1>2
<1>4. CASE ~WFire(axi)
  <2>1. wDataQueue' = kept
    BY <1>4 DEF WriteQueue
  <2>2. Len(kept) \in Nat /\ Len(wDataQueue) \in Nat
    BY <1>1, <1>3
  <2> QED BY <1>1, <1>3, <2>1, <2>2 DEF QUEUE_DEPTH
<1>5. CASE WFire(axi)
  <2>1. PICK beat \in axi.w : wDataQueue' = Append(kept, beat)
    BY <1>5 DEF WriteQueue
  <2>2. beat \in Beats
    BY <2>1 DEF AxiInputs, MasterTypeOK
  <2>3. Len(wDataQueue) < 4
    BY <1>5 DEF WFire, WReady, QUEUE_DEPTH
  <2> HIDE DEF kept
  <2>4. wDataQueue' \in Seq(Beats) /\ Len(wDataQueue') = Len(kept) + 1
    BY <1>3, <2>1, <2>2
  <2>5. Len(kept) \in Nat /\ Len(wDataQueue) \in Nat
    BY <1>1, <1>3
  <2> QED BY <1>3, <2>3, <2>4, <2>5 DEF QUEUE_DEPTH
<1> QED BY <1>4, <1>5

\* A burst of reads is over when its last word is returned: then nothing is
\* asked for, owed or held any more.
LEMMA ReadsAccountedStep ==
  ASSUME PmemTypeOK, ReadsAccounted, MasterTypeOK,
         NEW axi \in AxiInputs, NEW accept \in BOOLEAN, NEW ack \in BOOLEAN, NEW data \in Word,
         PmemStep(axi, accept, ack, data)
  PROVE  ReadsAccounted'
<1> DEFINE asked    == One(grantRead /\ accept)
           returned == One(RFire(axi))
           acked    == One(ackToRead(ack))
           toAsk    == IF rAllReqsSent THEN 0 ELSE rReqCnt + 1
<1>1. /\ rAckPending' = rAckPending + asked - acked
      /\ rOutstanding' = rOutstanding + asked - returned
      /\ Len(rDataQ') = Len(rDataQ) + acked - returned
      /\ rDataQ' \in Seq(Word)
  BY ReadCounters DEF PmemStep
<1>2. /\ rAckPending \in Nat /\ rOutstanding \in Nat /\ Len(rDataQ) \in Nat
      /\ rReqCnt \in Nat /\ rRespCnt \in Nat /\ rAllReqsSent \in BOOLEAN
      /\ rDataQ \in Seq(Word)
  <2>1. rDataQ \in Seq(Word)
    BY DEF PmemTypeOK
  <2> QED BY <2>1 DEF PmemTypeOK
<1>3. /\ rOutstanding = rAckPending + Len(rDataQ)
      /\ rOutstanding <= 4
      /\ rState = "rIdle" => rOutstanding = 0
      /\ rState = "rBurst" => rRespCnt + 1 = rOutstanding + toAsk
  BY DEF ReadsAccounted, QUEUE_DEPTH
<1>4. asked \in 0 .. 1 /\ returned \in 0 .. 1 /\ acked \in 0 .. 1
  BY DEF One
<1>5. asked = 1 => rState = "rBurst" /\ ~rAllReqsSent /\ rOutstanding < 4
  BY DEF One, grantRead, ReadAsks, rReqRam, QUEUE_DEPTH
<1>6. returned = 1 => rState = "rBurst" /\ rDataQ # <<>>
  BY DEF One, RFire, RValid
<1>7. rDataQ # <<>> => Len(rDataQ) > 0
  BY <1>2
<1>8. /\ asked = 1 <=> (grantRead /\ accept)
      /\ returned = 1 <=> RFire(axi)
  BY DEF One
<1> DEFINE len  == Len(rDataQ)
           lenp == Len(rDataQ')
<1>9. ReadFsm(axi, accept)
  BY DEF PmemStep
<1> HIDE DEF asked, returned, acked, len, lenp
<1>10. rOutstanding' = rAckPending' + lenp
  <2>1. lenp = len + acked - returned /\ rOutstanding = rAckPending + len /\ len \in Nat
    BY <1>1, <1>2, <1>3 DEF len, lenp
  <2> QED BY <1>1, <1>2, <1>4, <2>1
<1>11. rOutstanding' <= 4
  BY <1>1, <1>2, <1>3, <1>4, <1>5
<1>12. /\ rState' = "rIdle" => rOutstanding' = 0
       /\ rState' = "rBurst" =>
            rRespCnt' + 1 = rOutstanding' + (IF rAllReqsSent' THEN 0 ELSE rReqCnt' + 1)
  <2>1. CASE ReadIdle(axi)
    <3>1. rState = "rIdle" /\ rState' = rState
      BY <2>1 DEF ReadIdle, readVars
    <3> QED BY <1>1, <1>2, <1>3, <1>4, <1>5, <1>6, <3>1
  <2>2. CASE ReadStart(axi)
    <3>1. PICK b \in axi.ar : rReqCnt' = b.len /\ rRespCnt' = b.len
      BY <2>2 DEF ReadStart
    <3>2. b.len \in 0 .. 255
      BY <3>1, BurstTypes DEF AxiInputs, MasterTypeOK
    <3>3. rState = "rIdle" /\ rState' = "rBurst" /\ rAllReqsSent' = FALSE
      BY <2>2 DEF ReadStart
    <3>4. rOutstanding' = 0
      BY <1>1, <1>2, <1>3, <1>4, <1>5, <1>6, <3>3
    <3> QED BY <3>1, <3>2, <3>3, <3>4
  <2>3. CASE ReadBurst(axi, accept)
    <3>1. rState = "rBurst" /\ rRespCnt + 1 = rOutstanding + toAsk
      BY <1>3, <2>3 DEF ReadBurst
    <3> DEFINE toAskp == IF rAllReqsSent' THEN 0 ELSE rReqCnt' + 1
    <3>2. toAskp = toAsk - asked
      BY <1>2, <1>4, <1>5, <1>8, <2>3 DEF ReadBurst, ReadRequest
    <3>3. /\ returned = 0 => rState' = rState /\ rRespCnt' = rRespCnt
          /\ returned = 1 /\ rRespCnt = 0 => rState' = "rIdle"
          /\ returned = 1 /\ rRespCnt > 0 => rState' = rState /\ rRespCnt' = rRespCnt - 1
      BY <1>2, <1>8, <2>3 DEF ReadBurst, ReadReturn
    <3>4. toAsk \in Nat
      BY <1>2
    <3>5. returned = 1 => rOutstanding > 0
      <4>1. returned = 1 => len > 0
        BY <1>6, <1>7 DEF len
      <4>2. rOutstanding = rAckPending + len /\ len \in Nat
        BY <1>2, <1>3 DEF len
      <4> QED BY <1>2, <4>1, <4>2
    <3>6. asked = 1 => toAsk > 0
      BY <1>2, <1>5
    <3> HIDE DEF toAsk, toAskp
    <3>7. CASE returned = 0
      <4>1. rState' = "rBurst" /\ rRespCnt' + 1 = rOutstanding' + toAskp
        BY <1>1, <1>2, <1>4, <3>1, <3>2, <3>3, <3>4, <3>7
      <4> QED BY <4>1 DEF toAskp
    <3>8. CASE returned = 1 /\ rRespCnt = 0
      <4>1. rOutstanding = 1 /\ toAsk = 0
        BY <1>2, <3>1, <3>4, <3>5, <3>8
      <4>2. rOutstanding' = 0
        BY <1>1, <1>4, <3>6, <3>8, <4>1
      <4> QED BY <3>3, <3>8, <4>2
    <3>9. CASE returned = 1 /\ rRespCnt > 0
      <4>1. rState' = "rBurst" /\ rRespCnt' + 1 = rOutstanding' + toAskp
        BY <1>1, <1>2, <1>4, <3>1, <3>2, <3>3, <3>4, <3>9
      <4> QED BY <4>1 DEF toAskp
    <3> QED BY <1>2, <1>4, <3>7, <3>8, <3>9
  <2> QED BY <1>9, <2>1, <2>2, <2>3 DEF ReadFsm
<1> QED BY <1>10, <1>11, <1>12 DEF ReadsAccounted, QUEUE_DEPTH, lenp

\* No step of the front end, whatever it is answered, leaves the invariant.
LEMMA FrontEndStep ==
  ASSUME PmemTypeOK, ReadsAccounted, MasterTypeOK,
         NEW axi \in AxiInputs, NEW accept \in BOOLEAN, NEW ack \in BOOLEAN, NEW data \in Word,
         PmemStep(axi, accept, ack, data), MasterReads(axi), MasterWrites(axi)
  PROVE  PmemTypeOK' /\ ReadsAccounted' /\ MasterTypeOK'
<1>1. ReadsAccounted'
  BY ReadsAccountedStep
<1>2. MasterTypeOK'
  BY MasterStep
<1>3. /\ rState' \in {"rIdle", "rBurst"}
      /\ rAddr' \in Addrs
      /\ rBurst' \in [type : 0 .. 3, len : 0 .. 255]
      /\ rReqCnt' \in 0 .. 255 /\ rRespCnt' \in 0 .. 255
      /\ rAllReqsSent' \in BOOLEAN
  BY ReadTypesStep DEF PmemStep
<1>4. /\ wState' \in {"wIdle", "wBurst", "wResp"}
      /\ wAddr' \in Addrs
      /\ wBurst' \in [type : 0 .. 3, len : 0 .. 255]
      /\ wReqCnt' \in 0 .. 255
      /\ wAllReqsSent' \in BOOLEAN
  BY WriteTypesStep DEF PmemStep
<1>5. /\ wDataQueue' \in Seq(Beats)
      /\ Len(wDataQueue') <= QUEUE_DEPTH
  BY WriteQueueStep DEF PmemStep
<1>6. /\ rDataQ' \in Seq(Word) /\ wAckPending' \in 0 .. 15
      /\ rAckPending' \in Int /\ rOutstanding' \in Int
  BY ReadCounters DEF PmemStep, One, PmemTypeOK
<1>7. rOutstanding' = rAckPending' + Len(rDataQ') /\ rOutstanding' <= 4
  BY <1>1 DEF ReadsAccounted, QUEUE_DEPTH
<1>8. Counters(axi, accept, ack)
  BY DEF PmemStep
<1>9. rAckPending' \in 0 .. 15 /\ rOutstanding' \in 0 .. 15
  BY <1>8 DEF Counters, One, PmemTypeOK
<1>10. Len(rDataQ') <= QUEUE_DEPTH
  <2>1. Len(rDataQ') \in Nat
    BY <1>6
  <2> QED BY <1>7, <1>9, <2>1 DEF QUEUE_DEPTH
<1>11. lastGrant' \in {"read", "write"}
  BY DEF PmemStep, Arbiter, PmemTypeOK
<1> QED BY <1>1, <1>2, <1>3, <1>4, <1>5, <1>6, <1>9, <1>10, <1>11 DEF PmemTypeOK

\* What the front end puts on the port of a controller is one of PortRequests:
\* never a read and a write at once, and the strobe and data of a beat.
LEMMA PortRequestType ==
  ASSUME PmemTypeOK
  PROVE  /\ grantRead \in BOOLEAN
         /\ ramWstrb \in {{}} \union {b.strb : b \in Beats}
         /\ WordOf(ramAddr) \in 0 .. AddrSpace \div 4 - 1
         /\ ramData \in PortData
         /\ grantRead => ramWstrb = {}
<1>1. grantRead \in BOOLEAN
  BY DEF grantRead, ReadAsks, rReqRam
<1>2. wDataQueue # <<>> => Head(wDataQueue) \in Beats
  <2>1. wDataQueue \in Seq(Beats)
    BY DEF PmemTypeOK
  <2> QED BY <2>1, HeadType
<1>3. grantWrite => wDataQueue # <<>>
  BY DEF grantWrite, WriteAsks, wReqRam
<1>4. ramWstrb \in {{}} \union {b.strb : b \in Beats}
  BY <1>2, <1>3 DEF ramWstrb
<1>5. ramData \in PortData
  BY <1>2 DEF ramData, PortData
<1>6. ramAddr \in Addrs
  BY AddrSpaceAssumption DEF ramAddr, PmemTypeOK, Addrs
<1>7. WordOf(ramAddr) \in 0 .. AddrSpace \div 4 - 1
  BY <1>6, AddrSpaceAssumption DEF WordOf, Addrs
<1>8. grantRead => ramWstrb = {}
  BY DEF grantRead, ramWstrb
<1> QED BY <1>1, <1>4, <1>5, <1>7, <1>8

------------------------------------------------------------------------------
\* The addresses of the beats.

\* A wrapping burst has one of the lengths AXI gives it.
BurstsLegal == \A b \in ReadBursts \union WriteBursts : b.type = WRAP => b.len \in WrapLens

\* BeatsInPlace with what it rests on: the registers hold the burst asked for.
BeatsKept ==
  /\ \A x, y \in ar : x = y
  /\ \A x, y \in aw : x = y
  /\ rState = "rBurst" =>
       \A b \in rAsked :
         /\ b \in ReadBursts /\ rBurst = [type |-> b.type, len |-> b.len] /\ rReqCnt <= b.len
         /\ WordOf(rAddr) = BeatWord(b.addr, b.type, b.len, b.len - rReqCnt)
  /\ wState = "wBurst" =>
       \A b \in wAsked :
         /\ b \in WriteBursts /\ wBurst = [type |-> b.type, len |-> b.len] /\ wReqCnt <= b.len
         /\ WordOf(wAddr) = BeatWord(b.addr, b.type, b.len, b.len - wReqCnt)

\* The first beat is where the burst starts.
LEMMA FirstBeat ==
  ASSUME BurstsLegal, NEW b \in ReadBursts \union WriteBursts
  PROVE  BeatWord(b.addr, b.type, b.len, 0) = WordOf(b.addr)
<1>1. b.addr \in Addrs /\ b.type \in 0 .. 3 /\ b.len \in 0 .. 255
  BY BurstTypes
<1>2. WordOf(b.addr) \in 0 .. (AddrSpace \div 4) - 1
  BY <1>1, AddrSpaceAssumption DEF WordOf, Addrs
<1>3. CASE b.type = WRAP
  <2> DEFINE n == b.len + 1
             v == WordOf(b.addr)
  <2>1. n \in {1, 2, 4, 8, 16} /\ v \in Nat
    BY <1>1, <1>2, <1>3 DEF BurstsLegal, WrapLens
  <2>2. BeatWord(b.addr, b.type, b.len, 0) = (v - (v % n)) + ((v - (v - (v % n)) + 0) % n)
    BY <1>3 DEF BeatWord, FIXED, WRAP
  <2> HIDE DEF n, v
  <2>3. (v - (v % n)) + ((v - (v - (v % n)) + 0) % n) = v
    BY <2>1
  <2> QED BY <2>2, <2>3 DEF v
<1>4. CASE b.type # WRAP
  BY <1>1, <1>2, <1>4, AddrSpaceAssumption DEF BeatWord
<1> QED BY <1>3, <1>4

LEMMA BeatsStart == PmemInit /\ MasterInit => BeatsKept
BY DEF PmemInit, MasterInit, BeatsKept

LEMMA CountDown ==
  ASSUME NEW len \in 0 .. 255, NEW count \in 0 .. 255, count > 0, count <= len
  PROVE  len - count \in Nat /\ len - (count - 1) = (len - count) + 1 /\ count - 1 <= len
OBVIOUS

LEMMA ReadBeatsStep ==
  ASSUME BurstsLegal, PmemTypeOK, MasterTypeOK, BeatsKept,
         NEW axi \in AxiInputs, NEW accept \in BOOLEAN, ReadFsm(axi, accept), MasterReads(axi),
         rState' = "rBurst", NEW b \in rAsked'
  PROVE  /\ b \in ReadBursts /\ rBurst' = [type |-> b.type, len |-> b.len] /\ rReqCnt' <= b.len
         /\ WordOf(rAddr') = BeatWord(b.addr, b.type, b.len, b.len - rReqCnt')
<1>1. axi.ar = ar
  BY DEF AxiInputs
<1>2. CASE ReadIdle(axi)
  BY <1>2 DEF ReadIdle, readVars
<1>3. CASE ReadStart(axi)
  <2>1. rAsked' = ar
    BY <1>1, <1>3 DEF ReadStart, MasterReads, ArFire
  <2>2. b \in ReadBursts /\ \A x \in ar : x = b
    BY <2>1 DEF MasterTypeOK, BeatsKept
  <2>3. rAddr' = b.addr /\ rBurst' = [type |-> b.type, len |-> b.len] /\ rReqCnt' = b.len
    BY <1>1, <1>3, <2>2 DEF ReadStart
  <2>4. b.len \in 0 .. 255
    BY <2>2, BurstTypes
  <2>5. b.len - rReqCnt' = 0
    BY <2>3, <2>4
  <2> QED BY <2>2, <2>3, <2>4, <2>5, FirstBeat
<1>4. CASE ReadBurst(axi, accept)
  <2>1. rState = "rBurst" /\ rAsked' = rAsked /\ rBurst' = rBurst
    BY <1>4 DEF ReadBurst, MasterReads, ArFire
  <2>2. /\ b \in ReadBursts /\ rBurst = [type |-> b.type, len |-> b.len] /\ rReqCnt <= b.len
        /\ WordOf(rAddr) = BeatWord(b.addr, b.type, b.len, b.len - rReqCnt)
    BY <2>1 DEF BeatsKept
  <2>3. CASE UNCHANGED <<rReqCnt, rAddr>>
    BY <2>1, <2>2, <2>3
  <2>4. CASE /\ rReqCnt > 0 /\ rReqCnt' = rReqCnt - 1
             /\ rAddr' = NextAddr(rAddr, rBurst.type, rBurst.len)
    <3>1. /\ b.addr \in Addrs /\ b.type \in 0 .. 3 /\ b.len \in 0 .. 255
          /\ rAddr \in Addrs /\ rReqCnt \in 0 .. 255
          /\ b.type = WRAP => b.len \in WrapLens
      BY <2>2, BurstTypes DEF PmemTypeOK, BurstsLegal
    <3> DEFINE k == b.len - rReqCnt
    <3>2. k \in Nat /\ b.len - rReqCnt' = k + 1 /\ rReqCnt' <= b.len
      BY <2>2, <2>4, <3>1, CountDown, Zenon
    <3>3. rAddr' = NextAddr(rAddr, b.type, b.len)
      BY <2>2, <2>4
    <3>4. WordOf(rAddr) = BeatWord(b.addr, b.type, b.len, k)
      BY <2>2
    <3> HIDE DEF k
    <3>5. WordOf(rAddr') = BeatWord(b.addr, b.type, b.len, k + 1)
      BY <3>1, <3>2, <3>3, <3>4, NextBeat, ZenonT(30)
    <3> QED BY <2>1, <2>2, <3>2, <3>5
  <2> QED BY <1>4, <2>3, <2>4 DEF ReadBurst, ReadRequest
<1> QED BY <1>2, <1>3, <1>4 DEF ReadFsm

LEMMA WriteBeatsStep ==
  ASSUME BurstsLegal, PmemTypeOK, MasterTypeOK, BeatsKept,
         NEW axi \in AxiInputs, NEW accept \in BOOLEAN, WriteFsm(axi, accept), MasterWrites(axi),
         wState' = "wBurst", NEW b \in wAsked'
  PROVE  /\ b \in WriteBursts /\ wBurst' = [type |-> b.type, len |-> b.len] /\ wReqCnt' <= b.len
         /\ WordOf(wAddr') = BeatWord(b.addr, b.type, b.len, b.len - wReqCnt')
<1>1. axi.aw = aw /\ wAsked' = IF AwFire(axi) THEN aw ELSE wAsked
  BY DEF AxiInputs, MasterWrites
<1>2. CASE WriteIdle(axi)
  BY <1>2 DEF WriteIdle, writeVars
<1>3. CASE WriteStart(axi)
  <2>1. wAsked' = aw
    BY <1>1, <1>3 DEF WriteStart, AwFire
  <2>2. b \in WriteBursts /\ \A x \in aw : x = b
    BY <2>1 DEF MasterTypeOK, BeatsKept
  <2>3. wAddr' = b.addr /\ wBurst' = [type |-> b.type, len |-> b.len] /\ wReqCnt' = b.len
    BY <1>1, <1>3, <2>2 DEF WriteStart
  <2>4. b.len \in 0 .. 255
    BY <2>2, BurstTypes
  <2>5. b.len - wReqCnt' = 0
    BY <2>3, <2>4
  <2> QED BY <2>2, <2>3, <2>4, <2>5, FirstBeat
<1>4. CASE WriteBurst(axi, accept)
  <2>1. wState = "wBurst" /\ wAsked' = wAsked /\ wBurst' = wBurst
    BY <1>1, <1>4 DEF WriteBurst, AwFire
  <2>2. /\ b \in WriteBursts /\ wBurst = [type |-> b.type, len |-> b.len] /\ wReqCnt <= b.len
        /\ WordOf(wAddr) = BeatWord(b.addr, b.type, b.len, b.len - wReqCnt)
    BY <2>1 DEF BeatsKept
  <2>3. CASE UNCHANGED <<wReqCnt, wAddr>>
    BY <2>1, <2>2, <2>3
  <2>4. CASE /\ wReqCnt > 0 /\ wReqCnt' = wReqCnt - 1
             /\ wAddr' = NextAddr(wAddr, wBurst.type, wBurst.len)
    <3>1. /\ b.addr \in Addrs /\ b.type \in 0 .. 3 /\ b.len \in 0 .. 255
          /\ wAddr \in Addrs /\ wReqCnt \in 0 .. 255
          /\ b.type = WRAP => b.len \in WrapLens
      BY <2>2, BurstTypes DEF PmemTypeOK, BurstsLegal
    <3> DEFINE k == b.len - wReqCnt
    <3>2. k \in Nat /\ b.len - wReqCnt' = k + 1 /\ wReqCnt' <= b.len
      BY <2>2, <2>4, <3>1, CountDown, Zenon
    <3>3. wAddr' = NextAddr(wAddr, b.type, b.len)
      BY <2>2, <2>4
    <3>4. WordOf(wAddr) = BeatWord(b.addr, b.type, b.len, k)
      BY <2>2
    <3> HIDE DEF k
    <3>5. WordOf(wAddr') = BeatWord(b.addr, b.type, b.len, k + 1)
      BY <3>1, <3>2, <3>3, <3>4, NextBeat, ZenonT(30)
    <3> QED BY <2>1, <2>2, <3>2, <3>5
  <2> QED BY <1>4, <2>3, <2>4 DEF WriteBurst, WriteRequest
<1>5. CASE WriteResp(axi)
  BY <1>5 DEF WriteResp
<1> QED BY <1>2, <1>3, <1>4, <1>5 DEF WriteFsm

\* At most one burst is on an address channel.
LEMMA OneBurst ==
  ASSUME BeatsKept, NEW axi \in AxiInputs, MasterReads(axi), MasterWrites(axi)
  PROVE  (\A x, y \in ar' : x = y) /\ (\A x, y \in aw' : x = y)
<1>1. \A x, y \in ar' : x = y
  BY DEF BeatsKept, MasterReads, MaybeOne
<1>2. \A x, y \in aw' : x = y
  BY DEF BeatsKept, MasterWrites, MaybeOne
<1> QED BY <1>1, <1>2

LEMMA BeatsStep ==
  ASSUME BurstsLegal, PmemTypeOK, MasterTypeOK, BeatsKept,
         NEW axi \in AxiInputs, NEW accept \in BOOLEAN, ReadFsm(axi, accept),
         WriteFsm(axi, accept), MasterReads(axi), MasterWrites(axi)
  PROVE  BeatsKept'
BY OneBurst, ReadBeatsStep, WriteBeatsStep DEF BeatsKept

------------------------------------------------------------------------------
\* A request is held until it is accepted.

\* The read that is asked for stays asked for: words are returned meanwhile, but
\* not the last one of the burst.
LEMMA ReadHolds ==
  ASSUME PmemTypeOK, ReadsAccounted,
         NEW axi \in AxiInputs, NEW accept \in BOOLEAN, NEW ack \in BOOLEAN, NEW data \in Word,
         PmemStep(axi, accept, ack, data),
         rReqRam, ~(grantRead /\ accept)
  PROVE  rReqRam' /\ rAddr' = rAddr
<1>1. rState = "rBurst" /\ ~rAllReqsSent /\ rOutstanding < 4
  BY DEF rReqRam, QUEUE_DEPTH
<1>2. ReadRequest(accept) /\ ReadReturn(axi)
  BY <1>1 DEF PmemStep, ReadFsm, ReadIdle, ReadStart, ReadBurst
<1>3. UNCHANGED <<rAllReqsSent, rAddr>>
  BY <1>2 DEF ReadRequest
<1>4. rOutstanding' = rOutstanding - One(RFire(axi))
  BY ReadCounters DEF PmemStep, One, PmemTypeOK
<1>5. rOutstanding \in Nat /\ rOutstanding' < 4
  BY <1>1, <1>4 DEF One, PmemTypeOK
<1>6. RFire(axi) => rRespCnt > 0
  <2> SUFFICES ASSUME RFire(axi) PROVE rRespCnt > 0
    OBVIOUS
  <2>1. rDataQ \in Seq(Word) /\ rDataQ # <<>>
    BY DEF RFire, RValid, PmemTypeOK
  <2> DEFINE held == Len(rDataQ)
  <2>2. held \in Nat /\ held > 0
    BY <2>1
  <2>3. rOutstanding = rAckPending + held /\ rRespCnt + 1 = rOutstanding + (rReqCnt + 1)
    BY <1>1 DEF ReadsAccounted
  <2>4. rAckPending \in Nat /\ rReqCnt \in Nat /\ rRespCnt \in Nat
    BY DEF PmemTypeOK
  <2> HIDE DEF held
  <2> QED BY <1>5, <2>2, <2>3, <2>4
<1>7. rState' = "rBurst"
  BY <1>1, <1>2, <1>6 DEF ReadReturn, PmemTypeOK
<1> QED BY <1>1, <1>3, <1>5, <1>7 DEF rReqRam, QUEUE_DEPTH

\* The write that is asked for stays asked for, with the same data.
LEMMA WriteHolds ==
  ASSUME PmemTypeOK, MasterTypeOK,
         NEW axi \in AxiInputs, NEW accept \in BOOLEAN, NEW ack \in BOOLEAN, NEW data \in Word,
         PmemStep(axi, accept, ack, data),
         wReqRam, ~(grantWrite /\ accept)
  PROVE  wReqRam' /\ wAddr' = wAddr /\ Head(wDataQueue') = Head(wDataQueue)
<1>1. wState = "wBurst" /\ ~wAllReqsSent /\ wDataQueue # <<>>
  BY DEF wReqRam
<1>2. WriteBurst(axi, accept)
  BY <1>1 DEF PmemStep, WriteFsm, WriteIdle, WriteStart, WriteResp
<1>3. wAllReqsSent' = wAllReqsSent /\ wAddr' = wAddr /\ wState' = "wBurst"
  BY <1>1, <1>2 DEF WriteBurst, WriteRequest
<1>4. wDataQueue \in Seq(Beats)
  BY DEF PmemTypeOK
<1>5. wDataQueue' = wDataQueue \/ \E beat \in Beats : wDataQueue' = Append(wDataQueue, beat)
  BY DEF PmemStep, WriteQueue, AxiInputs, MasterTypeOK
<1>6. wDataQueue' # <<>> /\ Head(wDataQueue') = Head(wDataQueue)
  BY <1>1, <1>4, <1>5
<1> QED BY <1>1, <1>3, <1>6 DEF wReqRam

\* Away from its limit the count of the writes does not wrap.
LEMMA WriteCounter ==
  ASSUME wAckPending \in 0 .. 14,
         NEW axi \in AxiInputs, NEW accept \in BOOLEAN, NEW ack \in BOOLEAN, NEW data \in Word,
         PmemStep(axi, accept, ack, data)
  PROVE  wAckPending' = wAckPending + One(grantWrite /\ accept) - One(ackToWrite(ack))
BY DEF PmemStep, Counters, ackToWrite, One

\* A burst of writes is answered when each of its beats has been asked for,
\* accepted and acknowledged.
LEMMA WriteEnds ==
  ASSUME PmemTypeOK, MasterTypeOK,
         NEW axi \in AxiInputs, NEW accept \in BOOLEAN, NEW ack \in BOOLEAN, NEW data \in Word,
         PmemStep(axi, accept, ack, data)
  PROVE  /\ wState' = "wResp" => \/ wState = "wResp" /\ wAllReqsSent' = wAllReqsSent
                                 \/ wState = "wBurst" /\ wAllReqsSent' /\ wAllReqsSent /\ wAckPending = 0
         /\ wAllReqsSent' => wAllReqsSent \/ (grantWrite /\ accept)
<1>t. wAllReqsSent \in BOOLEAN /\ wAllReqsSent' \in BOOLEAN
  BY WriteTypesStep DEF PmemStep, PmemTypeOK
<1>1. CASE WriteIdle(axi)
  BY <1>1, <1>t DEF WriteIdle, writeVars
<1>2. CASE WriteStart(axi)
  BY <1>2 DEF WriteStart
<1>3. CASE WriteBurst(axi, accept)
  <2>1. wAllReqsSent' = wAllReqsSent \/ (grantWrite /\ accept)
    BY <1>3, Zenon DEF WriteBurst, WriteRequest
  <2>2. grantWrite => ~wAllReqsSent
    BY DEF grantWrite, WriteAsks, wReqRam
  <2>3. wState = "wBurst" /\ (wState' = "wResp" => wAllReqsSent /\ wAckPending = 0)
    BY <1>3 DEF WriteBurst
  <2> QED BY <1>t, <2>1, <2>2, <2>3
<1>4. CASE WriteResp(axi)
  BY <1>4, <1>t DEF WriteResp
<1> QED BY <1>1, <1>2, <1>3, <1>4 DEF PmemStep, WriteFsm

------------------------------------------------------------------------------
\* The burst that is being read or written.

BurstAsked ==
  /\ rState = "rBurst" => rAsked # {} /\ \A b \in rAsked : rRespCnt <= b.len
  /\ wState = "wBurst" => wAsked # {}

LEMMA AskedStart == PmemInit => BurstAsked
BY DEF PmemInit, BurstAsked

LEMMA OneLess == \A c, m \in 0 .. 255 : c <= m => c - 1 <= m
OBVIOUS

LEMMA AskedStep ==
  ASSUME PmemTypeOK, MasterTypeOK, BeatsKept, BurstAsked,
         NEW axi \in AxiInputs, NEW accept \in BOOLEAN, ReadFsm(axi, accept),
         WriteFsm(axi, accept), MasterReads(axi), MasterWrites(axi)
  PROVE  BurstAsked'
<1>1. /\ axi.ar = ar /\ axi.aw = aw
      /\ rAsked' = IF ArFire(axi) THEN ar ELSE rAsked
      /\ wAsked' = IF AwFire(axi) THEN aw ELSE wAsked
  BY DEF AxiInputs, MasterReads, MasterWrites
<1>2. ASSUME rState' = "rBurst" PROVE rAsked' # {} /\ \A b \in rAsked' : rRespCnt' <= b.len
  <2>1. CASE ReadIdle(axi)
    BY <1>2, <2>1 DEF ReadIdle, readVars
  <2>2. CASE ReadStart(axi)
    <3>1. PICK b \in ar : rRespCnt' = b.len
      BY <1>1, <2>2 DEF ReadStart
    <3>2. rAsked' = ar
      BY <1>1, <2>2, <3>1 DEF ReadStart, ArFire
    <3>3. b \in ReadBursts /\ \A x \in ar : x = b
      BY DEF MasterTypeOK, BeatsKept
    <3>4. b.len \in 0 .. 255
      BY <3>3, BurstTypes
    <3> QED BY <3>1, <3>2, <3>3, <3>4
  <2>3. CASE ReadBurst(axi, accept)
    <3>1. rState = "rBurst" /\ rAsked' = rAsked
      BY <1>1, <2>3 DEF ReadBurst, ArFire
    <3>2. rRespCnt' = rRespCnt \/ rRespCnt' = rRespCnt - 1
      BY <2>3 DEF ReadBurst, ReadReturn
    <3>3. rRespCnt \in 0 .. 255 /\ \A b \in rAsked : b.len \in 0 .. 255
      <4>1. \A b \in rAsked : b \in ReadBursts
        BY <3>1 DEF BeatsKept
      <4> QED BY <4>1, BurstTypes DEF PmemTypeOK
    <3>4. rAsked # {} /\ \A b \in rAsked : rRespCnt <= b.len
      BY <3>1 DEF BurstAsked
    <3>5. \A b \in rAsked : rRespCnt' <= b.len
      BY <3>2, <3>3, <3>4, OneLess, Zenon
    <3> QED BY <3>1, <3>4, <3>5
  <2> QED BY <2>1, <2>2, <2>3 DEF ReadFsm
<1>3. ASSUME wState' = "wBurst" PROVE wAsked' # {}
  <2>1. CASE WriteIdle(axi)
    BY <1>3, <2>1 DEF WriteIdle, writeVars
  <2>2. CASE WriteStart(axi)
    BY <1>1, <2>2 DEF WriteStart, AwFire
  <2>3. CASE WriteBurst(axi, accept)
    BY <1>1, <2>3 DEF WriteBurst, AwFire, BurstAsked
  <2>4. CASE WriteResp(axi)
    BY <1>3, <2>4 DEF WriteResp
  <2> QED BY <2>1, <2>2, <2>3, <2>4 DEF WriteFsm
<1> QED BY <1>2, <1>3 DEF BurstAsked

\* Two beats in a row are of the same word, or one of an even word and the other
\* of an odd one: the address space and the blocks a burst wraps in are even.
LEMMA NextWord ==
  ASSUME NEW a \in Addrs, NEW type \in 0 .. 3, NEW len \in 1 .. 255,
         type = WRAP => len \in WrapLens
  PROVE  \/ WordOf(NextAddr(a, type, len)) = WordOf(a)
         \/ WordOf(NextAddr(a, type, len)) % 2 # WordOf(a) % 2
<1>1. CASE type = FIXED
  BY <1>1 DEF NextAddr, FIXED, WRAP
<1>2. CASE type = WRAP
  <2> DEFINE n == len + 1
  <2>1. n \in {2, 4, 8, 16} /\ WrapSpan(len) = 4 * n
    BY <1>2 DEF WrapLens, WrapSpan
  <2>2. NextAddr(a, type, len) = (a - (a % (4 * n))) + (AddrPlus4(a) % (4 * n))
    BY <1>2, <2>1 DEF NextAddr, FIXED, WRAP
  <2> HIDE DEF n
  <2>3. AddrPlus4(a) % (4 * n) = (a + 4) % (4 * n)
    <3>1. AddrSpace % (4 * n) = 0 /\ AddrSpace \in Nat \ {0}
      BY <2>1, AddrSpaceAssumption
    <3>2. AddrPlus4(a) = a + 4 \/ AddrPlus4(a) = a + 4 - AddrSpace
      BY AddrSpaceAssumption DEF AddrPlus4, Addrs
    <3>3. CASE n = 2
      BY <3>1, <3>2, <3>3 DEF Addrs
    <3>4. CASE n = 4
      BY <3>1, <3>2, <3>4 DEF Addrs
    <3>5. CASE n = 8
      BY <3>1, <3>2, <3>5 DEF Addrs
    <3>6. CASE n = 16
      BY <3>1, <3>2, <3>6 DEF Addrs
    <3> QED BY <2>1, <3>3, <3>4, <3>5, <3>6
  <2>4. a \in Nat
    BY DEF Addrs
  <2>5. (((a - (a % (4 * n))) + ((a + 4) % (4 * n))) \div 4) % 2 # (a \div 4) % 2
    <3>2. CASE n = 2
      BY <2>4, <3>2
    <3>3. CASE n = 4
      BY <2>4, <3>3
    <3>4. CASE n = 8
      BY <2>4, <3>4
    <3>5. CASE n = 16
      BY <2>4, <3>5
    <3> QED BY <2>1, <3>2, <3>3, <3>4, <3>5
  <2> QED BY <2>2, <2>3, <2>5 DEF WordOf
<1>3. CASE type # FIXED /\ type # WRAP
  <2>1. NextAddr(a, type, len) = AddrPlus4(a)
    BY <1>3 DEF NextAddr
  <2>2. WordOf(AddrPlus4(a)) = (WordOf(a) + 1) % (AddrSpace \div 4)
    BY WordPlus4
  <2>3. (AddrSpace \div 4) % 2 = 0 /\ WordOf(a) \in 0 .. (AddrSpace \div 4) - 1
    BY AddrSpaceAssumption DEF WordOf, Addrs
  <2>4. \A m \in Nat, v \in Nat : m % 2 = 0 /\ v < m => ((v + 1) % m) % 2 # v % 2
    <3> SUFFICES ASSUME NEW m \in Nat, NEW v \in Nat, m % 2 = 0, v < m
                 PROVE  ((v + 1) % m) % 2 # v % 2
      OBVIOUS
    <3>1. CASE v + 1 < m
      <4>1. (v + 1) % m = v + 1
        BY <3>1
      <4> QED BY <4>1
    <3>2. CASE v + 1 = m
      <4>1. (v + 1) % m = 0
        BY <3>2
      <4> QED BY <3>2, <4>1
    <3> QED BY <3>1, <3>2
  <2> DEFINE m == AddrSpace \div 4
             v == WordOf(a)
  <2>5. m \in Nat /\ v \in Nat /\ m % 2 = 0 /\ v < m /\ WordOf(NextAddr(a, type, len)) = (v + 1) % m
    BY <2>1, <2>2, <2>3, AddrSpaceAssumption
  <2> HIDE DEF m, v
  <2>6. ((v + 1) % m) % 2 # v % 2
    BY <2>4, <2>5
  <2> QED BY <2>5, <2>6 DEF v
<1> QED BY <1>1, <1>2, <1>3

\* So is the read asked for after the one that is accepted.
LEMMA NextRead ==
  ASSUME BurstsLegal, PmemTypeOK, MasterTypeOK, BeatsKept, BurstAsked,
         NEW axi \in AxiInputs, NEW accept \in BOOLEAN, ReadFsm(axi, accept),
         grantRead /\ accept, rReqRam'
  PROVE  WordOf(rAddr') = WordOf(rAddr) \/ WordOf(rAddr') % 2 # WordOf(rAddr) % 2
<1>1. rState = "rBurst"
  BY DEF grantRead, ReadAsks, rReqRam
<1>2. ReadRequest(accept)
  BY <1>1 DEF ReadFsm, ReadIdle, ReadStart, ReadBurst
<1>3. ~rAllReqsSent'
  BY DEF rReqRam
<1>4. rReqCnt > 0 /\ rAddr' = NextAddr(rAddr, rBurst.type, rBurst.len)
  BY <1>2, <1>3 DEF ReadRequest
<1>5. PICK b \in rAsked : b \in ReadBursts /\ rBurst = [type |-> b.type, len |-> b.len] /\ rReqCnt <= b.len
  BY <1>1 DEF BurstAsked, BeatsKept
<1>6. /\ rAddr \in Addrs /\ b.type \in 0 .. 3 /\ b.len \in 1 .. 255
      /\ b.type = WRAP => b.len \in WrapLens
  <2>1. b.addr \in Addrs /\ b.type \in 0 .. 3 /\ b.len \in 0 .. 255
    BY <1>5, BurstTypes
  <2>2. rAddr \in Addrs /\ rReqCnt \in 0 .. 255
    BY DEF PmemTypeOK
  <2>3. b.len \in 1 .. 255
    BY <1>4, <1>5, <2>1, <2>2
  <2> QED BY <1>5, <2>1, <2>2, <2>3 DEF BurstsLegal
<1>7. rAddr' = NextAddr(rAddr, b.type, b.len)
  BY <1>4, <1>5
<1> QED BY <1>6, <1>7, NextWord, ZenonT(30)

\* A burst of reads goes on: a word that is returned is not the last.
LEMMA ReadsGoOn ==
  ASSUME PmemTypeOK, NEW axi \in AxiInputs, NEW accept \in BOOLEAN, ReadFsm(axi, accept),
         MasterReads(axi), rState = "rBurst", rState' = "rBurst"
  PROVE  rAsked' = rAsked /\ rRespCnt' = rRespCnt - One(RFire(axi))
<1>1. ReadReturn(axi)
  BY DEF ReadFsm, ReadIdle, ReadStart, ReadBurst
<1>2. rRespCnt \in 0 .. 255
  BY DEF PmemTypeOK
<1>3. rRespCnt' = rRespCnt - One(RFire(axi))
  BY <1>1, <1>2 DEF ReadReturn, One
<1> QED BY <1>3 DEF MasterReads, ArFire

==============================================================================
