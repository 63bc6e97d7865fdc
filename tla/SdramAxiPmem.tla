----------------------------- MODULE SdramAxiPmem -----------------------------
(***************************************************************************)
(* The AXI front end of SdramAxiPmem.scala, one step per clock edge: a read *)
(* and a write state machine that turn bursts into requests for words, the  *)
(* arbiter that lets one of the two onto the port of the controller, and    *)
(* the counters that tell whose acknowledgement the controller gives.       *)
(*                                                                          *)
(* axi is what the master drives in this cycle: ar and aw (the set of the   *)
(* burst on the address channel, or the empty set when it is not valid), w  *)
(* (likewise, of a beat of data), rready and bready.  accept, ack and data  *)
(* are what the controller answers.  The transaction id travels with the    *)
(* length unchanged and is left out.                                        *)
(***************************************************************************)
EXTENDS AxiBurst, Sequences

CONSTANT IdleData  \* the data of an empty write queue's output

VARIABLES
  rState,        \* "rIdle" or "rBurst"
  rAddr,         \* the next address to read
  rBurst,        \* rBurstType and rBurstLen
  rReqCnt,       \* beats to request after the next one
  rRespCnt,      \* beats to return after the next one
  rAllReqsSent,
  rDataQ,        \* the words read, not yet returned
  wState,        \* "wIdle", "wBurst" or "wResp"
  wAddr,         \* the next address to write
  wBurst,        \* wBurstType and wBurstLen
  wReqCnt,       \* beats to request after the next one
  wAllReqsSent,
  wDataQueue,    \* beats of data accepted, not yet written
  rAckPending,   \* reads the controller has accepted, not acknowledged
  wAckPending,   \* writes the controller has accepted, not acknowledged
  rOutstanding,  \* reads the controller has accepted, not returned
  lastGrant      \* the arbiter's register: the side it last let through

readVars  == <<rState, rAddr, rBurst, rReqCnt, rRespCnt, rAllReqsSent>>
writeVars == <<wState, wAddr, wBurst, wReqCnt, wAllReqsSent>>
pmemVars  == <<readVars, rDataQ, writeVars, wDataQueue,
               rAckPending, wAckPending, rOutstanding, lastGrant>>

QUEUE_DEPTH == 4

------------------------------------------------------------------------------
\* Combinational signals.

\* Mutant: reads are requested without regard to the room left for their data.
rReqRamUnbounded == rState = "rBurst" /\ ~rAllReqsSent

rReqRam == rState = "rBurst" /\ ~rAllReqsSent /\ rOutstanding < QUEUE_DEPTH
wReqRam == wState = "wBurst" /\ ~wAllReqsSent /\ wDataQueue # <<>>

\* Mutant: a write does not wait for the acknowledgements of the reads.
WriteAsksAtOnce == wReqRam

\* One side asks only when the other has nothing left to be acknowledged.
ReadAsks  == rReqRam /\ wAckPending = 0
WriteAsks == wReqRam /\ rAckPending = 0

\* RRArbiter: both asking, the side that was not last let through goes first.
grantWrite == WriteAsks /\ (lastGrant = "read" \/ ~ReadAsks)

\* Mutant: the read side does not see that the write side goes first.
grantReadToo == ReadAsks

grantRead == ReadAsks /\ ~grantWrite

\* io.ram
ramWstrb == IF grantWrite THEN Head(wDataQueue).strb ELSE {}
ramAddr  == IF grantRead THEN rAddr ELSE IF grantWrite THEN wAddr ELSE 0
ramData  == IF wDataQueue # <<>> THEN Head(wDataQueue).data ELSE IdleData

ackToRead(ack)  == ack /\ rAckPending > 0
ackToWrite(ack) == ack /\ wAckPending > 0

\* io.axi
RValid == rState = "rBurst" /\ rDataQ # <<>>

\* Mutant: the last word is told by the count of the requests.
RLastEarly == rReqCnt = 0

RLast  == rRespCnt = 0
WReady == wState = "wBurst" /\ Len(wDataQueue) < QUEUE_DEPTH
BValid == wState = "wResp"

RFire(axi)  == RValid /\ axi.rready
ArFire(axi) == rState = "rIdle" /\ axi.ar # {}
AwFire(axi) == wState = "wIdle" /\ axi.aw # {}
WFire(axi)  == WReady /\ axi.w # {}
BFire(axi)  == BValid /\ axi.bready

------------------------------------------------------------------------------
\* The read state machine.

ReadIdle(axi) ==
  /\ rState = "rIdle"
  /\ axi.ar = {}
  /\ UNCHANGED readVars

ReadStart(axi) ==
  /\ rState = "rIdle"
  /\ \E b \in axi.ar :
       /\ rAddr' = b.addr
       /\ rBurst' = [type |-> b.type, len |-> b.len]
       /\ rReqCnt' = b.len
       /\ rRespCnt' = b.len
  /\ rAllReqsSent' = FALSE
  /\ rState' = "rBurst"

\* Mutant: the last beat is not noticed.
ReadRequestOn(accept) ==
  /\ UNCHANGED rAllReqsSent
  /\ IF grantRead /\ accept
     THEN rReqCnt' = rReqCnt - 1 /\ rAddr' = NextAddr(rAddr, rBurst.type, rBurst.len)
     ELSE UNCHANGED <<rReqCnt, rAddr>>

\* The next address of the burst, when the controller accepts the one before.
ReadRequest(accept) ==
  \/ /\ ~(grantRead /\ accept)
     /\ UNCHANGED <<rAllReqsSent, rReqCnt, rAddr>>
  \/ /\ grantRead /\ accept
     /\ rReqCnt = 0
     /\ rAllReqsSent' = TRUE
     /\ UNCHANGED <<rReqCnt, rAddr>>
  \/ /\ grantRead /\ accept
     /\ rReqCnt > 0
     /\ rReqCnt' = rReqCnt - 1
     /\ rAddr' = NextAddr(rAddr, rBurst.type, rBurst.len)
     /\ UNCHANGED rAllReqsSent

ReadReturn(axi) ==
  \/ /\ ~RFire(axi)
     /\ UNCHANGED <<rState, rRespCnt>>
  \/ /\ RFire(axi)
     /\ rRespCnt = 0
     /\ rState' = "rIdle"
     /\ UNCHANGED rRespCnt
  \/ /\ RFire(axi)
     /\ rRespCnt > 0
     /\ rRespCnt' = rRespCnt - 1
     /\ UNCHANGED rState

ReadBurst(axi, accept) ==
  /\ rState = "rBurst"
  /\ ReadRequest(accept)
  /\ ReadReturn(axi)
  /\ UNCHANGED rBurst

ReadFsm(axi, accept) == ReadIdle(axi) \/ ReadStart(axi) \/ ReadBurst(axi, accept)

------------------------------------------------------------------------------
\* The write state machine.

WriteIdle(axi) ==
  /\ wState = "wIdle"
  /\ axi.aw = {}
  /\ UNCHANGED writeVars

WriteStart(axi) ==
  /\ wState = "wIdle"
  /\ \E b \in axi.aw :
       /\ wAddr' = b.addr
       /\ wBurst' = [type |-> b.type, len |-> b.len]
       /\ wReqCnt' = b.len
  /\ wAllReqsSent' = FALSE
  /\ wState' = "wBurst"

WriteRequest(accept) ==
  \/ /\ ~(grantWrite /\ accept)
     /\ UNCHANGED <<wAllReqsSent, wReqCnt, wAddr>>
  \/ /\ grantWrite /\ accept
     /\ wReqCnt = 0
     /\ wAllReqsSent' = TRUE
     /\ UNCHANGED <<wReqCnt, wAddr>>
  \/ /\ grantWrite /\ accept
     /\ wReqCnt > 0
     /\ wReqCnt' = wReqCnt - 1
     /\ wAddr' = NextAddr(wAddr, wBurst.type, wBurst.len)
     /\ UNCHANGED wAllReqsSent

\* Mutant: the response does not wait for the acknowledgements.
WriteBurstEarly(axi, accept) ==
  /\ wState = "wBurst"
  /\ WriteRequest(accept)
  /\ wState' = IF wAllReqsSent THEN "wResp" ELSE "wBurst"
  /\ UNCHANGED wBurst

WriteBurst(axi, accept) ==
  /\ wState = "wBurst"
  /\ WriteRequest(accept)
  /\ wState' = IF wAllReqsSent /\ wAckPending = 0 THEN "wResp" ELSE "wBurst"
  /\ UNCHANGED wBurst

WriteResp(axi) ==
  /\ wState = "wResp"
  /\ wState' = IF axi.bready THEN "wIdle" ELSE "wResp"
  /\ UNCHANGED <<wAddr, wBurst, wReqCnt, wAllReqsSent>>

WriteFsm(axi, accept) ==
  WriteIdle(axi) \/ WriteStart(axi) \/ WriteBurst(axi, accept) \/ WriteResp(axi)

------------------------------------------------------------------------------
\* Clocked in every state: the queues, the counters and the arbiter.

One(b) == IF b THEN 1 ELSE 0

\* A word is read into the queue without asking whether it has room.
ReadQueue(axi, ack, data) ==
  LET kept == IF RFire(axi) THEN Tail(rDataQ) ELSE rDataQ
  IN  rDataQ' = IF ackToRead(ack) /\ Len(rDataQ) < QUEUE_DEPTH THEN Append(kept, data) ELSE kept

\* Mutant: a beat leaves the queue when it is on the port, accepted or not.
WriteQueueEager(axi, accept) ==
  LET kept == IF grantWrite THEN Tail(wDataQueue) ELSE wDataQueue
  IN  IF WFire(axi) THEN \E beat \in axi.w : wDataQueue' = Append(kept, beat)
                    ELSE wDataQueue' = kept

WriteQueue(axi, accept) ==
  LET kept == IF grantWrite /\ accept THEN Tail(wDataQueue) ELSE wDataQueue
  IN  IF WFire(axi) THEN \E beat \in axi.w : wDataQueue' = Append(kept, beat)
                    ELSE wDataQueue' = kept

\* Four-bit counters.
Counters(axi, accept, ack) ==
  /\ rAckPending' = (rAckPending + One(grantRead /\ accept) - One(ackToRead(ack))) % 16
  /\ wAckPending' = (wAckPending + One(grantWrite /\ accept) - One(ackToWrite(ack))) % 16
  /\ rOutstanding' = (rOutstanding + One(grantRead /\ accept) - One(RFire(axi))) % 16

\* Mutant: the arbiter forgets whom it let through.
ArbiterStuck(accept) == UNCHANGED lastGrant

\* The arbiter's register follows the side it lets through.
Arbiter(accept) ==
  lastGrant' = IF accept /\ grantRead THEN "read"
               ELSE IF accept /\ grantWrite THEN "write" ELSE lastGrant

PmemStep(axi, accept, ack, data) ==
  /\ ReadFsm(axi, accept)
  /\ WriteFsm(axi, accept)
  /\ ReadQueue(axi, ack, data)
  /\ WriteQueue(axi, accept)
  /\ Counters(axi, accept, ack)
  /\ Arbiter(accept)

\* The registers of a burst have no reset value and are loaded before they are
\* read; that of the arbiter has none either and is read.
PmemInit ==
  /\ rState = "rIdle"
  /\ rAddr = 0
  /\ rBurst = [type |-> FIXED, len |-> 0]
  /\ rReqCnt = 0
  /\ rRespCnt = 0
  /\ rAllReqsSent = TRUE
  /\ rDataQ = <<>>
  /\ wState = "wIdle"
  /\ wAddr = 0
  /\ wBurst = [type |-> FIXED, len |-> 0]
  /\ wReqCnt = 0
  /\ wAllReqsSent = TRUE
  /\ wDataQueue = <<>>
  /\ rAckPending = 0
  /\ wAckPending = 0
  /\ rOutstanding = 0
  /\ lastGrant \in {"read", "write"}

==============================================================================
