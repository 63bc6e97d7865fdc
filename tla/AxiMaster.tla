------------------------------ MODULE AxiMaster ------------------------------
(***************************************************************************)
(* A master on the AXI port that keeps to the protocol: it holds an address *)
(* or a beat of data until it is taken, sends the beats of a burst of       *)
(* writes in order once it has sent the address, and is ready for answers   *)
(* when it likes.                                                           *)
(***************************************************************************)
EXTENDS SdramIO, SdramAxiPmem

CONSTANTS
  ReadBursts,   \* the bursts the master may read: [addr, type, len]
  WriteBursts,  \* the bursts the master may write
  Beats         \* the beats of data it may write: [data, strb]

ASSUME MasterAssumption ==
  /\ ReadBursts \union WriteBursts \subseteq [addr : Addrs, type : 0 .. 3, len : 0 .. 255]
  /\ Beats \subseteq [data : Word, strb : SUBSET ByteLanes]

ASSUME IdleAssumption == IdleData \in Word

VARIABLES
  ar,      \* the set of the burst on the read address channel
  aw,      \* the set of the burst on the write address channel
  w,       \* the set of the beat on the write data channel
  wOwed,   \* beats of the last burst on aw not yet put on w
  rAsked,  \* the burst being read, as the master asked for it
  wAsked   \* the burst being written, as the master asked for it

masterVars == <<ar, aw, w, wOwed, rAsked, wAsked>>

MaybeOne(S) == {{}} \union {{x} : x \in S}

MasterReads(axi) ==
  /\ IF ar = {} \/ ArFire(axi) THEN ar' \in MaybeOne(ReadBursts) ELSE ar' = ar
  /\ rAsked' = IF ArFire(axi) THEN ar ELSE rAsked

\* The next burst is put on aw once every beat of the last one is taken.
MasterWrites(axi) ==
  LET awKept == IF AwFire(axi) THEN {} ELSE aw
      wKept  == IF WFire(axi) THEN {} ELSE w
      asks   == awKept = {} /\ wKept = {} /\ wOwed = 0
  IN /\ IF asks THEN aw' \in MaybeOne(WriteBursts) ELSE aw' = awKept
     /\ \E left \in {IF asks /\ aw' # {} THEN (CHOOSE b \in aw' : TRUE).len + 1 ELSE wOwed} :
          IF wKept = {} /\ left > 0
          THEN /\ w' \in MaybeOne(Beats)
               /\ wOwed' = IF w' = {} THEN left ELSE left - 1
          ELSE w' = wKept /\ wOwed' = left
     /\ wAsked' = IF AwFire(axi) THEN aw ELSE wAsked

\* What the master drives in a cycle.  Whether it is ready for an answer makes
\* a difference only when there is one.
AxiInputs == {[ar |-> ar, aw |-> aw, w |-> w, rready |-> r, bready |-> b] :
                r \in {FALSE, RValid}, b \in {FALSE, BValid}}

\* What the front end may put on the port of a controller for words at addrs.
PortData == {b.data : b \in Beats} \union {IdleData}
PortRequests(addrs) ==
  [rd : BOOLEAN, wr : {{}}, addr : addrs, data : PortData]
    \union [rd : {FALSE}, wr : {b.strb : b \in Beats}, addr : addrs, data : PortData]

MasterInit ==
  /\ ar = {} /\ aw = {} /\ w = {}
  /\ wOwed = 0
  /\ rAsked = {} /\ wAsked = {}

------------------------------------------------------------------------------
\* Properties of the front end, whatever controllers it drives.

PmemTypeOK ==
  /\ rState \in {"rIdle", "rBurst"}
  /\ wState \in {"wIdle", "wBurst", "wResp"}
  /\ rAddr \in Addrs /\ wAddr \in Addrs
  /\ rBurst \in [type : 0 .. 3, len : 0 .. 255]
  /\ wBurst \in [type : 0 .. 3, len : 0 .. 255]
  /\ rReqCnt \in 0 .. 255 /\ rRespCnt \in 0 .. 255 /\ wReqCnt \in 0 .. 255
  /\ rAllReqsSent \in BOOLEAN /\ wAllReqsSent \in BOOLEAN
  /\ rDataQ \in Seq(Word) /\ Len(rDataQ) <= QUEUE_DEPTH
  /\ wDataQueue \in Seq(Beats)
  /\ Len(wDataQueue) <= QUEUE_DEPTH
  /\ rAckPending \in 0 .. 15 /\ wAckPending \in 0 .. 15 /\ rOutstanding \in 0 .. 15
  /\ lastGrant \in {"read", "write"}

\* No word read is dropped for want of room, and none is returned twice: what
\* the controller owes and what the queue holds is what was asked for and not
\* returned, never more than the queue has room for.
ReadsAccounted ==
  /\ rOutstanding = rAckPending + Len(rDataQ)
  /\ rOutstanding <= QUEUE_DEPTH
  /\ rState = "rIdle" => rOutstanding = 0
  /\ rState = "rBurst" =>
       rRespCnt + 1 = rOutstanding + (IF rAllReqsSent THEN 0 ELSE rReqCnt + 1)

\* The address of every beat is the one AXI gives it.
BeatsInPlace ==
  /\ rState = "rBurst" =>
       \A b \in rAsked : WordOf(rAddr) = BeatWord(b.addr, b.type, b.len, b.len - rReqCnt)
  /\ wState = "wBurst" =>
       \A b \in wAsked : WordOf(wAddr) = BeatWord(b.addr, b.type, b.len, b.len - wReqCnt)

==============================================================================
