----------------------------- MODULE SdramAxiTop -----------------------------
(***************************************************************************)
(* The AXI front end wired to one controller and its chip, as SdramAxiTop   *)
(* in SdramAxi.scala does, with an AXI master.                              *)
(***************************************************************************)
EXTENDS SdramChip, AxiMaster, FiniteSets

\* The clients of the controller include the front end.
ASSUME FrontEndAssumption == PortRequests(0 .. AddrSpace \div 4 - 1) \subseteq Requests

topVars == <<chipVars, pmemVars, masterVars>>

------------------------------------------------------------------------------
\* The wiring.

PortRequest == [rd |-> grantRead, wr |-> ramWstrb, addr |-> WordOf(ramAddr), data |-> ramData]

TopCycle(axi) ==
  /\ Cycle(PortRequest)
  /\ PmemStep(axi, Accept(PortRequest), ackQ, PortWord)
  /\ MasterReads(axi)
  /\ MasterWrites(axi)

TopInit ==
  /\ Init
  /\ PmemInit
  /\ MasterInit

TopNext == \E axi \in AxiInputs : TopCycle(axi)

TopSpec == TopInit /\ [][TopNext]_topVars

------------------------------------------------------------------------------
\* Properties.

\* The arbiter may change its mind while the controller opens the row for the
\* other side, which then serves a request that is no longer on the port.  What
\* it serves is still the next beat of the side it latched: a beat written then
\* is written again, with the same data, when it is accepted.
LatchedIsNext ==
  /\ stateQ = "read" => /\ rState = "rBurst" /\ ~rAllReqsSent
                        /\ reqAddrQ = WordOf(rAddr)
  /\ stateQ = "write0" => /\ wState = "wBurst" /\ ~wAllReqsSent /\ wDataQueue # <<>>
                          /\ reqAddrQ = WordOf(wAddr)
                          /\ reqWrStrbQ = Head(wDataQueue).strb

\* The acknowledgement of a request that was served but not accepted is never
\* taken for one that is owed: while acknowledgements are owed, those on the
\* way are of that side, and as many.
ReadsInPipe == Cardinality({i \in 1 .. ReadDepth : readPipeQ[i]})
AcksMatch ==
  /\ rAckPending > 0 => /\ ReadsInPipe + One(ackQ) = rAckPending
                        /\ stateQ # "write1"
  /\ wAckPending > 0 => /\ One(stateQ = "write1") + One(ackQ) = wAckPending
                        /\ ReadsInPipe = 0

\* A write is answered when its last half-word is in the storage, no sooner.
WrittenBeforeAnswered ==
  wState = "wResp" => stateQ # "write1" /\ pins.cmd # "WRITE" /\ burstWriteCountQ = 0

\* The front end asks for nothing the controller was not proved for: each step
\* is one of SdramChip with some client.
IsSdramChip == Spec

\* The clock does not stop, and a master sends the data it owes and is ready
\* again and again while an answer waits.
FairTopSpec ==
  /\ TopSpec
  /\ WF_topVars(TopNext)
  /\ WF_topVars(wOwed > 0 /\ TopNext /\ w' # {})
  /\ SF_topVars(\E axi \in AxiInputs : RFire(axi) /\ TopCycle(axi))
  /\ SF_topVars(\E axi \in AxiInputs : BFire(axi) /\ TopCycle(axi))

\* Every burst of writes is carried out and answered in the end, however the
\* reads keep the arbiter busy and whatever the refreshes delay.
WritesComplete == wState = "wBurst" ~> wState = "wIdle"

==============================================================================
