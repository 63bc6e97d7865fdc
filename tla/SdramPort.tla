------------------------------ MODULE SdramPort ------------------------------
(***************************************************************************)
(* The controller and the chip with a client that keeps to the protocol of  *)
(* the port: it holds a request until the controller accepts it.  Such a    *)
(* client sees a plain memory of words (WordMemory).                        *)
(***************************************************************************)
EXTENDS SdramChip, Sequences

VARIABLE req  \* the request on the port: held until it is accepted

portVars == <<chipVars, req>>

PortInit == Init /\ req \in Requests

\* One clock cycle.
PortNext ==
  /\ Cycle(req)
  /\ IF Requesting(req) /\ ~Accept(req) THEN req' = req ELSE req' \in Requests

PortSpec == PortInit /\ [][PortNext]_portVars

\* The clock does not stop.
ClockedSpec == PortSpec /\ WF_portVars(PortNext)

------------------------------------------------------------------------------
\* The memory of words it is.

\* The reads in the first n stages of the pipeline, oldest first.
OwedUpTo[n \in 0 .. ReadDepth] ==
  IF n = 0 THEN <<>>
  ELSE (IF readPipeQ[n] THEN <<{ReadInFlight(n)}>> ELSE <<>>) \o OwedUpTo[n - 1]

\* A write is answered in the cycle after write1.
ReadsOwed == OwedUpTo[ReadDepth]
Owed == ReadsOwed \o (IF stateQ = "write1" THEN <<Word>> ELSE <<>>)

Answer == IF ackQ THEN {JoinHalves(ReadHalves[1], ReadHalves[2])} ELSE {}

Port == INSTANCE WordMemory WITH
  Bytes <- Byte, store <- Store, owed <- Owed, answer <- Answer

\* The port implements the memory of words: every accepted request takes
\* effect at its acceptance, whatever refreshes, row changes and bursts come
\* between, and is answered once, in order, with the word stored then.
IsWordMemory == Port!Spec

\* A held request is accepted in the end: refreshes and row changes delay it,
\* but do not starve it.
HeldIsAccepted == Requesting(req) ~> Accept(req)

==============================================================================
