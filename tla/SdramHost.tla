------------------------------ MODULE SdramHost ------------------------------
(***************************************************************************)
(* The chip alone, driven by a host that issues any command the chip        *)
(* allows: every mode of the mode register, both commands that touch        *)
(* columns in every mode, and BURST TERMINATE, which the controller never   *)
(* uses.  A history of the last write and of the last read tells what the   *)
(* chip should have done with them.                                         *)
(***************************************************************************)
EXTENDS SdramMem, Sequences

CONSTANTS
  HostPins,  \* what the host may put on the pins
  HostData   \* the half-words it writes

VARIABLES
  before,     \* the storage when the last WRITE came
  sent,       \* the columns of that burst so far: [cell, dq, dqm]
  writeLeft,  \* the columns of it still to come
  fetched,    \* the cell whose half-word the chip should put out, or none
  readLeft,   \* the columns still to come of the last READ
  readNext    \* the cell the next of them is at

historyVars == <<before, sent, writeLeft, fetched, readLeft, readNext>>
hostVars    == <<memVars, historyVars>>

\* The host leaves a burst alone, or terminates it, and loads the mode register
\* when every bank is closed.
Allowed(p) ==
  /\ RefreshClosed(p) /\ ActivateClosed(p) /\ AccessOpen(p)
  /\ writeLeft > 0 \/ readLeft > 0 => p.cmd \in {"NOP", "TERMINATE"}
  /\ p.cmd = "LOAD_MODE" => memActiveEnQ = {}

BurstLength == CASE burstLenQ = 0 -> 1 [] burstLenQ = 1 -> 2 [] burstLenQ = 2 -> 4 [] OTHER -> 8

Column(cell, p, dq) == [cell |-> cell, dq |-> dq, dqm |-> p.dqm]

RecordWrite(p, dq) ==
  IF p.cmd = "WRITE"
  THEN /\ before' = mem
       /\ sent' = <<Column(PinCell(p), p, dq)>>
       /\ writeLeft' = IF writeBurstEnQ THEN BurstLength - 1 ELSE 0
  ELSE IF p.cmd = "NOP" /\ writeLeft > 0
  THEN /\ sent' = Append(sent, Column((sent[Len(sent)].cell + 1) % NumCells, p, dq))
       /\ writeLeft' = writeLeft - 1
       /\ UNCHANGED before
  ELSE /\ writeLeft' = IF p.cmd = "TERMINATE" THEN 0 ELSE writeLeft
       /\ UNCHANGED <<before, sent>>

RecordRead(p) ==
  IF p.cmd = "READ"
  THEN /\ fetched' = {PinCell(p)}
       /\ readLeft' = BurstLength - 1
       /\ readNext' = (PinCell(p) + 1) % NumCells
  ELSE IF p.cmd = "NOP" /\ readLeft > 0
  THEN /\ fetched' = {readNext}
       /\ readLeft' = readLeft - 1
       /\ readNext' = (readNext + 1) % NumCells
  ELSE /\ fetched' = {}
       /\ readLeft' = IF p.cmd = "TERMINATE" THEN 0 ELSE readLeft
       /\ UNCHANGED readNext

Command(p, dq) ==
  /\ Allowed(p)
  /\ MemStep(p, dq)
  /\ RecordWrite(p, dq)
  /\ RecordRead(p)

HostInit ==
  /\ MemInit({[c \in Cells |-> Zero]})
  /\ before = mem
  /\ sent = <<>>
  /\ writeLeft = 0
  /\ fetched = {}
  /\ readLeft = 0
  /\ readNext = 0

HostNext == \E p \in HostPins, dq \in HostData : Command(p, dq)

HostSpec == HostInit /\ [][HostNext]_hostVars

------------------------------------------------------------------------------
\* Properties.

\* What the storage is after the first n columns of the last write.
Stored[n \in 0 .. Len(sent)] ==
  IF n = 0 THEN before
  ELSE LET c == sent[n] IN [Stored[n - 1] EXCEPT ![c.cell] = MergeHalf(@, c.dq, c.dqm)]

\* A write burst fills as many columns as the mode register says, one after the
\* other from the column of the command, each with the half-word on the pins in
\* its cycle, lanes masked then excepted; a TERMINATE stops it there, and
\* nothing else touches the storage.
BurstsStored == mem = Stored[Len(sent)]

\* A read burst puts out as many half-words as the mode register says, each in
\* the cycle after its own, and the chip drives the pins in no other cycle.
BurstsFetched ==
  [][/\ memOutEnQ' = (fetched' # {})
     /\ \A c \in fetched' : memRdata' = mem[c]]_hostVars

==============================================================================
