-------------------------------- MODULE TbApb --------------------------------
(***************************************************************************)
(* The APB driver of the testbench, tb_apb_driver.cpp, on a slave with wait *)
(* states.  The driver transfers a block word by word; phase is where it    *)
(* waits for the clock: "pause" in the loop of delay_cycle(), "setup" and   *)
(* "access" after it has driven those, "none" between calls.  The slave is  *)
(* a memory of words; the design behind sdram_apb is not in the repository. *)
(***************************************************************************)
EXTENDS Integers, Sequences

CONSTANTS
  AddrSpace,   \* 2^32, the number of byte addresses
  ByteValues,  \* the values of a byte
  Calls        \* what the test may call: [op, addr, data, mask] as in BlockDriver

ASSUME SpaceAssumption == AddrSpace \in Nat \ {0} /\ AddrSpace % 4 = 0
ASSUME ByteAssumption == 0 \in ByteValues
\* A block is not empty, and one with a mask is an aligned word: write_internal()
\* and write32() assert it.
ASSUME CallsAssumption == \A c \in Calls :
  /\ c.op \in {"write", "read"}
  /\ c.addr \in 0 .. AddrSpace - 1
  /\ c.data \in Seq(ByteValues)
  /\ Len(c.data) \in 1 .. AddrSpace
  /\ c.op = "write" => \/ c.mask = 0 .. Len(c.data) - 1
                       \/ c.mask \subseteq 0 .. 3 /\ Len(c.data) = 4 /\ c.addr % 4 = 0

VARIABLES
  call,   \* the call under way
  at,     \* how far addr, data and length have moved on from its beginning
  got,    \* the bytes read
  phase,
  bus,    \* apb_out
  respPending,  \* m_resp_pending
  store,  \* the words of the slave
  done,   \* history: bytes of the block whose write the slave has taken
  last    \* history: what was on the bus at the last edge, and whether taken

apbVars == <<call, at, got, phase, bus, respPending, store, done, last>>

Lanes    == 0 .. 3
Word     == [Lanes -> ByteValues]
Addrs    == 0 .. AddrSpace - 1
NumWords == AddrSpace \div 4
NoCall   == [op |-> "idle", addr |-> 0, data |-> <<>>, mask |-> {}]

\* apb_master::init
Quiet == [psel |-> FALSE, penable |-> FALSE, pwrite |-> FALSE, paddr |-> 0,
          pwdata |-> [l \in Lanes |-> 0], pstrb |-> {}]

------------------------------------------------------------------------------
\* The calls of the API.

WriteBlock(addr, data) ==
  [op |-> "write", addr |-> addr, data |-> data, mask |-> 0 .. Len(data) - 1]
ReadBlock(addr, length) ==
  [op |-> "read", addr |-> addr, data |-> [k \in 1 .. length |-> 0], mask |-> {}]

BytesOf(word) == [k \in 1 .. 4 |-> word[k - 1]]

Write32(addr, word)             == WriteBlock(addr, BytesOf(word))
Write32Masked(addr, word, mask) == [Write32(addr, word) EXCEPT !.mask = mask]
Read32(addr)                    == ReadBlock(addr, 4)
WriteByte(addr, byte)           == WriteBlock(addr, <<byte>>)
ReadByte(addr)                  == ReadBlock(addr, 1)

------------------------------------------------------------------------------
\* The word under way: the bytes from offset k up to the end of its word.
AddrAt(c, k) == (c.addr + k) % AddrSpace

PieceSize(c, k) ==
  LET room == 4 - (AddrAt(c, k) % 4)
  IN IF room > Len(c.data) - k THEN Len(c.data) - k ELSE room

\* initial_mask: 0xF except for a masked word, which is one piece.
InitialMask(c) == IF c.mask = 0 .. Len(c.data) - 1 THEN Lanes ELSE c.mask

WordData(c, k) ==
  [l \in Lanes |-> LET x == l - (AddrAt(c, k) % 4)
                   IN IF x \in 0 .. PieceSize(c, k) - 1 THEN c.data[k + x + 1] ELSE 0]

\* Mutant: the strobes are not shifted to the place of the bytes.
WordStrbUnshifted(c, k) == {x \in 0 .. PieceSize(c, k) - 1 : x \in InitialMask(c)}

WordStrb(c, k) ==
  {l \in Lanes : LET x == l - (AddrAt(c, k) % 4)
                 IN x \in 0 .. PieceSize(c, k) - 1 /\ x \in InitialMask(c)}

\* Mutant: PENABLE is left high from the transfer before.
SetupEnabled(c, k) ==
  [Quiet EXCEPT !.psel = TRUE, !.penable = TRUE, !.pwrite = c.op = "write",
                !.paddr = AddrAt(c, k) - (AddrAt(c, k) % 4),
                !.pwdata = IF c.op = "write" THEN WordData(c, k) ELSE @,
                !.pstrb = IF c.op = "write" THEN WordStrb(c, k) ELSE @]

Setup(c, k) ==
  [Quiet EXCEPT !.psel = TRUE, !.pwrite = c.op = "write",
                !.paddr = AddrAt(c, k) - (AddrAt(c, k) % 4),
                !.pwdata = IF c.op = "write" THEN WordData(c, k) ELSE @,
                !.pstrb = IF c.op = "write" THEN WordStrb(c, k) ELSE @]

\* apb_write and apb_read begin: some idle cycles, then the setup phase.
Pause ==
  /\ phase' = "pause"
  /\ bus' = Quiet
  /\ UNCHANGED respPending

Select(c, k) ==
  /\ phase' = "setup"
  /\ bus' = Setup(c, k)
  /\ respPending' = respPending + 1

\* Mutant: the loop of delay cycles is never left.
StartPiecePaused(c, k) == Pause

StartPiece(c, k) == Pause \/ Select(c, k)

Begin(c) ==
  /\ call = NoCall
  /\ call' = c
  /\ at' = 0
  /\ got' = <<>>
  /\ done' = 0
  /\ StartPiece(c, 0)
  /\ UNCHANGED <<store, last>>

Paused == phase = "pause" /\ StartPiece(call, at) /\ UNCHANGED <<at, got>>

Enable ==
  /\ phase = "setup"
  /\ phase' = "access"
  /\ bus' = [bus EXCEPT !.penable = TRUE]
  /\ UNCHANGED <<at, got, respPending>>

NotReady(pready) ==
  /\ phase = "access" /\ ~pready
  /\ UNCHANGED <<phase, bus, at, got, respPending>>

Bytes(word, k) == [x \in 1 .. PieceSize(call, k) |-> word[(AddrAt(call, k) % 4) + x - 1]]

\* The word is done; the next one may be set up at once.
Done(pready, prdata) ==
  LET next == at + PieceSize(call, at)
  IN /\ phase = "access" /\ pready
     /\ got' = IF call.op = "read" THEN got \o Bytes(prdata, at) ELSE got
     /\ at' = next
     /\ \/ /\ next < Len(call.data)
           /\ \/ phase' = "pause" /\ bus' = Quiet /\ respPending' = respPending - 1
              \/ phase' = "setup" /\ bus' = Setup(call, next) /\ UNCHANGED respPending
        \/ /\ next = Len(call.data)
           /\ phase' = "none" /\ bus' = Quiet /\ respPending' = respPending - 1

Between == phase = "none" /\ UNCHANGED <<phase, bus, at, got, respPending>>

Return ==
  /\ call # NoCall /\ phase = "none"
  /\ call' = NoCall
  /\ UNCHANGED <<at, got, phase, bus, respPending, store, done, last>>

------------------------------------------------------------------------------
\* The slave, and one clock edge.

Taken(pready) == bus.psel /\ bus.penable /\ pready
WordAddr == bus.paddr \div 4

SlaveEdge(pready) ==
  store' = IF Taken(pready) /\ bus.pwrite
           THEN [store EXCEPT ![WordAddr] =
                  [l \in Lanes |-> IF l \in bus.pstrb THEN bus.pwdata[l] ELSE @[l]]]
           ELSE store

Edge(pready) ==
  /\ Paused \/ Enable \/ NotReady(pready) \/ Done(pready, store[WordAddr]) \/ Between
  /\ SlaveEdge(pready)
  /\ done' = IF Taken(pready) /\ bus.pwrite THEN done + PieceSize(call, done) ELSE done
  /\ last' = [bus |-> bus, taken |-> Taken(pready)]
  /\ UNCHANGED call

ApbInit ==
  /\ call = NoCall
  /\ at = 0
  /\ got = <<>>
  /\ phase = "none"
  /\ bus = Quiet
  /\ respPending = 0
  /\ store \in [0 .. NumWords - 1 -> Word]
  /\ done = 0
  /\ last = [bus |-> Quiet, taken |-> FALSE]

ApbNext ==
  \/ \E pready \in BOOLEAN : Edge(pready)
  \/ \E c \in Calls : Begin(c)
  \/ Return

ApbSpec == ApbInit /\ [][ApbNext]_apbVars

\* rand() does not say "delay" for ever, and the slave is not busy for ever.
ApbFairness ==
  /\ WF_apbVars(Return)
  /\ WF_apbVars(\E pready \in BOOLEAN : Edge(pready))
  /\ SF_apbVars(phase # "setup" /\ (\E pready \in BOOLEAN : Edge(pready)) /\ phase' = "setup")
  /\ SF_apbVars(phase = "access" /\ Edge(TRUE))

FairApbSpec == ApbSpec /\ ApbFairness

------------------------------------------------------------------------------
\* Properties.

\* The rules of APB from one edge to the next: setup is followed by access,
\* access is held until it is taken, and nothing is enabled that was not set up.
ApbRules ==
  LET was == last.bus
  IN IF was.psel /\ ~last.taken THEN bus = [was EXCEPT !.penable = TRUE]
     ELSE ~bus.penable

\* The calls of the driver are those of BlockDriver.
Memory  == [a \in Addrs |-> store[a \div 4][a % 4]]
Promise == INSTANCE BlockDriver WITH NumBytes <- AddrSpace, memory <- Memory

IsBlockDriver == Promise!Spec

\* Every call returns.
CallsReturn == call # NoCall ~> call = NoCall

==============================================================================
