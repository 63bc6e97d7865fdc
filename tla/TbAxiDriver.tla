----------------------------- MODULE TbAxiDriver -----------------------------
(***************************************************************************)
(* The AXI driver of the testbench, tb_axi4_driver.cpp: a call cuts its     *)
(* block into requests (Begin), then loops over clock edges until every     *)
(* response is in (WriteLoop, ReadLoop), and returns (Return).  What        *)
(* delay_cycle() and get_rand_id() draw is left open.                       *)
(*                                                                          *)
(* out is the axi4_master it drives, with a channel that is not valid as    *)
(* the empty set; s is the axi4_slave it sees.  A word is a function of the *)
(* byte lanes, lane 0 the lowest.                                           *)
(***************************************************************************)
EXTENDS AxiBurst, Sequences, FiniteSetsExt

CONSTANTS
  Calls,  \* what the test may call: [op, addr, data, mask] as in BlockDriver
  Ids,    \* what get_rand_id() may draw
  m_enable_bursts

VARIABLES
  call,         \* the call under way
  got,          \* the bytes a read has put into its buffer
  reqQ,         \* req_q: requests not yet driven
  respQ,        \* resp_q: responses expected
  split,        \* split_addr_data: the address is out, its data is not
  out,          \* axi_out
  respPending   \* m_resp_pending

driverVars == <<call, got, reqQ, respQ, split, out, respPending>>

Lanes == 0 .. 3
NoCall == [op |-> "idle", addr |-> 0, data |-> <<>>, mask |-> {}]

\* axi4_master::init
Quiet == [ar |-> {}, aw |-> {}, w |-> {}, rready |-> FALSE, bready |-> FALSE]

------------------------------------------------------------------------------
\* The calls of the API.

WriteBlock(addr, data) ==
  [op |-> "write", addr |-> addr, data |-> data, mask |-> 0 .. Len(data) - 1]
ReadBlock(addr, length) ==
  [op |-> "read", addr |-> addr, data |-> [k \in 1 .. length |-> 0], mask |-> {}]

\* Little-endian.  Without a mask a word is a block of four bytes, as the calls
\* for a single byte are of blocks of one.
BytesOf(word) == [k \in 1 .. 4 |-> word[k - 1]]

Write32(addr, word, mask) == [WriteBlock(addr, BytesOf(word)) EXCEPT !.mask = mask]

------------------------------------------------------------------------------
\* Cutting a block into bursts.

BURSTABLE(addr, length, size) == addr % size = 0 /\ length >= size

LargestOr1(sizes) == IF sizes = {} THEN 1 ELSE Max(sizes)

ReadChunk(addr, length) == LargestOr1({n \in {4, 8, 16, 32} : BURSTABLE(addr, length, n)})

\* Mutant: a word on its own is a burst, and all of its lanes are strobed.
WriteChunkEvenOne(addr, length) == ReadChunk(addr, length)

\* A word on its own is not a burst: it may have a mask.
WriteChunk(addr, length) ==
  LargestOr1({n \in {4, 8, 16, 32} : BURSTABLE(addr, length, n) /\ (n = 4 => length > 4)})

\* The bytes of a chunk of 1 are those up to the end of the word.
PieceSize(addr, length, chunk) == IF chunk = 1 THEN Min({4 - (addr % 4), length}) ELSE chunk

\* The piece that starts at offset k of a block, as [from, addr, chunk, size].
PieceAt(c, k) ==
  LET addr   == (c.addr + k) % AddrSpace
      length == Len(c.data) - k
      chunk  == IF ~m_enable_bursts THEN 1
                ELSE IF c.op = "write" THEN WriteChunk(addr, length) ELSE ReadChunk(addr, length)
  IN [from |-> k, addr |-> addr, chunk |-> chunk, size |-> PieceSize(addr, length, chunk)]

\* The pieces of a block.
Cut(c) ==
  LET rest[k \in 0 .. Len(c.data)] ==
        IF k = Len(c.data) THEN <<>> ELSE <<PieceAt(c, k)>> \o rest[k + PieceAt(c, k).size]
  IN rest[0]

------------------------------------------------------------------------------
\* The requests of a piece, and the responses it expects.

Aligned(addr) == addr - (addr % 4)

\* initial_mask: 0xF except for a masked word.
InitialMask(c) == IF c.mask = 0 .. Len(c.data) - 1 THEN Lanes ELSE c.mask

SingleWrite(c, p, id) ==
  LET lane(x) == (p.addr % 4) + x
      given   == 0 .. p.size - 1
  IN <<[Quiet EXCEPT
          !.aw = {[addr |-> Aligned(p.addr), type |-> FIXED, len |-> 0, id |-> id]},
          !.w = {[data |-> [l \in Lanes |-> IF \E x \in given : lane(x) = l
                                            THEN c.data[p.from + (l - (p.addr % 4)) + 1] ELSE 0],
                  strb |-> {lane(x) : x \in given \intersect InitialMask(c)},
                  last |-> TRUE]},
          !.bready = TRUE]>>

\* One request per beat; only the first has the address.
BurstWrite(c, p, id) ==
  LET beats == p.chunk \div 4
  IN [i \in 1 .. beats |->
       [Quiet EXCEPT
          !.aw = IF i = 1 THEN {[addr |-> p.addr, type |-> INCR, len |-> beats - 1, id |-> id]} ELSE {},
          !.w = {[data |-> [l \in Lanes |-> c.data[p.from + 4 * (i - 1) + l + 1]],
                  strb |-> Lanes, last |-> i = beats]},
          !.bready = i = 1]]

WriteRequests(c, p, id) == IF p.chunk = 1 THEN SingleWrite(c, p, id) ELSE BurstWrite(c, p, id)

ReadRequest32(p, id) ==
  [Quiet EXCEPT !.ar = {[addr |-> Aligned(p.addr),
                         type |-> IF p.chunk = 1 THEN FIXED ELSE INCR,
                         len |-> IF p.chunk = 1 THEN 0 ELSE (p.chunk \div 4) - 1, id |-> id]}]

\* axi_resp_t, one for each beat.
ReadResponses(p, id) ==
  IF p.chunk = 1 THEN <<[addr |-> p.addr, size |-> p.size, id |-> id, last |-> TRUE]>>
  ELSE [i \in 1 .. p.chunk \div 4 |->
         [addr |-> p.addr + 4 * (i - 1), size |-> 4, id |-> id, last |-> i = p.chunk \div 4]]

Concat(s) == LET upTo[k \in 0 .. Len(s)] == IF k = 0 THEN <<>> ELSE upTo[k - 1] \o s[k]
             IN upTo[Len(s)]

------------------------------------------------------------------------------
\* The driver's steps.

\* A call comes in: its queues are built before the first clock edge.
BeginWrite(c) ==
  /\ c.op = "write"
  /\ LET pieces == Cut(c)
     IN \E id \in [DOMAIN pieces -> Ids] :
          /\ reqQ' = Concat([k \in DOMAIN pieces |-> WriteRequests(c, pieces[k], id[k])])
          /\ respQ' = [k \in DOMAIN pieces |-> [id |-> id[k]]]

BeginRead(c) ==
  /\ c.op = "read"
  /\ LET pieces == Cut(c)
     IN \E id \in [DOMAIN pieces -> Ids] :
          /\ reqQ' = [k \in DOMAIN pieces |-> ReadRequest32(pieces[k], id[k])]
          /\ respQ' = Concat([k \in DOMAIN pieces |-> ReadResponses(pieces[k], id[k])])

Begin(c) ==
  /\ call = NoCall
  /\ BeginWrite(c) \/ BeginRead(c)
  /\ call' = c
  /\ got' = <<>>
  /\ split' = FALSE
  /\ UNCHANGED <<out, respPending>>

Looping == reqQ # <<>> \/ respQ # <<>>

Return ==
  /\ call # NoCall
  /\ ~Looping
  /\ call' = NoCall
  /\ UNCHANGED <<got, reqQ, respQ, split, out, respPending>>

Count(b) == IF b THEN 1 ELSE 0

\* What of the last edge's outputs is still to be taken.
Untaken(s) == [out EXCEPT !.aw = IF s.awready THEN {} ELSE @,
                          !.w  = IF s.wready THEN {} ELSE @,
                          !.ar = IF s.arready THEN {} ELSE @]

\* !delay_cycle(): whether it takes an answer in the next cycle.
Ready(o, ready) == IF call.op = "write" THEN [o EXCEPT !.bready = ready] ELSE [o EXCEPT !.rready = ready]

\* Nothing new is driven: it cannot be, or delay_cycle() says so.
Hold(left, ready) ==
  /\ out' = Ready(left, ready)
  /\ UNCHANGED <<reqQ, split>>

\* Mutant: the address is sent once more with the data that was held back.
IssueDataAgain(left, ready) ==
  /\ split
  /\ out' = Ready(Head(reqQ), ready)
  /\ reqQ' = Tail(reqQ)
  /\ split' = FALSE

\* The data that was held back, with the address if it has not been taken.
IssueData(left, ready) ==
  /\ split
  /\ out' = Ready([Head(reqQ) EXCEPT !.aw = IF left.aw = {} THEN {} ELSE @], ready)
  /\ reqQ' = Tail(reqQ)
  /\ split' = FALSE

CanIssue(left) == ~split /\ left.aw = {} /\ left.w = {} /\ left.ar = {} /\ reqQ # <<>>

IssueWhole(left, ready) ==
  /\ CanIssue(left)
  /\ out' = Ready(Head(reqQ), ready)
  /\ reqQ' = Tail(reqQ)
  /\ UNCHANGED split

\* Mutant: the address leaves the queue, and its data with it.
IssueAddressOnly(left, ready) ==
  /\ CanIssue(left)
  /\ Head(reqQ).aw # {}
  /\ out' = Ready([Head(reqQ) EXCEPT !.w = {}], ready)
  /\ reqQ' = Tail(reqQ)
  /\ UNCHANGED split

\* The address goes first; its data stay at the head of the queue.
IssueAddress(left, ready) ==
  /\ CanIssue(left)
  /\ Head(reqQ).aw # {}
  /\ out' = Ready([Head(reqQ) EXCEPT !.w = {}], ready)
  /\ split' = TRUE
  /\ UNCHANGED reqQ

\* One turn of the loop of write_internal.
WriteLoop(s) ==
  /\ call.op = "write" /\ Looping
  /\ \E ready \in BOOLEAN :
       \/ Hold(Untaken(s), ready)
       \/ IssueData(Untaken(s), ready)
       \/ IssueWhole(Untaken(s), ready)
       \/ IssueAddress(Untaken(s), ready)
  /\ respQ' = IF s.bvalid /\ out.bready THEN Tail(respQ) ELSE respQ
  /\ respPending' = respPending + Count(out.aw # {} /\ s.awready) - Count(s.bvalid /\ out.bready)
  /\ UNCHANGED <<call, got>>

\* The bytes of a beat that were asked for.
BytesRead(resp, word) == [x \in 1 .. resp.size |-> word[(resp.addr % 4) + x - 1]]

\* One turn of the loop of read.
ReadLoop(s) ==
  /\ call.op = "read" /\ Looping
  /\ \E ready \in BOOLEAN :
       \/ Hold(Untaken(s), ready)
       \/ IssueWhole(Untaken(s), ready)
  /\ IF s.rvalid /\ out.rready
     THEN /\ got' = got \o BytesRead(Head(respQ), s.rdata)
          /\ respQ' = Tail(respQ)
     ELSE UNCHANGED <<got, respQ>>
  /\ respPending' = respPending + Count(out.ar # {} /\ s.arready)
                                - Count(s.rvalid /\ out.rready /\ s.rlast)
  /\ UNCHANGED <<call, split>>

\* Between calls nothing is taken and nothing changes.
NoLoop == ~Looping /\ UNCHANGED driverVars

DriverEdge(s) == WriteLoop(s) \/ ReadLoop(s) \/ NoLoop

DriverInit ==
  /\ call = NoCall
  /\ got = <<>>
  /\ reqQ = <<>>
  /\ respQ = <<>>
  /\ split = FALSE
  /\ out = Quiet
  /\ respPending = 0

------------------------------------------------------------------------------
\* The driver's own assertions, on what it sees at an edge: every answer is to
\* a request, the oldest one, and the last beat is marked.
ResponseExpected(s) ==
  /\ call.op = "write" /\ Looping /\ s.bvalid /\ out.bready =>
       respQ # <<>> /\ s.bid = Head(respQ).id /\ respPending > 0
  /\ call.op = "read" /\ Looping /\ s.rvalid /\ out.rready =>
       /\ respQ # <<>> /\ s.rid = Head(respQ).id /\ s.rlast = Head(respQ).last
       /\ s.rlast => respPending > 0

\* Beats of the address last driven that are still to be driven.
BeatsOwed ==
  LET others == {k \in DOMAIN reqQ : reqQ[k].w = {} \/ (reqQ[k].aw # {} /\ ~(split /\ k = 1))}
  IN IF others = {} THEN Len(reqQ) ELSE Min(others) - 1

==============================================================================
