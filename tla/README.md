# A verified model of core_sdram_axi4

core_sdram_axi4 is an SDRAM controller written in Chisel: a 32-bit AXI4 slave in
front of one or two 16-bit SDRAM chips, and a Verilator/SystemC testbench that
drives it. These TLA+ modules model the hardware clock cycle by clock cycle and
the testbench edge by edge (its kernel, delta cycle by delta cycle), check them
with TLC on small parts and prove with TLAPS, for parts of any size and any
delays, nearly all of what TLC checks: of the controller and of the chip, alone and
together, of the AXI port in front of them, and of the testbench, its two drivers,
its random test and its simulation. Liveness is model-checked only.

Source paths below are relative to `src/src/` of the repository.

## 1. The system

| Part | Source | State | Steps |
|---|---|---|---|
| SdramCore, the controller | `scala/SdramCore.scala` | a ten-state machine, the delay and power-up counters, the latched request, the book of open rows, the refresh counter, the registered pins, the data and acknowledgement pipelines | one per clock edge: the branch of `stateQ`, plus everything that is clocked in every state |
| SdramMem, a synthesisable chip | `scala/SdramMem.scala` | the mode register, the active row of each bank, two burst counters and the burst address, the storage and its output | one per clock edge: the branch of the command on the pins |
| TriStateInBuf | `scala/TriState.scala` | none | which side drives the shared data pins |
| SdramAxiPmem, the AXI front end | `scala/SdramAxiPmem.scala` | a read and a write state machine with their burst registers, two queues of four, three four-bit counters, a round-robin arbiter | one per clock edge, the two machines side by side |
| SdramAxiTop | `scala/SdramAxi.scala` 46-72 | none of its own | wires the front end to one controller |
| SdramInterleaveTop | `scala/SdramAxi.scala` 74-139 | a queue of the chips that owe an acknowledgement | wires the front end to two controllers, odd and even words apart |
| SdramParams, SDRAMIO | `scala/SdramAxi.scala` 11-44 | none | nanoseconds to cycles; the pin bundle |
| AXI4SDRAM, SDRAMAxiSimTop, Elaborate | `scala/` | none | wrappers for a rocket-chip bus, for the simulation, for Verilog |
| AXI driver | `cxx/tb_axi4_driver.cpp` | queues of requests and expected responses, what is on its channels | cuts a block into bursts, then one per clock edge, with random delays; calls begin and return |
| APB driver | `cxx/tb_apb_driver.cpp` | the bus, the count of responses it waits for | transfers a block word by word, one step per clock edge |
| reference memory | `cxx/tb_memory.h` | a table of regions | adds a region, writes and reads bytes |
| random test | `cxx/tb_mem_test.cpp` | the test case under way, the iterations left | one of four cases per turn: calls the driver and compares |
| simulation harness | `cxx/main.cpp`, `testbench.h`, `testbench_vbase.h`, `sc_reset_gen.h`, `sdram_axi.cpp`, `axi4.h` and their like for APB | the signals, the semaphores, where each thread waits | the processes of a SystemC simulation: reset, testbench, test, the wrapper of the design and the design |

**How they interact.** Everything is clocked by one edge. The front end presents
a request (read, or write with its strobe, address and data) on a port; the
controller looks at the port in `idle` and at the end of a burst beat, latches
address and strobe, opens the row, and accepts *whatever is on the port* in the
one cycle it spends in `read` or `write0`. Two cycles after a write and five after
a read it acknowledges, with the word. The port has no request id: the front end
tells whose acknowledgement it is by never having reads and writes unacknowledged
at the same time. The controller's command pins are registered, so the chip acts
one cycle later; the data pins are shared.

In the testbench a test writes and reads blocks through a driver with one
interface (`tb_driver_api.h`); the driver and the verilated design meet at clock
edges, by signals that a SystemC method copies from one to the other.

**What is hard.**

* The controller keeps its own book of open rows and the chip keeps another, one
  command behind; hits, conflicts in a bank, refreshes and bursts that go on in
  place all change them.
* Requests are latched in one cycle and accepted in a later one; the arbiter may
  turn to the other side in between, so that the controller serves a request that
  is no longer presented, and acknowledges it.
* Pipelines of different depth (output enables, samples, acknowledgements, the
  upper half-word) have to agree with each other and with the chip's latency.
* A refresh may fall due in any cycle, also the one in which the last is served.
* Queues are filled without a look at their `ready`: counters must bound them.
* Two sides compete for one port and wait for each other's acknowledgements.
* Two controllers answer at their own pace: the words have to come back in the
  order they were asked for, and an acknowledgement nobody owes may arrive.
* The AXI driver sends address and data in any order and matches responses with
  requests by their order alone; blocks start and end inside words.
* The order of processes within a delta cycle is not defined: clock, reset and
  inputs have to reach the design, and semaphores the threads, in any order.

`PROJECT.json` lists these as hazards at their lines, with the properties that
cover each, or why none does yet.

**What makes each part correct.** The controller: it never breaks the chip's
rules, serves what it accepted, in order, from the right row, never fights the
chip for the pins, refreshes in time, and does not starve a held request. The
chip: a burst touches exactly its columns. The front end: it asks for the words
AXI prescribes, loses no word and no acknowledgement, serves nothing stale,
answers a write when it is in the chip, and answers in the end. The drivers: a
call is one on a memory of bytes, it keeps the rules of its bus, and returns. The
test: its comparisons hold whenever the driver keeps its promise, so that one
that fails tells of the design. The harness: it simulates two machines on one
clock, and comes to its end.

## 2. Modules

    SdramIO                 parameters, words and half-words, addresses, pins
      SdramCore             the controller
      SdramMem              the chip
        SdramHost           the chip alone, driven by any legal host
      SdramChip             controller + chip + data pins, and any client
        SdramTiming         with stopwatches on the command pins
        SdramPort           with a client that holds its requests
                            ... implements WordMemory
        SdramAxiTop         with SdramAxiPmem and an AXI master
    SdramInterleave         two SdramChips, SdramAxiPmem and an AXI master
    AxiBurst                addresses of a burst, and AXI's rule for them
      SdramAxiPmem          the AXI front end
        AxiMaster           a master on its AXI port
      TbAxiDriver           the AXI driver of the testbench
        TbAxi               driver + SdramAxiPmem + a memory of words
                            ... implements BlockDriver, AxiMaster, and the
                            client of WordMemory
    TbApb                   the APB driver on a slave with wait states
                            ... implements BlockDriver
    TbMemory                the reference memory
      TbMemTest             the random test, on BlockDriver
    ScTestbench             the simulation, by delta cycles
                            ... implements SyncBus
    WordMemory              abstract: an atomic memory of words
    BlockDriver             abstract: calls on a memory of bytes
    SyncBus                 abstract: a driver and a design on one clock
    SdramChipProofs         lemmas about addresses and cells; theorems about
                            SdramChip: states, rows, refreshes, pins, bursts
      SdramPortProofs       theorems about SdramPort (it is a WordMemory, and
                            accepts in time), SdramTiming and SdramHost
    AxiMasterProofs         lemmas about the front end, its master and bursts
      SdramAxiTopProofs     theorems about SdramAxiTop (with SdramChipProofs)
      SdramInterleaveProofs theorems about SdramInterleave (with two
                            INSTANCEs of SdramChipProofs)
    TbAxiProofs             theorems about TbAxi
    HarnessProofs           theorems about TbApb and ScTestbench
    TbMemTestProofs         theorem about TbMemTest
    MC*                     values of the constants for TLC

Registers keep their names; a step of `SdramCore` is one action per branch of
`switch(stateQ)` (`PowerUp`, `IdleRefresh`, `IdleHit`, `IdleMiss`, `IdleWait`,
`Activate`, `Read`, `ReadWait`, `Write0`, `Write1`, `PrechargeAll`,
`PrechargeBank`, `Refresh`, `Delay`) conjoined with `RefreshTimer` and
`DataPipeline`, which are clocked in every state. `SdramMem` has one action per
command, `SdramAxiPmem` one per state of each machine, conjoined with the queues,
the counters and the arbiter. Combinational signals are operators. A step of
`SdramAxiTop` is one step of the front end, the controller and the chip together,
one of `SdramInterleave` a step of the front end and of both controllers and
chips; each chip is an INSTANCE of `SdramChip` (by way of `SdramChipProofs`, so that
what is proved about one can be cited for both) with registers of its own.

The three abstract specifications chain the parts: `SdramPort` shows the
controller and the chip to be a `WordMemory`; `TbAxi` puts driver and front end on
a `WordMemory` and shows a `BlockDriver`; `TbMemTest` runs the test on a
`BlockDriver`. `TbAxi` also shows that the driver is a master `AxiMaster` allows (with
which the front end is checked in detail and proved), and that behind the front
end it is a client that holds its requests, which `SdramPort` assumes. `SyncBus` says
that all of this, which is modelled by clock edges, is what the SystemC
simulation does.

A driver takes one step per turn of its loop (`WriteLoop`, `ReadLoop` of `TbAxiDriver`;
`Enable`, `NotReady`, `Done` of `TbApb`); calls begin and return between two edges
(`Begin`, `Return`). `delay_cycle()` and `get_rand_id()` are free choices. In `ScTestbench`
an action is what a process does between one wait and the next; `Update` and
`Advance` are the kernel.

**Abstractions.** A word is a function from byte lanes to bytes, with as few
values for a byte as a run needs; a strobe or mask is a set of lanes. The fields
of an address (column, bank, row) are computed from a word address with `%` and
`\div`, the bit slices of the code. `cs, ras, cas, we` are one command name, and
address line 10 is kept apart from the others. A master channel is the set of
the item on it, or the empty set when `valid` is low; a master is ready only when
there is an answer to take, which is the only time it matters. The AXI transaction ids,
`RRESP`, `BRESP` and the length on the port, which the controller ignores, are left
out. Registers without a reset value start with any value (`outEnQ`, `ackQ`,
`dqm`, the last sample, the chip's output enable, the arbiter's register); those that
are loaded before anything reads them start with one, and in the runs with two
chips (`MCInit` of the MC module) so do `hiDataQ` and the samples, which the
power-up sequence overwrites a hundred times. Pins nobody drives,
and a storage output without a read enable, read as the byte `Junk`. A tick of the
clock is a step; there is no other time. In `TbAxi` data are single bytes per lane and a
block is a sequence of them; the ids are kept there, because the driver asserts
them.

**Code outside `src/`.** Chisel's `Queue` (no flow, no pipe), `Counter`,
`ShiftRegister`, `RegNext` and `RRArbiter` are modelled by their documented
behaviour, in the definitions that stand for their use. A register declared
inside a `when` is clocked in every cycle, which is what `hiDataQ` and
`initTimerQ` are. `sc_signal`, `sc_semaphore` and `SC_CTHREAD` are modelled the same way;
the verilated design in `ScTestbench` is any function of its registers and inputs at
a rising edge, and the slave in `TbApb` any memory that takes its time.

## 3. What is checked

Part sizes: two rows of one or two words in each of the four banks (the code
fixes two bank bits), one row for the chip alone. That gives hits, misses in a
closed bank, conflicts in an open bank and other banks; more rows or columns
repeat them. Delays are those `SdramParams` derives for 50 MHz (1, 1 and 3
cycles) unless said otherwise, the power-up delay is cut from 5000 cycles to 0 (100
cycles of sequence remain), and the refresh period from 390 cycles to between 12
and 30. The shortest is one more than `ServeBound`, so that refreshes meet every
other event, back to back at times. The longer ones are for what needs room between two
refreshes, such as a row change, a burst and a change of mind of the arbiter:
with 12 or 13 cycles some of those never happen. `AddrSpace` stands for 2^32, which
only matters at the wrap-around.

| Run | Question | Bounds |
|---|---|---|
| `chip_100mhz` | Does the controller keep to the chip's rules with a client that presents, changes and withdraws requests in any cycle (`TypeOK`, `ChipAssertions`, `RightRow`, `BusExclusive`, `BurstsUndisturbed`, `RefreshOnTime`, `PoweredUp`)? Do its commands keep tRCD, tRP and tRFC, in the power-up sequence too (`TimesKept`)? | three addresses (two rows of a bank, another bank); one byte value; the cycle counts of 100 MHz: 2, 2, 6 |
| `port` | Does a client that holds its requests see an atomic memory of words (`IsWordMemory`), and is every held request accepted in the end (`HeldIsAccepted`)? | two words of one row and one of another row of the same bank; two values, a partial strobe, a third value for what was never written; a refresh every 14 cycles |
| `chip_host` | Does the chip itself store and put out exactly the columns of a burst, in every mode, with BURST TERMINATE? `BurstsStored`, `BurstsFetched` | one bank, eight half-words, bursts of 1, 2 and 4, writes burst or not |
| `axi_rows` | Reads and writes that compete for the rows of two banks: is nothing stale served (`LatchedIsNext`), every beat in its place (`BeatsInPlace`), no acknowledgement taken for another (`AcksMatch`), and a write answered only when it is stored (`WrittenBeforeAnswered`)? `PmemTypeOK`, and `IsSdramChip`: the front end is one of the clients the controller is checked and proved for | bursts of two that cross two banks in opposite directions, one of them wrapping |
| `inter_queues` | While one controller opens a row for a read, the arbiter turns to a write that the other accepts at once. With more words read than the queues hold: does the queue of pending chips ever overflow (`PendingAccounted`), is a word lost or out of order (`ReadsAccounted`, `WordsInOrder`), what is served for nothing harmful (`LatchedIsNextOnBoth`), or a write answered for it (`WriteAcksMatch`) or too soon (`WrittenOnBothBeforeAnswered`)? | six beats over two chips, four places in each queue, and a write to another row of one of them; every word holds a value of its own |
| `inter_liveness` | Do both sides finish their bursts with two chips (`ReadsCompleteOnBoth`, `WritesCompleteOnBoth`), though a chip acknowledges while the other is at the head of `pendingQ`, words served for nothing included? Is each controller used as it may be (`AreSdramChips`)? | a read of two words, one of each chip, and a write to another row of the second's bank |
| `tb_axi` | Is a call of the AXI driver one on a memory of bytes, however its block is cut and whatever runs ahead of what (`IsBlockDriver`)? Are its responses those it asserts (`ResponsesExpected`), is it a master `AxiMaster` allows (`IsAxiMaster`) and, behind the front end, a client `SdramPort` assumes (`IsPortClient`), and does every call return (`CallsReturn`)? | five kinds of call: writes of a block of 24 bytes that becomes bursts of four and of two beats, of one across a word boundary and of a masked word, reads of a burst of eight beats and across a boundary; two ids; at most two requests due at the memory |
| `tb_apb` | The same of the APB driver (`IsBlockDriver`, `CallsReturn`), with the rules of APB (`ApbRules`) | sixteen bytes; blocks that start and end inside words and wrap around, masked words, single bytes; any number of wait states and pauses |
| `tb_mem_test` | Do the assertions of the random test hold on a driver that keeps its promise (`AssertsHold`), also with a region inside another, and does it complete (`Completes`)? | two of four regions in twelve bytes, one enclosing the other or beside it, two of them with room for a word (from 0 and from 4); blocks of up to two bytes and words; none, two iterations, or for ever |
| `sc_testbench` | With the processes in every order, are driver and design two machines on one clock (`IsSynchronous`), does the test run as often as it was asked to (`RunsAll`), and does the simulation stop (`Stops`)? | the AXI bus; a driver that changes no wire, one or all; a design that shows what it sampled; two iterations |

`SdramInterleave` is what the simulation and the rocket-chip wrapper build, so the
queues and liveness are checked there; the single controller adds nothing to them.
`WordsInOrder` compares each word in the read queue with what the storage holds at
the address of its beat, for bursts of words nobody writes.

**Two servings of one read.** `AcksMatch` has a margin of exactly one cycle: the
acknowledgement of a read that was served although the arbiter had turned away
comes in the very cycle in which the write that took its place is accepted, one
cycle before it would be counted. In the interleaved design the margin is used
up. A controller that latched a read goes on to serve it after the arbiter has
turned to a write for the other chip. If that write is accepted and acknowledged
at once, the read comes back to the port, finds its row open, and is accepted
while the acknowledgement of the first serving is still on its way; that one is
then taken for the second. The word is the same, so nothing wrong is returned,
and the acknowledgement left over arrives when no read is owed or another chip is
at the head of `pendingQ`, and is dropped. `inter_queues` reaches this, so `AcksMatch`
in its strict form does not hold there; what matters does: `WordsInOrder`,
`PendingAccounted` and `WriteAcksMatch`.

**Fairness.** `ClockedSpec` assumes only that the clock goes on (weak fairness of
the one action). `FairTopSpec` adds the master: it sends the data it owes (weak
fairness), and is ready again and again while an answer waits (strong fairness of
taking it), as the
testbench's driver is, which draws `RREADY` and `BREADY` anew in every cycle
(`tb_axi4_driver.cpp` 179, 308). `InterFairness` says the same of states and of what a
step changes: the clock changes something infinitely often, a master that owes
data does not withhold it for ever (`[]<>(wOwed = 0 \/ w # {})`), and answers that
wait infinitely often are taken infinitely often (`ReadTaken`, `WriteTaken`). It is
equivalent, since none of these steps is ever held up while it is asked for, and far
cheaper to check.

In the testbench a delay is drawn by `rand()`, which is taken not to say "delay" for
ever: `FairTbSpec` asks again and again for an edge at which the driver does not
hold back (`Undelayed`) and one at which the memory serves what it can (`Served`, which
is `HeldIsAccepted` of the controller), `FairApbSpec` for a transfer that is set up and
one that is taken. `FairMemTestSpec` lets the test and its driver go on (the calls
return, by `CallsReturn`), and `FairScSpec` the kernel, with calls that return.

### Disagreements

* `port_cas3`: with `casLatency = 3`, which `README.md` offers for 100 MHz, the
  port answers reads with the wrong half-words: the parameter moves the
  acknowledgement and not the data, and the mode register stays at CAS 2. The
  design is right for `casLatency = 2` only, its default, and every other run is
  at that value.
* `axi_no_strobe`: a beat of write data that strobes no lane, which AXI4 allows
  and the testbench's `write32` with mask 0 sends, is no request to the
  controller; it is never taken off the queue, and the whole port is dead. The
  calls of `tb_axi` strobe at least one lane, as those of the random test do.

## 4. What is proved

`SdramChipProofs` proves about `SdramChip`, for every number of rows and words,
all delays from 1 to 15 cycles, every refresh period, every set of byte values
and every client (the assumptions are the named ASSUMEs of `SdramIO` and
`SdramChip`, nothing else):

* `TypeCorrect`: `Spec => []TypeOK`. One lemma each for the state machine, the
  data pipeline and the chip. That a delay never leaves four bits rests on
  `DelayAssumption`; that the burst address stays in the storage on lemmas about
  mixed-radix addresses (`MixedRadix`, `CellOfWord`).
* `RowsAlwaysAgree`: `Spec => []RowsAgree`, and from it `AssertionsHold` and
  `AlwaysRightRow`. `ChipAssertions` alone is not inductive: whether ACTIVE finds its
  bank closed depends on how the state machine got to `activate`. `RowsAgree`
  says that the controller's book is the chip's record after the command on the
  pins (`OpenAfterPins`, `RowAfterPins`), and what must hold of the book in the
  state the machine is in or, through `delay`, on its way to (`Goal`).
* `RefreshAlwaysOnTime`: `Spec => []RefreshOnTime`. The inductive invariant
  `RefreshNears` carries a measure, `CyclesLeft`, the most cycles the machine can
  still take to the refresh state from where it is; once a refresh is due it
  shrinks by one in every cycle, whatever the client does, because `BurstOn`
  gives way. `NoRefreshLost` follows: with a period longer than `ServeBound`
  (11 cycles at 50 MHz, against a period of 390), no tick finds a refresh due.

* `AlwaysPoweredUp`: `Spec => []PoweredUp`. The invariant (`PowerInv`) follows the
  countdown of the power-up sequence down to the LOAD MODE and then carries what
  the mode register holds.
* `BurstsNeverDisturbed` and `BusAlwaysExclusive`: `Spec => []BurstsUndisturbed` and
  `[]BusExclusive`. The invariant (`BurstInv`) ties the burst counters of the chip
  to the controller's state and the command on the pins, and the two output enables
  to the stages of the pipelines: `delay` after a read lasts longer than the chip
  drives.

`SdramPortProofs` proves `ImplementsWordMemory`: if `CasLatency = 2`, then
`PortSpec => IsWordMemory`. A client that holds its requests sees a memory that
serves one read or write of a word at a time, each at once and in the order in
which it accepts them, for every geometry, every delay, every strobe and whatever
the client asks for. The hypothesis is needed (`port_cas3`). The proof relates what
is on its way through controller and chip to what it will become:

* The storage the abstract memory shows, `Store`, is the chip's with both half-words
  of the writes under way in it. Which half-word lands where follows from
  the state and the pins (`LowLanding`, `Landing`), and that it is the one the client
  asked for from `RowsAgree` and the arithmetic of addresses (`CellOfWord`: row, bank and
  column of an address name the cells of its word, and of no other). So the storage
  changes when a write is accepted (`StoreOfWrite`) and at no other time.
* `ReadInFlight(i)` is the word a read will be answered with, taken from where its
  halves are i cycles after it was accepted (in the storage, one of them put out by
  the chip, sampled). `InFlight` ties the stages to the pins, the burst counters and the
  output enables, from which it follows that a read carries its word unchanged
  from stage to stage (`ReadsMoveOn`). A read that is accepted finds the writes before
  it landing (`Store`), and the reads have drained when a write is accepted
  (`ReadsDrain`), so that none of either overtakes the other.
* `Held` says that what the controller latched is what the client still holds,
  which is what makes the request accepted the one whose row was opened.
* What the abstract memory owes, oldest first, is the concatenation of the stages
  (`OwedIsStages`), so that one cycle drops its head and appends what is accepted.

`HeldIsAcceptedInTime` is what a proof of safety can say of `HeldIsAccepted`, and it says
how long it takes. While a request is held and not accepted, `CyclesToAccept` falls in
every cycle (`HeldNears`), from at most `AcceptBound` once the power-up sequence is over: 13
cycles at 50 MHz, those of a request for another row that meets a refresh. The
measure counts the way from each state to `read` or `write0`, and through a refresh
first if one is due or may fall due on the way. The hypothesis is that a
period is longer than `ServeBound + TrfcCycles` (14 cycles, of 390), so that the next
refresh does not fall due before the request is served; in a cycle fewer TLC
finds a request that two refreshes overtake.

`TimesAlwaysKept`, in the same module: `TimingSpec => []TimesKept`, under the
assumption that `TrpCycles` and `TrfcCycles` are at most ten. It is needed: the
power-up sequence leaves ten cycles between its commands whatever the parameters
say (with `TrfcCycles = 11` TLC finds the second REFRESH too early). At 100 MHz they
are 2 and 6. The invariant `TimesNear` says that what a stopwatch will show, plus
the delay that is still to come, is enough.

`BurstsAlwaysStored` and `BurstsAlwaysFetched` are about the chip alone, with any host
`SdramHost` allows: every geometry, every burst length, interrupted or not. The
invariant (`HostInv`) says that the burst counters and the address are those of
the columns sent and asked for so far, one burst at a time, and that the storage is the
filling of what the burst found. The reference, `Stored`, is a recursive function: that there
is one is kept from column to column (`FillingGrows`), and that there is no
other (`OneFilling`) follows from the least column in which two would differ.

`SdramAxiTopProofs` carries this to the AXI port, for every master that keeps to
`AxiMaster`: every set of bursts (of all types and lengths), every data, every
multiple of 64 bytes as the address space.

* `FrontEndTypeCorrect` and `ReadsAlwaysAccounted`: `TopSpec => []PmemTypeOK` and
  `[]ReadsAccounted`. The two are one induction (`FrontEndStep` in
  `AxiMasterProofs`): that the four-bit counters do not wrap and that the read
  queue, which is filled without a look at its `ready`, has room rests on the
  accounts being exact (`rOutstanding = rAckPending + Len(rDataQ)`), and these on
  the counters not wrapping. The lemma assumes nothing of the controller: it may
  accept and acknowledge as it likes.
* `ImplementsSdramChip`: `TopSpec => IsSdramChip`, the specification of
  `SdramChip`. Every step maps to a step of controller and chip with some client,
  because what the arbiter lets through is always a request of
  `FrontEndAssumption` (`PortRequestType`: never a read and a write at once).
* `SafeBehindAxi` follows: `ChipAssertions`, `RightRow`, `RefreshOnTime`, `PoweredUp`,
  `BurstsUndisturbed` and `BusExclusive` hold behind the AXI port.
* `EveryBeatInPlace`: `TopSpec => []BeatsInPlace`, if the master asks for bursts AXI
  allows (`BurstsLegal`: any start; 1, 2, 4, 8 or 16 beats if they wrap). `AxiMasterProofs`
  has the step of an address for each type; the length of a wrapping burst is a
  power of two, so that it is five cases and no induction.
* `LatchedAlwaysNext`: `TopSpec => []LatchedIsNext`. What the controller has latched
  and is going to serve is the next beat of its side, though the arbiter may have
  turned away from it meanwhile. The invariant (`LatchedInv`) has to say of
  every state on the way to an access, and of every stretch of `delay` that leads
  there (`Heading` of `SdramChipProofs`), that the side still asks for the beat whose address
  (and strobe) was latched: a beat moves on only when the controller accepts it.
* `AcksAlwaysMatch`: `TopSpec => []AcksMatch`, the margin of one cycle. It needs that
  only one side at a time has acknowledgements to come, and that reads in the
  pipeline which nobody waits for leave no write accepted (`AcksInv`: the arbiter
  has turned from a read to a write, which is still asking). When that write is
  served they have drained (`ReadsDrain`) but for the one acknowledged in this cycle.
* `AlwaysWrittenBeforeAnswered`: `TopSpec => []WrittenBeforeAnswered`. The last beat's
  acknowledgement comes two cycles after the write was accepted; `WrittenInv` says
  that it is still owed while a half-word of it is on its way, and that the answer
  waits until no acknowledgement is owed.

`SdramInterleaveProofs` does the same for two chips, with the same `FrontEndStep`
and the theorems of `SdramChipProofs` for each instance:
`InterleavedReadsAccounted`, `ImplementsSdramChips` (`InterSpec => AreSdramChips`),
`SafeOnBothChips` and `EveryBeatInPlaceOnBoth`. `PendingAlwaysAccounted` is about the
queue of pending chips, which is filled without a look at its `ready`:
`InterSpec => []PendingAccounted`. Reads in flight are bounded by the counter that
bounds the read queue; nothing bounds the writes but that each is acknowledged
two cycles after it is accepted, and that no read is owed an acknowledgement while
one is. `PendingInv` says so: there is one pending write, or two of which the older
is acknowledged in this very cycle. `LatchedAlwaysNextOnBoth`, `WriteAcksAlwaysMatch` and
`AlwaysWrittenOnBothBeforeAnswered` are the theorems about what is served, whose
acknowledgement is whose and when a write is answered; here an acknowledgement
of a read may be taken for another one's (see "Two servings of one read"), and the
proof of the second shows that it cannot be taken for a write's.

`WordsAlwaysInOrder`: `InterSpec => []WordsInOrder`, if `CasLatency = 2` and the master asks
for bursts AXI allows. The first is needed for the reason of `port_cas3`, the second in
`NextWord` below.
The words in `rDataQ` and those still to come are those of the next beats of the
burst, each from its place, although acknowledgements carry no name:

* The requests in `pendingQ` are matched with reads under way in their chips
  (`ReadsUnderWay`): there are ages, falling along the queue (`AgesFit`), such that the read of
  that age in that chip carries what is kept at the place of that beat. A chip
  takes five cycles to every read, so the older is answered first.
* A read served for nothing puts more reads under way than are owed. Whichever
  acknowledgement is then taken, it carries the same word (`OneWord`), because a
  controller goes on in place (`read_wait` to `read`) only at one word: two beats in
  a row are at one word or on different chips (`NextWord`), so what a controller has
  latched when its side asks again is that word (`RetriesLatched`).
* Words nobody writes have no half-word on its way to them (`Settled`, `SettledKept`)
  and keep what they hold (`WordsKept`), so that a word stays the one of its beat while it
  waits in the queue (`OrderKept`). A part repeats in the address space: the words
  of a burst are taken modulo the size of the two chips (`BurstWords`).

`TbAxiProofs` is about the AXI driver, the front end and a memory of words that answers
in order and takes its time (`DueAssumption`: at most fourteen requests are due at
once, as the front end counts acknowledgements in four bits; the controller has
at most two writes, and the front end at most four reads). It holds for every address
space and every set of calls `CallsAssumption` admits, with blocks of any length:

* `AlwaysTbInv`: `TbSpec => []TbInv`. A call is followed by places in its block. Of a write
  (`WriteState`): how many beats and how many addresses the driver has put out, how many
  words the memory has accepted, how many bursts are answered; of a read
  (`ReadState`): how many bursts the driver has asked for and the front end has taken,
  how many words have come back. All that the driver's queues, the channels, the front
  end and the memory hold is what lies between two of these places, so that
  address and data may run ahead of each other by as much as the channels hold.
* How a block is cut into bursts (`Cut`) and what these carry (`Concat`) are recursive
  functions. That a function satisfies the recursion, and what the pieces add up to
  (each starts where the one before ends, and the last ends with the block), is
  proved from the least number for which it fails (`LeastElement`, `Inductive`).
* `ResponsesAreExpected`: `[]ResponsesExpected`, what the driver asserts of each
  response: that it is owed, with that id, and is the last of its burst when it says so.
* `ImplementsBlockDriver`: `TbSpec => IsBlockDriver`. A beat stores the bytes of the block that
  lie in its word and are to be written, and no others; what a read has got is the
  block up to the place of the words answered.
* `KeepsToAxi`: `TbSpec => IsAxiMaster`, and `IsAlwaysPortClient`: `TbSpec => IsPortClient`. They
  discharge what the theorems about the front end assume of its master, and
  `ImplementsWordMemory` of its client.

`HarnessProofs` proves about the APB driver, for every address space and every set of
calls `CallsAssumption` admits (blocks of at least one byte; one with a mask is an
aligned word, as `write32()` makes them and `write_internal()` asserts), and a slave that
takes its time:

* `ApbRulesKept`: `ApbSpec => []ApbRules`. The invariant (`ApbInv`) ties the bus to the place in
  the driver's loop, and the edge before to both.
* `ApbImplementsBlockDriver`: `ApbSpec => IsBlockDriver`. The abstract memory is read off
  the slave's words (`Memory`), and what a call has done is the place in the block.
  The lemma that carries it is `PlacesInWord`: the bytes of one piece lie side by side
  in one word, wherever the block starts and ends, and no other byte of that word
  has their offsets, so the strobes of a piece change its bytes and nothing else.

In the same module are the theorems about the simulation, for either bus, every set of
values the driver may put on its wires, every number of iterations (any int) and every
design that shows a value on each of its wires (`Answers`):

* `AlwaysScInv`: `ScSpec => []ScInv`. A copy of a signal is behind the original only while
  the process that copies it is to run (`CopiesInv`). One edge at a time is on its way
  from the clock by `m_clk_in` to the design, and every clocked thread runs in the
  delta cycle before it gets there (`ClockInv`, `RiseInv`). So the design samples what the
  driver put out at the edge before, whichever process runs first.
* `AlwaysSynchronous`: `ScSpec => IsSynchronous`, with `SyncBus` read off the edge that is under
  way; the copying, the delta cycles and the semaphores are stutters.
* `AlwaysRunsAll`: `ScSpec => []RunsAll`. The test stops after the iterations asked for:
  after none for 0 and below -1, and never for -1.

`TbMemTestProofs` proves `TestAssertionsHold`: `MemTestSpec => []AssertsHold`, for every set
of regions, data and lengths. The invariant (`MemTestInv`) says that the memory under
test holds what the reference memory holds, except for the bytes of a block on
their way (`MemoriesAgree`). Regions may overlap: the first that holds a byte is the
one that is both written and read. `RegionAssumption` is what the testbench's own
regions satisfy: inside the address space, and at a multiple of four if there is room for
a word behind the start (without it the test's alignment may leave a region at its
lower end).

The properties these theorems state are checked by TLC too, `IsAxiMaster` and `IsSdramChip`
and their like included. `RowsAgree`, `RefreshNears`, `HeldNears` and the inductive
invariants (`PowerInv`, `BurstInv`, `InFlight`, `Held`, `LatchedInv`, `AcksInv`, `WrittenInv`,
`PendingInv`, `TbInv`, `HostInv`, `ApbInv`, `ScInv`, `MemTestInv`) are not among the runs'
properties: the theorems are about them.

Model-checked only:

* Liveness (`HeldIsAccepted`, `ReadsCompleteOnBoth`, `WritesCompleteOnBoth`, `CallsReturn`,
  `Completes`, `Stops`): the prover cannot reason about ENABLED. Of
  `HeldIsAccepted` the measure behind it is proved (`HeldIsAcceptedInTime`).
* That the parts together are a memory of bytes. Each link is a theorem
  (`ImplementsWordMemory`, `IsAlwaysPortClient`, `KeepsToAxi`, `ImplementsBlockDriver`); putting the
  controller and the chip in the place of the memory of `TbAxi` is an argument of
  this document, as in section 2, and no theorem.

## 5. Not modelled

* `SdramParams`: the arithmetic from nanoseconds to cycles. It is evaluated once, in
  Scala, from constants; the cycle counts are CONSTANTS here, and the runs use
  those it yields at 50 and 100 MHz.
* The diplomacy wrapper `AXI4SDRAM`, Verilog generation and the build, which keep no
  state; the transaction ids inside the front end, copied from the address channel
  to the response (`TbAxi` adds them).
* The APB design, which is not in the repository (the Makefile leaves its wrapper
  out). The driver is checked on a slave that takes its time and never answers
  with PSLVERR, and `sc_testbench` takes the AXI bus; the constant `BUS_APB` of
  `ScTestbench` switches to the wires of the other.
* Of the testbench: waveforms (and with them `m_verilate_vcd`, which the constructor
  leaves uninitialised), tracing, the command line, the handlers of signals and of
  failed assertions; the record of accesses that `tb_memory` can keep, and regions on
  an array of the caller, which nothing in the repository uses; `set_id_range()`
  and `enable_bursts(false)`, which nothing calls. Regions with room for a
  word start at a multiple of four, as those of the testbench do.
* Analogue timing within a cycle (the SDRAM clock is the inverted clock); tWR and
  tRAS, which the code has no parameters for.
* What the AXI port promises about data, across the two sides of the interleaved
  design: `WordsInOrder` covers words nobody writes meanwhile, `SdramPort` each chip,
  and `TbAxi` one call at a time.
