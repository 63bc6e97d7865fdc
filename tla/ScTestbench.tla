----------------------------- MODULE ScTestbench -----------------------------
(***************************************************************************)
(* The simulation that main.cpp and testbench.h put together, at the level  *)
(* of SystemC's delta cycles: processes run one by one in any order         *)
(* (evaluation), what they wrote becomes visible (Update) and wakes others, *)
(* and when nothing is left to do the clock moves on (Advance).             *)
(*                                                                          *)
(* A bus is a function of its wires.  The calls of the driver are what      *)
(* TbAxi and TbApb model; here the sequencer drives what it likes.  The     *)
(* design is external: RtlStep and RtlOut say what its registers do.        *)
(***************************************************************************)
EXTENDS Integers

CONSTANTS
  BUS_APB,         \* the macro that chooses the bus
  MasterValues,    \* what a driver may put on the bus
  RtlStep(_, _),   \* registers and inputs at an edge -> registers
  RtlOut(_),       \* registers -> outputs
  RtlReset,        \* the registers in reset
  Unknown,         \* the registers before
  Iterations       \* set_iterations: how often the test goes round, or -1 for ever

VARIABLES
  sig, next, \* every signal: its value, and what was written to it
  runnable,  \* the processes that have yet to run in this delta cycle
  pc,        \* where each clocked thread waits
  m_enabled, m_completed,  \* the semaphores of the sequencer
  left,      \* iterations
  lastClk,   \* the clock as the design saw it last
  rtl,       \* the registers of the design
  seen, sawBefore,  \* history: what the driver saw last, and up to this edge
  edges, ran        \* history: edges the design has seen, up to 2; iterations run

historyVars == <<seen, sawBefore, edges, ran>>
scVars == <<sig, next, runnable, pc, m_enabled, m_completed, left, lastClk, rtl, historyVars>>

------------------------------------------------------------------------------
\* The wires: the members of the classes, all of which operator== compares.

AxiMasterWires ==
  {"AWVALID", "AWADDR", "AWID", "AWLEN", "AWBURST", "WVALID", "WDATA", "WSTRB", "WLAST",
   "BREADY", "ARVALID", "ARADDR", "ARID", "ARLEN", "ARBURST", "RREADY"}
AxiSlaveWires ==
  {"AWREADY", "WREADY", "BVALID", "BRESP", "BID", "ARREADY", "RVALID", "RDATA", "RRESP",
   "RID", "RLAST"}
ApbMasterWires == {"PSEL", "PENABLE", "PWRITE", "PADDR", "PWDATA", "PSTRB", "PPROT"}
ApbSlaveWires  == {"PREADY", "PRDATA", "PSLVERR"}

\* init()
AllZero(wires) == [f \in wires |-> 0]

NoRequest == AllZero(IF BUS_APB THEN ApbMasterWires ELSE AxiMasterWires)
NoAnswer  == AllZero(IF BUS_APB THEN ApbSlaveWires ELSE AxiSlaveWires)

\* A driver puts a value on every wire, and that of APB may put the bus to idle.
ASSUME DriverAssumption ==
  /\ \A v \in MasterValues : v = [f \in DOMAIN NoRequest |-> v[f]]
  /\ BUS_APB => NoRequest \in MasterValues

\* Any int, from the command line.
ASSUME IterationsAssumption == Iterations \in Int

\* Mutant: operator== leaves out one wire.
SameButOne(v, w) == \A f \in DOMAIN v \ {"RREADY", "PPROT"} : v[f] = w[f]

Same(v, w) == \A f \in DOMAIN v : v[f] = w[f]

------------------------------------------------------------------------------
\* The kernel: who is sensitive to what, and what an update changes.

CThreads == {"reset", "testbench", "sequencer"}
Buses    == {"bus_m", "bus_s", "m_in", "m_out"}

Changed(s) == IF s \in Buses THEN ~Same(next[s], sig[s]) ELSE next[s] # sig[s]

\* A thread that waits for a semaphore is not woken by the clock.
Clocked == {p \in CThreads : pc[p] \notin {"blocked", "end"}}

Wakes(s) ==
  CASE s = "clk" -> {"wrapper"} \union (IF next.clk THEN Clocked ELSE {})
    [] s \in {"rst", "bus_m", "m_out"} -> {"wrapper"}
    [] s \in {"m_clk_in", "m_rst_in", "m_in"} -> {"rtl"}
    [] s \in {"bus_s", "m_iterations"} -> {}

Changes == {s \in DOMAIN sig : Changed(s)}

Update ==
  /\ runnable = {}
  /\ Changes # {}
  /\ sig' = [s \in DOMAIN sig |-> IF Changed(s) THEN next[s] ELSE sig[s]]
  /\ runnable' = UNION {Wakes(s) : s \in Changes}
  /\ UNCHANGED <<next, pc, m_enabled, m_completed, left, lastClk, rtl, historyVars>>

\* sc_clock: half a period passes.  After sc_stop() none does.
Advance ==
  /\ runnable = {}
  /\ Changes = {}
  /\ pc["testbench"] # "end"
  /\ next' = [next EXCEPT !.clk = ~sig.clk]
  /\ sawBefore' = seen
  /\ UNCHANGED <<sig, runnable, pc, m_enabled, m_completed, left, lastClk, rtl, seen,
                 edges, ran>>

------------------------------------------------------------------------------
\* The wrapper, sdram_axi or sdram_apb, and the design.

\* Every wire of the bus to the wire of the design and back, with clock and reset.
AsyncOutputs ==
  next' = [next EXCEPT !.m_clk_in = sig.clk, !.m_rst_in = sig.rst,
                       !.m_in = sig.bus_m, !.bus_s = sig.m_out]

Wrapper ==
  /\ "wrapper" \in runnable
  /\ runnable' = runnable \ {"wrapper"}
  /\ AsyncOutputs
  /\ UNCHANGED <<sig, pc, m_enabled, m_completed, left, lastClk, rtl, historyVars>>

\* eval() of the verilated design.
Rtl ==
  LET rises == sig.m_clk_in /\ ~lastClk
  IN /\ "rtl" \in runnable
     /\ runnable' = runnable \ {"rtl"}
     /\ lastClk' = sig.m_clk_in
     /\ rtl' = IF ~rises THEN rtl
               ELSE IF sig.m_rst_in THEN RtlReset ELSE RtlStep(rtl, sig.m_in)
     /\ edges' = IF rises /\ edges < 2 THEN edges + 1 ELSE edges
     /\ next' = [next EXCEPT !.m_out = RtlOut(rtl')]
     /\ UNCHANGED <<sig, pc, m_enabled, m_completed, left, seen, sawBefore, ran>>

------------------------------------------------------------------------------
\* The clocked threads, between one wait and the next.

\* sc_reset_gen::thread
ResetGen ==
  /\ "reset" \in runnable
  /\ runnable' = runnable \ {"reset"}
  /\ next' = [next EXCEPT !.rst = (pc["reset"] = "start")]
  /\ pc' = [pc EXCEPT !["reset"] = IF @ = "start" THEN "wait" ELSE "end"]
  /\ UNCHANGED <<sig, m_enabled, m_completed, left, lastClk, rtl, historyVars>>

\* sc_semaphore: post() wakes who is blocked, but a clocked thread goes on at
\* the next edge only.
Posted(p) == IF pc[p] = "blocked" THEN "woken" ELSE pc[p]

\* start(m_num_iterations) and wait_complete(); m_iterations is a signal.
StartTest ==
  /\ next' = [next EXCEPT !.m_iterations = Iterations]
  /\ m_enabled' = m_enabled + 1
  /\ pc' = [pc EXCEPT !["sequencer"] = Posted("sequencer"),
                      !["testbench"] = IF m_completed > 0 THEN "end" ELSE "blocked"]
  /\ m_completed' = IF m_completed > 0 THEN m_completed - 1 ELSE 0

FirstWait ==
  /\ pc' = [pc EXCEPT !["testbench"] = "wait"]
  /\ UNCHANGED <<next, m_enabled, m_completed>>

\* wait_complete() returns, and sc_stop().
Stop ==
  /\ m_completed' = m_completed - 1
  /\ pc' = [pc EXCEPT !["testbench"] = "end"]
  /\ UNCHANGED <<next, m_enabled>>

\* Mutant: process() starts the test without the wait() it begins with.
ProcessAtOnce ==
  \/ pc["testbench"] = "start" /\ StartTest
  \/ pc["testbench"] = "woken" /\ m_completed > 0 /\ Stop

\* testbench::process
Process ==
  \/ pc["testbench"] = "start" /\ FirstWait
  \/ pc["testbench"] = "wait" /\ StartTest
  \/ pc["testbench"] = "woken" /\ m_completed > 0 /\ Stop

Testbench ==
  /\ "testbench" \in runnable
  /\ Process
  /\ runnable' = runnable \ {"testbench"}
  /\ UNCHANGED <<sig, left, lastClk, rtl, historyVars>>

\* The loop of tb_mem_test::process with n iterations to go: a call drives the
\* bus, or the test is complete and waits to be enabled again.
Block ==
  /\ pc' = [pc EXCEPT !["sequencer"] = "blocked"]
  /\ UNCHANGED <<next, m_completed, left>>

\* Mutant: the end of the test is not posted.
GoOnNoPost(n) ==
  IF n = -1 \/ n >= 1
  THEN /\ pc' = [pc EXCEPT !["sequencer"] = "loop"]
       /\ left' = n
       /\ \E v \in MasterValues : next' = [next EXCEPT !.bus_m = v]
       /\ UNCHANGED m_completed
  ELSE Block

\* When the last call returns, the APB driver puts the bus to idle; the AXI
\* driver leaves it as it is.
GoOn(n) ==
  IF n = -1 \/ n >= 1
  THEN /\ pc' = [pc EXCEPT !["sequencer"] = "loop"]
       /\ left' = n
       /\ \E v \in MasterValues : next' = [next EXCEPT !.bus_m = v]
       /\ UNCHANGED m_completed
  ELSE /\ m_completed' = m_completed + 1
       /\ pc' = [pc EXCEPT !["sequencer"] = "blocked", !["testbench"] = Posted("testbench")]
       /\ left' = n
       /\ next' = [next EXCEPT !.bus_m = IF BUS_APB /\ pc["sequencer"] = "loop" THEN NoRequest ELSE @]

Enabled ==
  /\ pc["sequencer"] \in {"start", "woken"}
  /\ IF m_enabled = 0 THEN Block /\ UNCHANGED m_enabled
     ELSE GoOn(sig.m_iterations) /\ m_enabled' = m_enabled - 1
  /\ UNCHANGED <<seen, ran>>

\* An edge in a call, which reads the bus and may return.
InCall ==
  /\ pc["sequencer"] = "loop"
  /\ seen' = {sig.bus_s}
  /\ \/ GoOn(left) /\ UNCHANGED ran
     \/ GoOn(IF left = -1 THEN -1 ELSE left - 1) /\ ran' = ran + 1
  /\ UNCHANGED m_enabled

Sequencer ==
  /\ "sequencer" \in runnable
  /\ Enabled \/ InCall
  /\ runnable' = runnable \ {"sequencer"}
  /\ UNCHANGED <<sig, lastClk, rtl, sawBefore, edges>>

------------------------------------------------------------------------------
\* sc_main: methods run once at the start, clocked threads at the first edge.

Signals ==
  [clk |-> FALSE, rst |-> FALSE, bus_m |-> NoRequest, bus_s |-> NoAnswer,
   m_clk_in |-> FALSE, m_rst_in |-> FALSE, m_in |-> NoRequest, m_out |-> NoAnswer,
   m_iterations |-> 0]

ScInit ==
  /\ sig = Signals
  /\ next = sig
  /\ runnable = {"wrapper", "rtl"}
  /\ pc = [p \in CThreads |-> "start"]
  /\ m_enabled = 0 /\ m_completed = 0
  /\ left = 0
  /\ lastClk = FALSE
  /\ rtl = Unknown
  /\ seen = {} /\ sawBefore = {}
  /\ edges = 0 /\ ran = 0

ScNext ==
  \/ Update
  \/ Advance
  \/ Wrapper
  \/ Rtl
  \/ ResetGen
  \/ Testbench
  \/ Sequencer

ScSpec == ScInit /\ [][ScNext]_scVars

\* The kernel goes on, and every call returns (CallsReturn of TbAxi).
FairScSpec ==
  /\ ScSpec
  /\ WF_scVars(ScNext)
  /\ SF_scVars(Sequencer /\ ran' # ran)

------------------------------------------------------------------------------
\* Properties.

\* The testbench stops after the iterations it was asked for, none if that is a
\* negative number, and never if it is -1: the sequencer does not read the signal
\* m_iterations before its new value is there.
RunsAll == pc["testbench"] = "end" =>
  Iterations # -1 /\ ran = IF Iterations > 0 THEN Iterations ELSE 0

\* Whatever the order of the processes, the simulation is that of a driver and a
\* design on one clock, which take at an edge what was put out since the last;
\* the design is reset first, before the driver drives the bus or looks at it.
\* From the rise of the clock to the design's evaluation the edge is under way.
UnderWay == next.clk /\ ~lastClk

Sync == INSTANCE SyncBus WITH
  Silent <- NoRequest,
  reset <- IF UnderWay THEN sig.m_rst_in ELSE next.rst,
  out <- IF UnderWay THEN sig.m_in ELSE next.bus_m,
  seen <- IF UnderWay THEN sawBefore ELSE seen

IsSynchronous == Sync!Spec

\* The simulation comes to its end.
Stops == Iterations # -1 => <>(pc["testbench"] = "end")

==============================================================================
