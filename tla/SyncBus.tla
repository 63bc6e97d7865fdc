------------------------------- MODULE SyncBus -------------------------------
(***************************************************************************)
(* A driver and a design on one clock: at an edge each of them takes what   *)
(* the other has put out since the last edge, and then both move on.        *)
(***************************************************************************)
EXTENDS Integers

CONSTANTS
  MasterValues,    \* what a driver may put on the bus
  RtlStep(_, _),   \* state and inputs at an edge -> next state
  RtlOut(_),       \* state -> outputs
  RtlReset,        \* the state in reset
  Unknown,         \* the state before
  Silent           \* the bus before anybody has driven it

VARIABLES
  edges,  \* how many edges there were, up to 2
  reset,
  out,    \* what the driver puts out
  seen,   \* what the driver saw of the design when it last looked
  rtl     \* the registers of the design

syncVars == <<edges, reset, out, seen, rtl>>

Init ==
  /\ edges = 0
  /\ reset = FALSE
  /\ out = Silent
  /\ seen = {}
  /\ rtl = Unknown

\* The driver looks at the bus or not and drives it or not, after the reset.
Drive ==
  \/ UNCHANGED <<out, seen>>
  \/ /\ edges = 2
     /\ seen' \in {seen, {RtlOut(rtl)}}
     /\ out' \in MasterValues \union {out}

\* Reset is asserted from the first edge to the second.
Edge ==
  /\ edges' = IF edges = 2 THEN 2 ELSE edges + 1
  /\ reset' = (edges = 0)
  /\ rtl' = IF reset THEN RtlReset ELSE RtlStep(rtl, out)
  /\ Drive

Spec == Init /\ [][Edge]_syncVars

==============================================================================
