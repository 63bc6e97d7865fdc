----------------------------- MODULE MCSdramHost -----------------------------
(***************************************************************************)
(* SdramHost on one bank of a part of one row of two words in each bank.    *)
(***************************************************************************)
EXTENDS SdramHost

Pin(cmd, addr, a10, dqm) == [cmd |-> cmd, addr |-> addr, a10 |-> a10, bank |-> 0, dqm |-> dqm]

\* Bursts of 1, 2 and 4 columns, and of reads alone: line 9 set.
MCPins ==
  {Pin("LOAD_MODE", mode, FALSE, Lanes) : mode \in {0, 1, 2, 512 + 1}}
    \union {Pin("PRECHARGE", 0, all, Lanes) : all \in BOOLEAN}
    \union {Pin(cmd, 0, FALSE, Lanes) : cmd \in {"ACTIVE", "REFRESH", "TERMINATE"}}
    \union {Pin(cmd, 1, FALSE, {}) : cmd \in {"READ", "WRITE"}}
    \union {Pin("NOP", 0, FALSE, dqm) : dqm \in {{}, {0}}}

MCBytes  == {0, 1, 2}
MCData   == {[l \in Lanes |-> 1]}
==============================================================================
