------------------------------- MODULE MCTbAxi -------------------------------
(***************************************************************************)
(* TbAxi on 64 bytes of memory with a handful of blocks: a burst of eight   *)
(* beats, blocks that start and end inside a word, a masked word.           *)
(***************************************************************************)
EXTENDS TbAxi

\* Every byte is written with a value that tells its place.
Tag(addr)            == 1 + (addr % 3)
Tagged(addr, length) == WriteBlock(addr, [k \in 1 .. length |-> Tag(addr + k - 1)])

MCCalls ==
  {Tagged(0, 24), Tagged(5, 4), Write32(4, [l \in Lanes |-> Tag(4 + l)], {1, 3}),
   ReadBlock(0, 32), ReadBlock(6, 4)}
MCBytes == 0 .. 3
MCIds   == {0, 1}

MCInit ==
  /\ lastGrant = "read"
  /\ store = [i \in 0 .. NumWords - 1 |-> EmptyWord]
  /\ TbInit

FairMCSpec == MCInit /\ [][TbNext]_tbVars /\ TbFairness
==============================================================================
