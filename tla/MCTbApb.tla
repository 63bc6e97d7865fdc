-------------------------------- MODULE MCTbApb --------------------------------
(***************************************************************************)
(* TbApb on four words: blocks that start and end inside a word, that wrap  *)
(* around the address space, words with and without a mask.                 *)
(***************************************************************************)
EXTENDS TbApb

Tagged(addr, first, length) == WriteBlock(addr, [k \in 1 .. length |-> 1 + ((first + k) % 2)])

MCCalls ==
  {Tagged(1, 0, 9), Tagged(6, 1, 5), Tagged(15, 0, 2), WriteByte(3, 1), Read32(8), ReadByte(2),
   Write32Masked(4, [l \in Lanes |-> 2], {1, 3}), Write32(12, [l \in Lanes |-> 1]),
   ReadBlock(3, 9), ReadBlock(0, 16)}
MCBytes == {0, 1, 2}

MCInit ==
  /\ store = [i \in 0 .. NumWords - 1 |-> [l \in Lanes |-> 0]]
  /\ ApbInit

FairMCSpec == MCInit /\ [][ApbNext]_apbVars /\ ApbFairness
==============================================================================
