----------------------------- MODULE MCSdramChip -----------------------------
(***************************************************************************)
(* SdramTiming, and with it SdramChip, on a small part: two rows of one word *)
(* in each of four banks.                                                   *)
(***************************************************************************)
EXTENDS SdramTiming

\* Two rows of bank 0 and one of bank 1: hits, misses, conflicts, other banks.
MCAddrs    == {0, 1, NumBanks}
MCRequests ==
  [rd : {FALSE}, wr : {{}}, addr : {0}, data : Word]
    \union [rd : {TRUE}, wr : {{}}, addr : MCAddrs, data : Word]
    \union [rd : {FALSE}, wr : {ByteLanes}, addr : MCAddrs, data : Word]

MCBytes    == {0}
MCContents == [Cells -> Half]
==============================================================================
