------------------------------- MODULE AxiBurst -------------------------------
(***************************************************************************)
(* The addresses of an AXI burst: calculateAddrNext of SdramAxiPmem.scala,  *)
(* which steps from one beat to the next, and the rule of AXI for the k-th  *)
(* beat that it has to agree with.  Addresses are byte addresses.           *)
(***************************************************************************)
EXTENDS Integers

CONSTANT AddrSpace  \* 2^32, the number of byte addresses; a multiple of 64

ASSUME AddrSpaceAssumption == AddrSpace \in Nat \ {0} /\ AddrSpace % 64 = 0

Addrs == 0 .. AddrSpace - 1

\* The encodings of AxBURST; the code treats the reserved one as INCR.
FIXED == 0
INCR  == 1
WRAP  == 2

AddrPlus4(a) == (a + 4) % AddrSpace

\* The mask of a wrapping burst covers its bytes for the five lengths the code
\* lists, and nothing for the others.
WrapLens      == {0, 1, 3, 7, 15}
WrapSpan(len) == IF len \in WrapLens THEN 4 * (len + 1) ELSE 1

\* Mutant: the lower address lines do not wrap.
NextAddrIncr(a, type, len) == IF type = FIXED THEN a ELSE AddrPlus4(a)

\* (addr & ~mask) | ((addr + 4) & mask), with mask = WrapSpan(len) - 1.
NextAddr(a, type, len) ==
  CASE type = FIXED -> a
    [] type = WRAP -> (a - (a % WrapSpan(len))) + (AddrPlus4(a) % WrapSpan(len))
    [] OTHER -> AddrPlus4(a)

------------------------------------------------------------------------------
\* AXI's rule: the word the k-th beat of a burst from a transfers.
WordOf(a) == a \div 4

BeatWord(a, type, len, k) ==
  LET words == len + 1
      low   == WordOf(a) - (WordOf(a) % words)
  IN CASE type = FIXED -> WordOf(a)
       [] type = WRAP -> low + ((WordOf(a) - low + k) % words)
       [] OTHER -> (WordOf(a) + k) % (AddrSpace \div 4)

==============================================================================
