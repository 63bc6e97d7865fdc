----------------------------- MODULE MCSdramPort -----------------------------
(***************************************************************************)
(* SdramPort with data: two or three words, two values, full and partial    *)
(* strobes.                                                                 *)
(* The value 2 is what undriven pins read as, and what the storage holds    *)
(* before the first write: no client ever writes it.                        *)
(***************************************************************************)
EXTENDS SdramPort

Fill(b) == [l \in ByteLanes |-> b]

NoRequest(b)         == [rd |-> FALSE, wr |-> {}, addr |-> 0, data |-> Fill(b)]
ReadOf(a, b)      == [rd |-> TRUE, wr |-> {}, addr |-> a, data |-> Fill(b)]
WriteOf(a, s, b)  == [rd |-> FALSE, wr |-> s, addr |-> a, data |-> Fill(b)]

\* Without a strobe the write data lines carry the junk value.
Client(addrs) ==
  {NoRequest(2)}
    \union {ReadOf(a, 2) : a \in addrs}
    \union {WriteOf(a, ByteLanes, b) : a \in addrs, b \in {0, 1}}
    \union {WriteOf(a, {0, 3}, 1) : a \in addrs}

\* Neighbours in a row: bursts go on in place from one to the other.
SameRow == Client({0, 1})
\* The word of another row of the bank: each change to it closes one row and
\* opens the other.
Far == RowWords * NumBanks

\* Reads of two neighbours and of the other row, and writes of each; the value 1
\* partly strobed on the first.
TwoRows ==
  {NoRequest(2)}
    \union {ReadOf(a, 2) : a \in {0, 1, Far}}
    \union {WriteOf(0, ByteLanes, 0), WriteOf(0, {0, 3}, 1)}
    \union {WriteOf(1, ByteLanes, 1), WriteOf(Far, ByteLanes, 1)}

ThreeBytes == {0, 1, 2}
Blank      == {[c \in Cells |-> Floating]}
==============================================================================
