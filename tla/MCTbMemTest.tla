----------------------------- MODULE MCTbMemTest -----------------------------
(***************************************************************************)
(* TbMemTest in a few bytes: two regions, one inside one and one beside it. *)
(***************************************************************************)
EXTENDS TbMemTest

MCNewRegions == {[base |-> 0, size |-> 6], [base |-> 2, size |-> 2], [base |-> 6, size |-> 2],
                 [base |-> 4, size |-> 6]}
MCBytes == {0, 1}
MCIterations == {-2, -1, 2}
MCData(n) == {[k \in 1 .. n |-> 1], [k \in 1 .. n |-> (k + n) % 2]}
==============================================================================
