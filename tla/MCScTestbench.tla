---------------------------- MODULE MCScTestbench ----------------------------
(***************************************************************************)
(* ScTestbench with a driver that changes one wire, or all, and a design    *)
(* that shows at its outputs what it sampled at the last edge.              *)
(***************************************************************************)
EXTENDS ScTestbench

One(f) == [NoRequest EXCEPT ![f] = 1]
All    == [f \in DOMAIN NoRequest |-> 1]

MCMasterValues == {NoRequest, One(IF BUS_APB THEN "PPROT" ELSE "RREADY"), All}

\* The registers: what was sampled, as a number.
MCRtlStep(s, v) == IF s = 0 THEN 0
                   ELSE IF v = NoRequest THEN 1 ELSE IF v = All THEN 3 ELSE 2
MCRtlOut(s) == [f \in DOMAIN NoAnswer |-> s]
==============================================================================
