------------------------------ MODULE WordMemory ------------------------------
(***************************************************************************)
(* What the port of the controller promises its client: a memory of words   *)
(* that serves one request at a time, atomically, when it accepts it, and   *)
(* answers every accepted request once, in the order of acceptance.         *)
(*                                                                          *)
(* A request is held until it is accepted.  A read is answered with the     *)
(* word that was stored when it was accepted, a write with no word in       *)
(* particular.                                                              *)
(***************************************************************************)
EXTENDS Integers, Sequences

CONSTANTS
  NumWords,  \* the words of the memory
  Bytes,     \* the values of a byte
  Requests   \* [rd, wr, addr, data]: a read, a write of the lanes wr, or neither

VARIABLES
  req,    \* the request on the port
  store,  \* the words
  owed,   \* for each accepted request, oldest first, the words that may answer it
  answer  \* the set of the word the port answers with now, or the empty set

vars == <<req, store, owed, answer>>

WordLanes == 0 .. 3
Words     == [WordLanes -> Bytes]

Pending == req.rd \/ req.wr # {}
Place   == req.addr % NumWords

WriteLanes(old, new, lanes) == [l \in WordLanes |-> IF l \in lanes THEN new[l] ELSE old[l]]

\* Nothing is accepted: a pending request stays, an idle port may change.
Hold ==
  /\ IF Pending THEN req' = req ELSE req' \in Requests
  /\ UNCHANGED store

Accept ==
  /\ Pending
  /\ req' \in Requests
  /\ store' = IF req.rd THEN store
              ELSE [store EXCEPT ![Place] = WriteLanes(@, req.data, req.wr)]

\* The answers owed with that of a request accepted in this step.
Owing == Append(owed, IF req.rd THEN {store[Place]} ELSE Words)

Reply(due) ==
  \/ answer' = {} /\ owed' = due
  \/ /\ due # <<>>
     /\ \E w \in Head(due) : answer' = {w}
     /\ owed' = Tail(due)

Init ==
  /\ req \in Requests
  /\ store \in [0 .. NumWords - 1 -> Words]
  /\ owed = <<>>
  /\ answer \in {{}} \union {{w} : w \in Words}

Next == \/ Hold /\ Reply(owed)
        \/ Accept /\ Reply(Owing)

Spec == Init /\ [][Next]_vars

==============================================================================
