----------------------------- MODULE BlockDriver -----------------------------
(***************************************************************************)
(* What tb_driver_api promises a test: a memory of bytes behind calls that  *)
(* write or read a block.  A call that writes has stored every byte of its  *)
(* block, in order and nowhere else, by the time it returns; a call that    *)
(* reads returns the bytes that are stored.                                 *)
(***************************************************************************)
EXTENDS Integers, Sequences

CONSTANTS
  NumBytes,    \* the number of byte addresses
  ByteValues,  \* the values of a byte
  Calls        \* [op, addr, data, mask]: what the test may call

VARIABLES
  memory,  \* the bytes stored
  call,    \* the call under way, or Idle
  done,    \* how many bytes of its block are stored, if it writes
  got      \* the bytes it has read so far, if it reads

driverVars == <<memory, call, done, got>>

\* The data of a block to read only say how long it is; the mask of a block to
\* write are the offsets that are to be written.
Idle == [op |-> "idle", addr |-> 0, data |-> <<>>, mask |-> {}]

PlaceOf(offset) == (call.addr + offset) % NumBytes
OffsetOf(a)     == (a + NumBytes - call.addr) % NumBytes

Call(c) ==
  /\ call = Idle
  /\ call' = c
  /\ done' = 0
  /\ got' = <<>>
  /\ UNCHANGED memory

\* The bytes from offset done up to offset upTo are stored, masked ones excepted.
Written(upTo) == {k \in done .. upTo - 1 : k \in call.mask}

Store(upTo) ==
  /\ call.op = "write"
  /\ done' = upTo
  /\ memory' = [a \in DOMAIN memory |->
       IF OffsetOf(a) \in Written(upTo) THEN call.data[OffsetOf(a) + 1] ELSE memory[a]]
  /\ UNCHANGED <<call, got>>

Fetch(count) ==
  /\ call.op = "read"
  /\ Len(got) + count <= Len(call.data)
  /\ got' = got \o [k \in 1 .. count |-> memory[PlaceOf(Len(got) + k - 1)]]
  /\ UNCHANGED <<memory, call, done>>

Return ==
  /\ \/ call.op = "write" /\ done = Len(call.data)
     \/ call.op = "read" /\ Len(got) = Len(call.data)
  /\ call' = Idle
  /\ UNCHANGED <<memory, done, got>>

Init ==
  /\ memory \in [0 .. NumBytes - 1 -> ByteValues]
  /\ call = Idle
  /\ done = 0
  /\ got = <<>>

Next ==
  \/ \E c \in Calls : Call(c)
  \/ \E upTo \in done + 1 .. Len(call.data) : Store(upTo)
  \/ \E count \in 1 .. Len(call.data) : Fetch(count)
  \/ Return

Spec == Init /\ [][Next]_driverVars

==============================================================================
