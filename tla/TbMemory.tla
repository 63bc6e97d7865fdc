------------------------------ MODULE TbMemory ------------------------------
(***************************************************************************)
(* The reference memory of the testbench, tb_memory.h: a table of regions   *)
(* with an array of bytes each.  Addresses are of type uint32_t and wrap.   *)
(***************************************************************************)
EXTENDS Integers, Sequences, FiniteSetsExt

CONSTANTS
  AddrSpace,      \* 2^32
  ByteValues,     \* the values of a byte
  MAX_REGIONS     \* TB_MEM_MAX_REGIONS

VARIABLE regions  \* m_mem: the slots in use, [base, size, cells]

\* tb_mem_region::match
Match(r, addr) == addr >= r.base /\ addr < (r.base + r.size) % AddrSpace

Holding(addr)    == {i \in DOMAIN regions : Match(regions[i], addr)}
valid_addr(addr) == Holding(addr) # {}

\* Only the ends of the new region are looked for.
Overlaps(base, size) == valid_addr(base) \/ valid_addr((base + size - 1) % AddrSpace)

\* add_region: the next free slot, unless an end lies in a region that is there.
add_region(base, size, cells) ==
  regions' = IF Len(regions) < MAX_REGIONS /\ ~Overlaps(base, size)
             THEN Append(regions, [base |-> base, size |-> size, cells |-> cells])
             ELSE regions

\* Mutant: a write goes to the last region that holds the address.
SlotOfLast(addr) == Max(Holding(addr))

\* The first region that holds the address is the one that is written.
SlotWritten(addr) == Min(Holding(addr))

\* write, for the bytes of a block in turn.
WriteBytes(addr, data) ==
  regions' = [i \in DOMAIN regions |-> [regions[i] EXCEPT !.cells =
    [o \in DOMAIN @ |->
       LET a == regions[i].base + o
       IN IF a - addr \in 0 .. Len(data) - 1 /\ SlotWritten(a) = i
          THEN data[a - addr + 1] ELSE @[o]]]]

\* read: the first region that holds the address.
ReadByte(addr) ==
  LET r == regions[Min(Holding(addr))]
  IN r.cells[addr - r.base]

ReadBytes(addr, length) == [k \in 1 .. length |-> ReadByte(addr + k - 1)]

==============================================================================
