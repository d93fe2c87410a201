------------------------------- MODULE Memory -------------------------------
(***************************************************************************)
(* src/memory.rs: byte-addressed little-endian physical memory.  "data" is *)
(* the Vec<u8>; an address is turned into an index by a wrapping           *)
(* subtraction of the base.  The assertion in offset() looks at the first  *)
(* byte of an access only; the rest is left to the bounds checks of the    *)
(* Vec, one byte at a time.                                                *)
(***************************************************************************)
EXTENDS Words, Sequences

CONSTANTS MEM_SIZE,   \* the number of bytes, data.len()
          Base        \* the address of the first one

\* MEM_SIZE is 2^27 in main.rs and in the tests; any index must have a word
ASSUME MemoryAssumption ==
    /\ MEM_SIZE \in 1..(2^27)
    /\ Base \in Word

VARIABLE data

Index == 0..(MEM_SIZE - 1)
Byte  == SUBSET (0..7)

MemoryTypeOK == data \in [Index -> Byte]

-----------------------------------------------------------------------------
(* offset(): the index of an address, and when the assertion holds.  A     *)
(* distance from the base that is no index is out of bounds.               *)

WordOf == [n \in Index |-> BitsOf(n)]

InBounds(addr) == LET off == wrapping_sub(addr, Base) IN \E n \in Index : WordOf[n] = off
offset(addr)   == LET off == wrapping_sub(addr, Base) IN CHOOSE n \in Index : WordOf[n] = off

\* An access of n bytes at addr runs to its end without a panic
Accessible(addr, n) == InBounds(addr) /\ offset(addr) + n <= MEM_SIZE

-----------------------------------------------------------------------------
(* read8, read16, read32 on an accessible address, zero-extended           *)

ReadLE(addr, n) ==
    LET off == offset(addr)
    IN  {i \in 0..(8 * n - 1) : (i % 8) \in data[off + (i \div 8)]}

read8(addr)  == ReadLE(addr, 1)
read16(addr) == ReadLE(addr, 2)
read32(addr) == ReadLE(addr, 4)

-----------------------------------------------------------------------------
(* write8, write16, write32 on an address in bounds.  The bytes are stored *)
(* in ascending order and the first index beyond the end panics, so what   *)
(* fits has been stored when it does: the assignment below is the state at *)
(* that point too.                                                         *)

WriteLE(addr, n, val) ==
    LET off == offset(addr)
    IN  data' = [m \in Index |-> IF m \in off..(off + n - 1)
                                 THEN Field(val, 8 * (m - off), 8)
                                 ELSE data[m]]

write8(addr, val)  == WriteLE(addr, 1, val)
write16(addr, val) == WriteLE(addr, 2, val)
write32(addr, val) == WriteLE(addr, 4, val)

-----------------------------------------------------------------------------
(* Memory::new and load_binary at the base, as the harnesses call them.    *)
(* slice indexing panics when the binary does not fit.                     *)

Zeroed == [m \in Index |-> {}]

Fits(binary) == Len(binary) <= MEM_SIZE

load_binary(binary) ==
    [m \in Index |-> IF m < Len(binary) THEN binary[m + 1] ELSE Zeroed[m]]
=============================================================================
