---------------------------- MODULE StoreHistory ----------------------------
(***************************************************************************)
(* The hart with two history variables, for its memory and its reports as  *)
(* a guest thinks of them: a byte for each 32-bit address, address         *)
(* 0xffffffff followed by 0, and the last word given to the host.  Memory  *)
(* keeps an array and maps addresses by a wrapping subtraction, and the    *)
(* hart has its tohost_value; the history never subtracts and never looks  *)
(* at that field.  It restricts no step of the hart.                       *)
(***************************************************************************)
EXTENDS Hart

VARIABLES stored,    \* the byte last stored at each address, or the image's
          reported   \* the word last reported, None before the first

storeVars == <<vars, stored, reported>>

Address == {wrapping_add(Base, BitsOf(n)) : n \in Index}

\* Address of byte k of what an instruction accesses
Target(inst, k) == wrapping_add(EffAddr(inst), BitsOf(k))

\* A store whose first byte is outside changes nothing
Storing ==
    /\ Iterating
    /\ \E inst \in Fetched : inst.tag = "Store" /\ EffAddr(inst) \in Address

After(inst) ==
    [a \in Address |->
        IF \E k \in 0..(Width(inst.op) - 1) : a = Target(inst, k)
        THEN LET k == CHOOSE k \in 0..(Width(inst.op) - 1) : a = Target(inst, k)
             IN  Field(read_reg(inst.rs2), 8 * k, 8)
        ELSE stored[a]]

\* A guest reports a word by an sw of it at tohost that stays inside the
\* memory; zero says nothing
Reports(inst) ==
    /\ inst.op = "Sw" /\ EffAddr(inst) = TohostAddr /\ Accessible(TohostAddr, 4)
    /\ read_reg(inst.rs2) # {}

SInit == Init /\ stored = [a \in Address |-> read8(a)] /\ reported = None

SStore ==
    /\ run /\ Storing
    /\ \E inst \in Fetched :
          /\ stored' = After(inst)
          /\ reported' = IF Reports(inst) THEN read_reg(inst.rs2) ELSE reported

SKeep == Next /\ ~Storing /\ UNCHANGED <<stored, reported>>

SNext == SStore \/ SKeep

SSpec == SInit /\ [][SNext]_storeVars

-----------------------------------------------------------------------------
\* A load that does not panic returns, byte by byte, what was stored last at
\* the addresses it names, whatever the widths and alignments of the stores,
\* across the top of the address space, and after a store over the end of the
\* memory (memory.rs:16-64, execute/mod.rs:56-86).
LoadsSeeStores ==
    [][\A inst \in Fetched :
          Iterating /\ inst.tag = "Load" /\ inst.rd # x0 /\ status' # "panicked" =>
              \A k \in 0..(Width(inst.op) - 1) :
                  Field(regs'[inst.rd], 8 * k, 8) = stored[Target(inst, k)]]_storeVars

\* run() returns a verdict if and only if the guest has given one
\* (cpu.rs:127-135, execute/mod.rs:76-83).  No iteration goes on once there is
\* a report: none is missed, whatever its place in the program and with the
\* last permitted cycle included.  A return before the limit has the guest's
\* last word for an answer, and at the limit there is none, also with
\* max_cycles = 0.  In the first call that word is what the memory holds at
\* tohost; a later one may return what an earlier one has left.
VerdictSound ==
    [][/\ Iterating /\ status' = "running" => reported' = None
       /\ status = "running" /\ status' = "returned" =>
             IF left = 0 THEN ret' = None
             ELSE /\ ret' = reported' /\ reported' # None
                  /\ calls = 1 =>
                        \A k \in 0..3 :
                            data'[offset(TohostAddr) + k] = Field(ret', 8 * k, 8)]_storeVars
=============================================================================
