--------------------------- MODULE HistoryProofs ---------------------------
(***************************************************************************)
(* The theorems of the modules that put something beside the hart:         *)
(* TrapHistory (traps and mret, for every handler), StoreHistory (the      *)
(* memory of memory.rs is a map from addresses to bytes, whatever its size *)
(* and base and whatever a guest stores and loads, and run() returns what  *)
(* the guest reports, in every call) and DiffTest (the emulator and the    *)
(* reference model agree after every instruction, for every guest, base    *)
(* and size of the memory).                                                *)
(***************************************************************************)
EXTENDS TrapHistory, StoreHistory, DiffTest, HartProofs

-----------------------------------------------------------------------------
(* Traps and returns *)

LEMMA TrapHistoryStep == [HNext]_trapVars => [Next]_vars
  BY DEF HNext, HTrap, HForget, HKeep, Next, trapVars

THEOREM TrapHistoryTyped == HSpec => []TypeOK
  <1>1. HInit => TypeOK
    BY InitTyped DEF HInit
  <1>2. TypeOK /\ [HNext]_trapVars => TypeOK'
    BY TrapHistoryStep, NextTyped
  <1> QED BY <1>1, <1>2, PTL DEF HSpec

-----------------------------------------------------------------------------
(* mstatus on the way in and on the way out *)

\* Entering a trap moves MIE to MPIE, clears it and records machine mode;
\* no other bit of mstatus is touched.
LEMMA TrapStatusBits ==
    ASSUME NEW w
    PROVE  /\ 7 \in TrapStatus(w) <=> 3 \in w
           /\ 3 \notin TrapStatus(w)
           /\ {11, 12} \subseteq TrapStatus(w)
           /\ \A i : i \notin {3, 7, 11, 12} => (i \in TrapStatus(w) <=> i \in w)
  BY DEF TrapStatus, MSTATUS_MIE, MSTATUS_MPIE, MSTATUS_MPP_MASK

\* Leaving one moves MPIE to MIE and sets MPIE; MPP stays.
LEMMA MretStatusBits ==
    ASSUME NEW w
    PROVE  /\ 3 \in MretStatus(w) <=> 7 \in w
           /\ 7 \in MretStatus(w)
           /\ \A i : i \notin {3, 7} => (i \in MretStatus(w) <=> i \in w)
  BY DEF MretStatus, MSTATUS_MIE, MSTATUS_MPIE

\* On the word mstatus, mret right after a trap restores the interrupt enable.
THEOREM MretAfterTrap ==
    ASSUME NEW w
    PROVE  3 \in MretStatus(TrapStatus(w)) <=> 3 \in w
  BY TrapStatusBits, MretStatusBits

LEMMA CsrsDistinct ==
    /\ MEPC # MCAUSE /\ MEPC # MTVAL /\ MEPC # MSTATUS /\ MCAUSE # MSTATUS /\ MTVAL # MSTATUS
    /\ MEPC \notin {MHARTID, MISA} /\ MSTATUS \notin {MHARTID, MISA}
  BY DEF MSTATUS, MISA, MTVEC, MEPC, MCAUSE, MTVAL, MHARTID

LEMMA TrapCsrsPrimed ==
    /\ read_csr(MEPC)' = csr_at(csrs', MEPC)
    /\ read_csr(MSTATUS)' = csr_at(csrs', MSTATUS)
  BY DEF read_csr, csr_at, MEPC, MSTATUS

-----------------------------------------------------------------------------
(* The invariant of a handler *)

\* The only steps that touch mepc or mstatus are the traps, mret and the csr
\* instructions that write them.
LEMMA TrapCsrsKept ==
    ASSUME TypeOK, [Next]_vars, ~Trapping, ~Returning, ~Overwrites
    PROVE  /\ read_csr(MEPC)' = read_csr(MEPC)
           /\ read_csr(MSTATUS)' = read_csr(MSTATUS)
  <1>1. CASE UNCHANGED csrs
    BY <1>1 DEF read_csr
  <1>2. CASE step
    <2>1. PICK inst \in Fetched : execute(inst)
      BY <1>2 DEF step
    <2>2. Iterating
      BY <1>2 DEF step
    <2>3. inst.tag \notin {"Ecall", "Ebreak", "Mret"}
      BY <2>1, <2>2 DEF Trapping, Returning, Executing
    <2>4. CASE Csr(inst)
      <3>1. inst.csr \notin {MEPC, MSTATUS} \/ ~WritesCsr(inst)
        BY <2>1, <2>2, <2>4 DEF Overwrites, Csr
      <3> QED BY <2>4, <3>1, CsrAfterWrite DEF Csr, read_csr
    <2>5. CASE UNCHANGED csrs
      BY <2>5 DEF read_csr
    <2> QED BY <2>1, <2>3, <2>4, <2>5
         DEF execute, R, I, Shift, Load, LoadPanic, Store, StorePanic, Branch, Upper, Jump,
             Skip, Ecall, Ebreak, Mret, DecodePanic, hartVars
  <1> QED BY <1>1, <1>2 DEF Next, run, FetchPanic, Exhausted, Call, vars, hartVars

\* A trap leaves behind what TrapStateKept says, and records it.
LEMMA TrapRecords ==
    ASSUME TypeOK, HTrap
    PROVE  TrapStateKept'
  <1>1. PICK inst \in Fetched : execute(inst)
    BY DEF HTrap, Trapping, Executing, run, step, FetchPanic, Exhausted, Iterating, Fetched
  <1>2. inst.tag \in {"Ecall", "Ebreak"}
    BY <1>1 DEF HTrap, Trapping, Executing, Fetched
  <1>3. PICK cause, tval : trap(cause, tval)
    BY <1>1, <1>2
    DEF execute, R, I, Shift, Load, LoadPanic, Store, StorePanic, Branch, Upper, Jump, Csr, Skip,
        Ecall, Ebreak, Mret, DecodePanic, Panic, Unreachable
  <1>4. /\ read_csr(MEPC)' = pc
        /\ read_csr(MSTATUS)' = TrapStatus(read_csr(MSTATUS))
    <2> DEFINE a == write_csr(csrs, MEPC, pc)
               b == write_csr(a, MCAUSE, cause)
               c == write_csr(b, MTVAL, tval)
               d == write_csr(c, MSTATUS, TrapStatus(read_csr(MSTATUS)))
    <2>1. csrs' = d
      BY <1>3 DEF trap
    <2>2. csr_at(a, MEPC) = pc
      BY CsrAfterWrite, CsrsDistinct
    <2>3. csr_at(b, MEPC) = csr_at(a, MEPC)
      <3> HIDE DEF a
      <3> QED BY CsrAfterWrite, CsrsDistinct
    <2>4. csr_at(c, MEPC) = csr_at(b, MEPC)
      <3> HIDE DEF b
      <3> QED BY CsrAfterWrite, CsrsDistinct
    <2>5. csr_at(d, MEPC) = csr_at(c, MEPC) /\ csr_at(d, MSTATUS) = TrapStatus(read_csr(MSTATUS))
      <3> HIDE DEF c
      <3> QED BY CsrAfterWrite, CsrsDistinct
    <2> HIDE DEF a, b, c, d
    <2> QED BY <2>1, <2>2, <2>3, <2>4, <2>5, TrapCsrsPrimed
  <1>5. /\ 7 \in read_csr(MSTATUS)' <=> 3 \in read_csr(MSTATUS)
        /\ 3 \notin read_csr(MSTATUS)' /\ {11, 12} \subseteq read_csr(MSTATUS)'
    BY <1>4, TrapStatusBits
  <1>6. saved' = <<[pc |-> pc, mie |-> 3 \in read_csr(MSTATUS)]>>
    BY DEF HTrap, InterruptsOn, MSTATUS_MIE
  <1>7. saved'[1].pc = pc /\ (saved'[1].mie <=> 3 \in read_csr(MSTATUS))
    BY <1>6
  <1> QED BY <1>4, <1>5, <1>7
       DEF TrapStateKept, InterruptsOn, MSTATUS_MIE, MSTATUS_MPIE, MSTATUS_MPP_MASK

\* From the trap to its mret, mepc and mstatus hold what the trap saved,
\* whatever the handler does that does not write them.
THEOREM TrapStateCorrect == HSpec => []TrapStateKept
  <1>1. HInit => TrapStateKept
    BY DEF HInit, TrapStateKept
  <1>2. TypeOK /\ TrapStateKept /\ [HNext]_trapVars => TrapStateKept'
    <2> SUFFICES ASSUME TypeOK, TrapStateKept, [HNext]_trapVars PROVE TrapStateKept'
      OBVIOUS
    <2>1. CASE HTrap
      BY <2>1, TrapRecords
    <2>2. CASE HForget
      BY <2>2 DEF HForget, TrapStateKept
    <2>3. CASE HKeep \/ UNCHANGED trapVars
      <3>1. UNCHANGED saved
        BY <2>3 DEF HKeep, trapVars
      <3>2. /\ read_csr(MEPC)' = read_csr(MEPC)
            /\ read_csr(MSTATUS)' = read_csr(MSTATUS)
        BY <2>3, TrapCsrsKept DEF HKeep, trapVars, vars, hartVars, read_csr
      <3> QED BY <3>1, <3>2 DEF TrapStateKept, InterruptsOn
    <2> QED BY <2>1, <2>2, <2>3 DEF HNext
  <1> QED BY <1>1, <1>2, TrapHistoryTyped, PTL DEF HSpec

\* mret resumes at the instruction that trapped with the interrupt enable it
\* had, for every handler and every guest.
THEOREM MretCorrect == HSpec => MretUndoesTrap
  <1>1. TrapStateKept /\ [HNext]_trapVars =>
          [Returning /\ saved # << >> =>
             pc' = saved[1].pc /\ (InterruptsOn' <=> saved[1].mie)]_trapVars
    <2> SUFFICES ASSUME TrapStateKept, HNext, Returning, saved # << >>
                 PROVE  pc' = saved[1].pc /\ (InterruptsOn' <=> saved[1].mie)
      OBVIOUS
    <2>1. PICK inst \in Fetched : Iterating /\ inst.tag = "Mret" /\ Fetched = {inst}
      BY DEF Returning, Executing, Fetched
    <2>2. ~Trapping
      BY <2>1 DEF Trapping, Executing
    <2>3. run
      BY <2>2 DEF HNext, HTrap, HForget, HKeep
    <2>4. execute(inst)
      BY <2>1, <2>3 DEF run, step, FetchPanic, Exhausted, Iterating, Fetched
    <2>5. Mret(inst)
      BY <2>1, <2>4
      DEF execute, R, I, Shift, Load, LoadPanic, Store, StorePanic, Branch, Upper, Jump, Csr,
          Skip, Ecall, Ebreak, DecodePanic, Panic, Unreachable
    <2>6. pc' = read_csr(MEPC) /\ read_csr(MSTATUS)' = MretStatus(read_csr(MSTATUS))
      BY <2>5, CsrAfterWrite, CsrsDistinct, TrapCsrsPrimed DEF Mret, GoTo
    <2>7. 3 \in read_csr(MSTATUS)' <=> 7 \in read_csr(MSTATUS)
      BY <2>6, MretStatusBits
    <2> QED BY <2>6, <2>7 DEF TrapStateKept, InterruptsOn, MSTATUS_MIE, MSTATUS_MPIE
  <1> QED BY <1>1, TrapStateCorrect, PTL DEF HSpec, MretUndoesTrap

-----------------------------------------------------------------------------
(* The memory of the guest *)

\* The address of byte n of the memory, and of the first ones beyond its end
AddressOf(n) == wrapping_add(Base, BitsOf(n))

\* The history is what the array holds
StoredInv == TypeOK /\ stored = [a \in Address |-> read8(a)]

-----------------------------------------------------------------------------
(* Addresses *)

LEMMA IndexBounds ==
    /\ MEM_SIZE \in Nat \ {0}
    /\ \A n \in Index : n \in Nat /\ n < MEM_SIZE
    /\ 0..(MEM_SIZE + 3) \subseteq Number /\ Index \subseteq 0..(MEM_SIZE + 3)
  <1>1. MEM_SIZE \in Nat \ {0} /\ MEM_SIZE + 3 <= 2^30 - 1
    BY MemoryAssumption, SMT
  <1>2. 0..(MEM_SIZE + 3) \subseteq Number
    <2>1. \A m \in Nat, n \in Nat : m <= n => 0..m \subseteq 0..n
      OBVIOUS
    <2>2. MEM_SIZE + 3 \in Nat /\ 2^30 - 1 \in Nat
      BY <1>1, SMT
    <2> QED BY <1>1, <2>1, <2>2, Zenon DEF Number
  <1> QED BY <1>1, <1>2 DEF Index

\* The offset of an address is the index it was made from.
LEMMA OffsetOfAddress ==
    ASSUME NEW n \in Index
    PROVE  /\ AddressOf(n) \in Word /\ AddressOf(n) \in Address
           /\ InBounds(AddressOf(n)) /\ offset(AddressOf(n)) = n
  <1>1. BitsOf(n) \in Word /\ AddressOf(n) \in Word
    BY MemoryAssumption, WordClosed DEF AddressOf
  <1>2. wrapping_sub(AddressOf(n), Base) = BitsOf(n)
    BY <1>1, MemoryAssumption, SubAdd DEF AddressOf
  <1>3. \A m \in Index : WordOf[m] = BitsOf(n) <=> m = n
    BY IndexBounds, WidthAssumption, BitsOfInjective DEF WordOf
  <1> QED BY <1>1, <1>2, <1>3 DEF InBounds, offset, Address, AddressOf

\* An address in bounds is that of its offset.
LEMMA AddressOfOffset ==
    ASSUME NEW a \in Word
    PROVE  /\ InBounds(a) => offset(a) \in Index /\ a = AddressOf(offset(a))
           /\ InBounds(a) <=> a \in Address
  <1>1. ASSUME InBounds(a)
        PROVE  offset(a) \in Index /\ a = AddressOf(offset(a))
    <2>1. offset(a) \in Index /\ WordOf[offset(a)] = wrapping_sub(a, Base)
      BY <1>1 DEF InBounds, offset
    <2>2. wrapping_add(Base, wrapping_sub(a, Base)) = a
      BY MemoryAssumption, AddSub
    <2> QED BY <2>1, <2>2 DEF WordOf, AddressOf
  <1>2. a \in Address => \E n \in Index : a = AddressOf(n)
    BY DEF Address, AddressOf
  <1>3. \A n \in Index : AddressOf(n) \in Address /\ InBounds(AddressOf(n))
    BY OffsetOfAddress
  <1> QED BY <1>1, <1>2, <1>3

LEMMA AddressesDiffer ==
    ASSUME NEW m \in 0..(MEM_SIZE + 3), NEW n \in 0..(MEM_SIZE + 3), AddressOf(m) = AddressOf(n)
    PROVE  m = n
  <1>1. BitsOf(m) = BitsOf(n)
    BY MemoryAssumption, WordClosed, SubAdd DEF AddressOf
  <1> QED BY <1>1, IndexBounds, WidthAssumption, BitsOfInjective

\* The bytes of an access have addresses of their own, one after another, the
\* ones beyond the end of the memory too.
LEMMA AddressesFollow ==
    ASSUME NEW n \in Index, NEW k \in 0..3
    PROVE  wrapping_add(AddressOf(n), BitsOf(k)) = AddressOf(n + k)
  <1> DEFINE S == {j \in 0..3 : wrapping_add(AddressOf(n), BitsOf(j)) = AddressOf(n + j)}
  <1>1. /\ {0} \in Word /\ AddressOf(n) \in Word /\ \A j : BitsOf(j) \in Word
        /\ 0..(MEM_SIZE + 3) \subseteq Number /\ n \in Nat /\ n < MEM_SIZE
    <2>1. {0} \in Word
      BY BitSet DEF Word
    <2>2. AddressOf(n) \in Word /\ \A j : BitsOf(j) \in Word
      BY OffsetOfAddress, WordClosed
    <2> QED BY <2>1, <2>2, IndexBounds
  <1>2. \A j \in 0..(MEM_SIZE + 3) : AddressOf(j + 1) = wrapping_add(AddressOf(j), {0})
    BY <1>1, MemoryAssumption, BitsOfNext, AddAssoc DEF AddressOf
  <1>3. 0 \in S
    BY <1>1, BitsOfZero, AddZero
  <1>4. ASSUME NEW j \in 0..2, j \in S PROVE j + 1 \in S
    <2>1. n + j \in 0..(MEM_SIZE + 3) /\ j \in 0..(MEM_SIZE + 3) /\ n + (j + 1) = (n + j) + 1
      BY <1>1, IndexBounds
    <2>2. BitsOf(j + 1) = wrapping_add(BitsOf(j), {0})
      BY <1>1, <2>1, BitsOfNext
    <2>3. wrapping_add(AddressOf(n), BitsOf(j + 1))
            = wrapping_add(wrapping_add(AddressOf(n), BitsOf(j)), {0})
      BY <1>1, <2>2, AddAssoc
    <2>4. wrapping_add(AddressOf(n + j), {0}) = AddressOf(n + (j + 1))
      BY <1>2, <2>1
    <2> QED BY <1>4, <2>3, <2>4
  <1>5. 0..3 \subseteq S
    <2>1. \A j \in 0..(3 - 1) : j \in 0..2
      OBVIOUS
    <2> HIDE DEF S
    <2> QED BY <1>3, <1>4, <2>1, IntervalInduction
  <1> QED BY <1>5

-----------------------------------------------------------------------------
(* Bytes *)

\* Byte k of what is read is the byte that is k after the first.
LEMMA ByteOfRead ==
    ASSUME MemoryTypeOK, NEW a, NEW n \in {1, 2, 4}, Accessible(a, n), NEW k \in 0..(n - 1)
    PROVE  /\ offset(a) + k \in Index
           /\ Field(ReadLE(a, n), 8 * k, 8) = data[offset(a) + k]
  <1> DEFINE off == offset(a)
  <1>1. off \in Index /\ off + n <= MEM_SIZE
    BY DEF Accessible, InBounds, offset
  <1> HIDE DEF off
  <1>2. off + k \in Index /\ data[off + k] \subseteq 0..7
    BY <1>1, IndexBounds DEF Index, MemoryTypeOK, Byte
  <1>3. ASSUME NEW i \in 0..7
        PROVE  i + 8 * k \in ReadLE(a, n) <=> i \in data[off + k]
    <2>1. i + 8 * k \in 0..(8 * n - 1) /\ (i + 8 * k) % 8 = i /\ (i + 8 * k) \div 8 = k
      OBVIOUS
    <2> QED BY <2>1 DEF ReadLE, off
  <1> QED BY <1>2, <1>3 DEF Field, off

\* Extension leaves the bytes alone that were read.
LEMMA ByteOfExtended ==
    ASSUME NEW w, NEW n \in {1, 2}, NEW k \in 0..(n - 1)
    PROVE  Field(SignExtend(w, 8 * n), 8 * k, 8) = Field(w, 8 * k, 8)
  <1>1. \A i \in 0..7 : i + 8 * k \in Bit /\ i + 8 * k < 8 * n
    BY BitSet
  <1> QED BY <1>1 DEF Field, SignExtend

LEMMA ByteOfLoad ==
    ASSUME MemoryTypeOK, NEW op \in DOMAIN LoadOp, NEW a, Accessible(a, Width(op)),
           NEW k \in 0..(Width(op) - 1)
    PROVE  /\ offset(a) + k \in Index /\ k \in 0..3
           /\ Field(LoadResult(op, a), 8 * k, 8) = data[offset(a) + k]
  <1>1. CASE op = "Lb"
    BY <1>1, ByteOfRead, ByteOfExtended DEF Width, LoadResult, read8
  <1>2. CASE op = "Lh"
    BY <1>2, ByteOfRead, ByteOfExtended DEF Width, LoadResult, read16
  <1>3. CASE op = "Lw"
    BY <1>3, ByteOfRead DEF Width, LoadResult, read32
  <1>4. CASE op = "Lbu"
    BY <1>4, ByteOfRead DEF Width, LoadResult, read8
  <1>5. CASE op = "Lhu"
    BY <1>5, ByteOfRead DEF Width, LoadResult, read16
  <1> QED BY <1>1, <1>2, <1>3, <1>4, <1>5 DEF LoadOp

\* A byte alone.
LEMMA StoredByte ==
    MemoryTypeOK => \A a \in Address : read8(a) = data[offset(a)]
  <1> SUFFICES ASSUME MemoryTypeOK, NEW a \in Address PROVE read8(a) = data[offset(a)]
    OBVIOUS
  <1>1. PICK n \in Index : a = AddressOf(n)
    BY DEF Address, AddressOf
  <1>2. InBounds(a) /\ offset(a) = n
    BY <1>1, OffsetOfAddress
  <1>3. Accessible(a, 1)
    BY <1>2, IndexBounds DEF Accessible
  <1>4. Field(ReadLE(a, 1), 8 * 0, 8) = data[offset(a) + 0]
    BY <1>3, ByteOfRead
  <1>5. Field(ReadLE(a, 1), 8 * 0, 8) = ReadLE(a, 1)
    BY DEF Field, ReadLE
  <1> QED BY <1>2, <1>4, <1>5, IndexBounds DEF read8

LEMMA StoredBytePrimed ==
    (MemoryTypeOK => \A a \in Address : read8(a) = data[offset(a)])'
  BY StoredByte, PTL

-----------------------------------------------------------------------------
(* The history *)

LEMMA StoreStep == [SNext]_storeVars => [Next]_vars
  BY DEF SNext, SStore, SKeep, Next, storeVars

\* Every byte that a store reaches is one of its targets, and the targets
\* that are none of the memory's are no address of it.
LEMMA StoreTargets ==
    ASSUME TypeOK, NEW inst \in Instruction, inst.tag = "Store", EffAddr(inst) \in Address,
           NEW m \in Index, NEW k \in 0..(Width(inst.op) - 1)
    PROVE  /\ offset(EffAddr(inst)) \in Index /\ k \in 0..3
           /\ AddressOf(m) = Target(inst, k) <=> m = offset(EffAddr(inst)) + k
  <1> DEFINE a == EffAddr(inst)
             off == offset(a)
  <1>1. inst.op \in DOMAIN StoreOp /\ inst.rs1 \in RegIdx /\ inst.imm \in Word
    BY DEF Instruction, Plain
  <1>2. k \in 0..3
    BY <1>1 DEF StoreOp, Width
  <1>3. a \in Word
    BY <1>1, EffAddrTyped DEF EffAddr, TypeOK
  <1> HIDE DEF a
  <1>4. off \in Index /\ a = AddressOf(off)
    BY <1>3, AddressOfOffset DEF a
  <1> HIDE DEF off
  <1>5. Target(inst, k) = AddressOf(off + k)
    BY <1>2, <1>4, AddressesFollow DEF Target, a
  <1>6. m \in 0..(MEM_SIZE + 3) /\ off + k \in 0..(MEM_SIZE + 3)
    BY <1>2, <1>4, IndexBounds
  <1>7. AddressOf(m) = AddressOf(off + k) <=> m = off + k
    BY <1>6, AddressesDiffer
  <1> QED BY <1>2, <1>4, <1>5, <1>7 DEF off, a

\* A store, one that panics half way too, changes the history as it changes
\* the array.
LEMMA StoreKept ==
    ASSUME StoredInv, TypeOK', NEW inst \in Instruction, inst.tag = "Store",
           EffAddr(inst) \in Address,
           WriteLE(EffAddr(inst), Width(inst.op), read_reg(inst.rs2)), stored' = After(inst)
    PROVE  StoredInv'
  <1> DEFINE off == offset(EffAddr(inst))
             w == Width(inst.op)
             val == read_reg(inst.rs2)
  <1>1. /\ \A a \in Address : \E m \in Index : a = AddressOf(m)
        /\ \A m \in Index : AddressOf(m) \in Address /\ offset(AddressOf(m)) = m
    BY OffsetOfAddress DEF Address, AddressOf
  <1>2. ASSUME NEW m \in Index, \E k \in 0..(w - 1) : AddressOf(m) = Target(inst, k)
        PROVE  data'[m] = stored'[AddressOf(m)]
    <2> DEFINE k == CHOOSE k \in 0..(w - 1) : AddressOf(m) = Target(inst, k)
    <2>1. k \in 0..(w - 1) /\ AddressOf(m) = Target(inst, k)
      BY <1>2
    <2>2. stored'[AddressOf(m)] = Field(val, 8 * k, 8)
      BY <1>1, <1>2 DEF After
    <2> HIDE DEF k
    <2>3. off \in Index /\ m = off + k /\ k \in 0..3
      BY <2>1, StoreTargets DEF StoredInv
    <2>4. off \in Nat /\ w \in {1, 2, 4}
      BY <2>3, IndexBounds DEF Instruction, StoreOp, Width, Plain
    <2> HIDE DEF off, w
    <2>5. m \in off..(off + w - 1) /\ m - off = k
      BY <2>1, <2>3, <2>4
    <2>6. data'[m] = Field(val, 8 * (m - off), 8)
      BY <2>5 DEF WriteLE, off, w
    <2> QED BY <2>2, <2>5, <2>6
  <1>3. ASSUME NEW m \in Index, ~\E k \in 0..(w - 1) : AddressOf(m) = Target(inst, k)
        PROVE  data'[m] = stored'[AddressOf(m)]
    <2>1. stored'[AddressOf(m)] = stored[AddressOf(m)]
      BY <1>1, <1>3 DEF After
    <2>2. w \in {1, 2, 4}
      BY DEF Instruction, StoreOp, Width, Plain
    <2>3. off \in Index
      BY <2>2, StoreTargets DEF StoredInv
    <2>4. m \notin off..(off + w - 1)
      <3>1. SUFFICES ASSUME m \in off..(off + w - 1) PROVE FALSE
        OBVIOUS
      <3> HIDE DEF off, w
      <3>2. m - off \in 0..(w - 1) /\ m = off + (m - off)
        BY <2>2, <2>3, <3>1, IndexBounds
      <3>3. AddressOf(m) = Target(inst, m - off)
        BY <3>2, StoreTargets DEF StoredInv, off, w
      <3> QED BY <1>3, <3>2, <3>3
    <2>5. data'[m] = data[m]
      BY <2>4 DEF WriteLE
    <2>6. stored[AddressOf(m)] = data[m]
      BY <1>1, StoredByte DEF StoredInv, TypeOK
    <2> QED BY <2>1, <2>5, <2>6
  <1>4. \A m \in Index : stored'[AddressOf(m)] = data'[m]
    BY <1>2, <1>3
  <1>5. stored' = [a \in Address |-> stored'[a]]
    BY DEF After
  <1>6. \A a \in Address : read8(a)' = data'[offset(a)]
    BY StoredBytePrimed DEF TypeOK
  <1>7. \A a \in Address : stored'[a] = read8(a)'
    BY <1>1, <1>4, <1>6
  <1>8. stored' = [a \in Address |-> read8(a)']
    BY <1>5, <1>7
  <1> QED BY <1>8 DEF StoredInv

\* Nothing else changes the memory, the verdict or what is told of them.
LEMMA OthersKeep ==
    ASSUME TypeOK, SNext, ~SStore
    PROVE  UNCHANGED <<data, stored, tohost_value, reported>>
  <1>1. Next /\ ~Storing /\ stored' = stored /\ reported' = reported
    BY DEF SNext, SKeep
  <1>2. ASSUME NEW inst \in Fetched, Iterating, execute(inst) PROVE UNCHANGED <<data, tohost_value>>
    <2>1. inst \in Instruction \cup {Panic, Unreachable}
      BY FetchedTyped
    <2>2. inst.tag = "Store" => ~InBounds(EffAddr(inst))
      <3> SUFFICES ASSUME inst.tag = "Store" PROVE EffAddr(inst) \notin Address /\ EffAddr(inst) \in Word
        BY AddressOfOffset
      <3>1. inst.rs1 \in RegIdx /\ inst.imm \in Word
        BY <2>1 DEF Instruction, Plain, Panic, Unreachable
      <3> QED BY <1>1, <1>2, <3>1, EffAddrTyped DEF Storing, EffAddr, TypeOK
    <2> QED BY <1>2, <2>2 DEF execute, R, I, Shift, Load, LoadPanic, Store, StorePanic, Branch,
               Upper, Jump, Csr, Skip, Ecall, Ebreak, trap, Mret, DecodePanic, hartVars, Accessible
  <1> QED BY <1>1, <1>2 DEF Next, run, step, FetchPanic, Exhausted, Call, hartVars

LEMMA StoredInductive == StoredInv /\ [SNext]_storeVars => StoredInv'
  <1> SUFFICES ASSUME StoredInv, [SNext]_storeVars PROVE StoredInv'
    OBVIOUS
  <1>1. TypeOK /\ TypeOK'
    BY StoreStep, NextTyped DEF StoredInv
  <1>2. CASE SStore
    <2>1. PICK inst \in Fetched : stored' = After(inst)
      BY <1>2 DEF SStore
    <2>2. Fetched = {inst} /\ Iterating /\ inst.tag = "Store" /\ EffAddr(inst) \in Address
      BY <1>2, <2>1 DEF SStore, Storing, Fetched
    <2>3. inst \in Instruction
      BY <2>2, FetchedTyped DEF Panic, Unreachable
    <2>4. execute(inst)
      BY <1>2, <2>2 DEF SStore, run, step, FetchPanic, Exhausted, Iterating, Fetched
    <2>5. InBounds(EffAddr(inst))
      <3>1. EffAddr(inst) \in Word
        BY <1>1, <2>2, <2>3, EffAddrTyped DEF EffAddr, TypeOK, Instruction, Plain
      <3> QED BY <2>2, <3>1, AddressOfOffset
    <2>6. WriteLE(EffAddr(inst), Width(inst.op), read_reg(inst.rs2))
      BY <2>2, <2>4, <2>5
      DEF execute, R, I, Shift, Load, LoadPanic, Store, StorePanic, Branch, Upper, Jump, Csr, Skip,
          Ecall, Ebreak, trap, Mret, DecodePanic, Panic, Unreachable
    <2> QED BY <1>1, <2>1, <2>2, <2>3, <2>6, StoreKept
  <1>3. CASE UNCHANGED <<data, stored>>
    BY <1>1, <1>3 DEF StoredInv, read8, ReadLE
  <1> QED BY <1>1, <1>2, <1>3, OthersKeep DEF storeVars, vars

\* What a load returns is what was stored last at the addresses it names, for
\* every size and base of the memory, every guest and both builds.
THEOREM LoadsCorrect == SSpec => LoadsSeeStores
  <1> DEFINE Sees ==
        \A inst \in Fetched :
          Iterating /\ inst.tag = "Load" /\ inst.rd # x0 /\ status' # "panicked" =>
              \A k \in 0..(Width(inst.op) - 1) :
                  Field(regs'[inst.rd], 8 * k, 8) = stored[Target(inst, k)]
  <1>1. SInit => StoredInv
    BY InitTyped DEF SInit, StoredInv
  <1>2. StoredInv /\ [SNext]_storeVars => [Sees]_storeVars
    <2> SUFFICES ASSUME StoredInv, SNext,
                        NEW inst \in Fetched, Iterating, inst.tag = "Load", inst.rd # x0,
                        status' # "panicked", NEW k \in 0..(Width(inst.op) - 1)
                 PROVE  Field(regs'[inst.rd], 8 * k, 8) = stored[Target(inst, k)]
      OBVIOUS
    <2> DEFINE a == EffAddr(inst)
    <2>1. Fetched = {inst} /\ TypeOK
      BY DEF Fetched, StoredInv
    <2>2. /\ inst \in Instruction /\ inst.op \in DOMAIN LoadOp /\ inst.rd \in RegIdx
          /\ inst.rs1 \in RegIdx /\ inst.imm \in Word
      BY FetchedTyped DEF Panic, Unreachable, Instruction, Plain
    <2>3. Next
      BY DEF SNext, SStore, SKeep, Next
    <2>4. execute(inst)
      BY <2>1, <2>3 DEF Next, Call, run, step, FetchPanic, Exhausted, Iterating, Fetched
    <2>5. Accessible(a, Width(inst.op)) /\ write_reg(inst.rd, LoadResult(inst.op, a))
      BY <2>4
      DEF execute, R, I, Shift, Load, LoadPanic, Store, StorePanic, Branch, Upper, Jump, Csr, Skip,
          Ecall, Ebreak, trap, Mret, DecodePanic, Panic, Unreachable, Panicking
    <2>6. regs'[inst.rd] = LoadResult(inst.op, a)
      BY <2>1, <2>2, <2>5 DEF write_reg, TypeOK, HartTypeOK
    <2>7. a \in Word
      BY <2>1, <2>2, EffAddrTyped DEF EffAddr, TypeOK
    <2>8. offset(a) \in Index /\ a = AddressOf(offset(a))
      BY <2>5, <2>7, AddressOfOffset DEF Accessible
    <2>9. /\ offset(a) + k \in Index /\ k \in 0..3
          /\ Field(LoadResult(inst.op, a), 8 * k, 8) = data[offset(a) + k]
      BY <2>1, <2>2, <2>5, ByteOfLoad DEF TypeOK
    <2>10. Target(inst, k) = AddressOf(offset(a) + k)
      BY <2>8, <2>9, AddressesFollow DEF Target
    <2>11. stored[AddressOf(offset(a) + k)] = data[offset(a) + k]
      BY <2>1, <2>9, OffsetOfAddress, StoredByte DEF StoredInv, TypeOK
    <2> QED BY <2>6, <2>9, <2>10, <2>11
  <1> QED BY <1>1, <1>2, StoredInductive, PTL DEF SSpec, LoadsSeeStores

-----------------------------------------------------------------------------
(* The verdict *)

\* The invariant: the hart has latched the last report, none was made before
\* the first call, and while that one runs there is none.
ReportedInv ==
    /\ reported = tohost_value
    /\ calls = 0 <=> status = "idle"
    /\ calls = 0 \/ (calls = 1 /\ status = "running") => reported = None

\* The step that a store takes.
LEMMA StoreExecuted ==
    ASSUME TypeOK, SStore
    PROVE  \E inst \in Instruction :
              /\ inst.tag = "Store" /\ execute(inst) /\ Iterating
              /\ reported' = IF Reports(inst) THEN read_reg(inst.rs2) ELSE reported
  <1>1. PICK inst \in Fetched :
          reported' = IF Reports(inst) THEN read_reg(inst.rs2) ELSE reported
    BY DEF SStore
  <1>2. Fetched = {inst} /\ Iterating /\ inst.tag = "Store"
    BY <1>1 DEF SStore, Storing, Fetched
  <1>3. inst \in Instruction
    BY <1>2, FetchedTyped DEF Panic, Unreachable
  <1>4. execute(inst)
    BY <1>2 DEF SStore, run, step, FetchPanic, Exhausted, Iterating, Fetched
  <1> QED BY <1>1, <1>2, <1>3, <1>4

\* A store latches exactly the reports, one that overflows pc too.
LEMMA StoreLatches ==
    ASSUME NEW inst \in Instruction, inst.tag = "Store", execute(inst)
    PROVE  tohost_value' = IF Reports(inst) THEN read_reg(inst.rs2) ELSE tohost_value
  <1>1. Store(inst) \/ StorePanic(inst)
    BY DEF execute, R, I, Shift, Load, LoadPanic, Branch, Upper, Jump, Csr, Skip, Ecall, Ebreak,
           Mret, DecodePanic, Panic, Unreachable
  <1>2. Width("Sw") = 4
    BY DEF Width
  <1>3. CASE Store(inst)
    BY <1>2, <1>3 DEF Store, Reports
  <1>4. CASE StorePanic(inst)
    BY <1>2, <1>4 DEF StorePanic, Reports, hartVars
  <1> QED BY <1>1, <1>3, <1>4

\* A report is in the memory, byte by byte.
LEMMA ReportIsStored ==
    ASSUME TypeOK, NEW inst \in Instruction, inst.tag = "Store", execute(inst), Reports(inst)
    PROVE  \A k \in 0..3 : data'[offset(TohostAddr) + k] = Field(read_reg(inst.rs2), 8 * k, 8)
  <1> DEFINE off == offset(TohostAddr)
  <1>1. Accessible(TohostAddr, 4) /\ EffAddr(inst) = TohostAddr /\ Width(inst.op) = 4
    BY DEF Reports, Width
  <1>2. off \in Index /\ off + 4 <= MEM_SIZE
    BY <1>1 DEF Accessible, InBounds, offset
  <1>3. WriteLE(TohostAddr, 4, read_reg(inst.rs2))
    BY <1>1
    DEF execute, R, I, Shift, Load, LoadPanic, Store, StorePanic, Branch, Upper, Jump, Csr, Skip,
        Ecall, Ebreak, Mret, DecodePanic, Panic, Unreachable
  <1> HIDE DEF off
  <1>4. ASSUME NEW k \in 0..3
        PROVE  data'[off + k] = Field(read_reg(inst.rs2), 8 * k, 8)
    <2>1. off + k \in Index /\ off + k \in off..(off + 4 - 1) /\ (off + k) - off = k
      BY <1>2, IndexBounds DEF Index
    <2> QED BY <1>3, <2>1 DEF WriteLE, off
  <1> QED BY <1>4 DEF off

\* Whatever the step, the hart has latched what the guest has reported.
LEMMA LatchKept ==
    ASSUME TypeOK, [SNext]_storeVars, reported = tohost_value
    PROVE  reported' = tohost_value'
  <1>1. CASE SStore
    BY <1>1, StoreExecuted, StoreLatches
  <1>2. CASE UNCHANGED storeVars
    BY <1>2 DEF storeVars, vars, hartVars
  <1> QED BY <1>1, <1>2, OthersKeep

\* How one iteration, or one call, moves the loop.
LEMMA LoopMoves ==
    ASSUME TypeOK, Next
    PROVE  \/ Iterating /\ EndIteration
           \/ Iterating /\ Panicking
           \/ Exhausted
           \/ \E max_cycles \in Budgets : Call(max_cycles)
  <1>1. CASE step
    BY <1>1, FetchedTyped, ExecuteLoops DEF step
  <1>2. CASE FetchPanic
    BY <1>2 DEF FetchPanic
  <1> QED BY <1>1, <1>2 DEF Next, run

LEMMA ReportedInductive == TypeOK /\ ReportedInv /\ [SNext]_storeVars => ReportedInv'
  <1> SUFFICES ASSUME TypeOK, ReportedInv, [SNext]_storeVars PROVE ReportedInv'
    OBVIOUS
  <1>1. reported' = tohost_value'
    BY LatchKept DEF ReportedInv
  <1>2. CASE SNext
    <2>0. Next /\ calls \in Nat
      BY <1>2 DEF SNext, SStore, SKeep, Next, TypeOK, LoopTypeOK
    <2>1. CASE Iterating /\ EndIteration
      BY <1>1, <2>0, <2>1 DEF ReportedInv, Iterating, EndIteration
    <2>2. CASE Iterating /\ Panicking
      BY <1>1, <2>0, <2>2 DEF ReportedInv, Iterating, Panicking
    <2>3. CASE Exhausted
      BY <1>1, <2>0, <2>3 DEF ReportedInv, Exhausted, hartVars
    <2>4. CASE \E max_cycles \in Budgets : Call(max_cycles)
      BY <1>1, <2>0, <2>4 DEF ReportedInv, Call, hartVars
    <2> QED BY <2>0, <2>1, <2>2, <2>3, <2>4, LoopMoves
  <1>3. CASE UNCHANGED storeVars
    BY <1>1, <1>3 DEF ReportedInv, storeVars, vars, loopVars
  <1> QED BY <1>2, <1>3

\* The return of the first call has found its report in this very step.
LEMMA ReturnIsStored ==
    ASSUME TypeOK, ReportedInv, SNext, calls = 1, status = "running", reported' # None
    PROVE  \A k \in 0..3 : data'[offset(TohostAddr) + k] = Field(reported', 8 * k, 8)
  <1>1. reported = None
    BY DEF ReportedInv
  <1>2. SStore
    BY <1>1, OthersKeep
  <1>3. PICK inst \in Instruction :
          /\ inst.tag = "Store" /\ execute(inst)
          /\ reported' = IF Reports(inst) THEN read_reg(inst.rs2) ELSE reported
    BY <1>2, StoreExecuted
  <1> QED BY <1>1, <1>3, ReportIsStored

\* run() returns what the guest has reported, when it has, and nothing else,
\* in every guest, at every place of tohost, for every limit and call.
THEOREM VerdictCorrect == SSpec => VerdictSound
  <1> DEFINE Told ==
        /\ Iterating /\ status' = "running" => reported' = None
        /\ status = "running" /\ status' = "returned" =>
             IF left = 0 THEN ret' = None
             ELSE /\ ret' = reported' /\ reported' # None
                  /\ calls = 1 =>
                        \A k \in 0..3 :
                            data'[offset(TohostAddr) + k] = Field(ret', 8 * k, 8)
  <1>1. SInit => TypeOK /\ ReportedInv
    BY InitTyped DEF SInit, Init, ReportedInv
  <1>2. TypeOK /\ ReportedInv /\ [SNext]_storeVars => TypeOK' /\ ReportedInv'
    BY StoreStep, NextTyped, ReportedInductive
  <1>3. TypeOK /\ ReportedInv /\ [SNext]_storeVars => [Told]_storeVars
    <2> SUFFICES ASSUME TypeOK, ReportedInv, SNext PROVE Told
      OBVIOUS
    <2>1. Next /\ reported' = tohost_value'
      BY LatchKept DEF SNext, SStore, SKeep, Next, ReportedInv
    <2>2. CASE Iterating /\ EndIteration
      <3>1. CASE tohost_value' = None
        BY <2>1, <2>2, <3>1 DEF Iterating, EndIteration
      <3>2. CASE tohost_value' # None
        BY <2>1, <2>2, <3>2, ReturnIsStored DEF Iterating, EndIteration
      <3> QED BY <3>1, <3>2
    <2>3. CASE Iterating /\ Panicking
      BY <2>3 DEF Iterating, Panicking
    <2>4. CASE Exhausted
      BY <2>4 DEF Exhausted, Iterating
    <2>5. CASE \E max_cycles \in Budgets : Call(max_cycles)
      BY <2>5 DEF Call, Iterating
    <2> QED BY <2>1, <2>2, <2>3, <2>4, <2>5, LoopMoves
  <1> QED BY <1>1, <1>2, <1>3, PTL DEF SSpec, VerdictSound


-----------------------------------------------------------------------------
(* The words and the memory of the instance Ref are those of the hart.     *)

LEMMA SameArithmetic ==
    \A a, b : /\ Ref!wrapping_add(a, b) = wrapping_add(a, b)
              /\ Ref!wrapping_sub(a, b) = wrapping_sub(a, b)
              /\ Ref!SymDiff(a, b) = SymDiff(a, b)
              /\ Ref!LtU32(a, b) = LtU32(a, b)
              /\ Ref!LtI32(a, b) = LtI32(a, b)
  <1>1. \A a, b : Ref!wrapping_add(a, b) = wrapping_add(a, b)
    BY DEF wrapping_add, Ref!wrapping_add, Carries, Ref!Carries, Xor3, Ref!Xor3, Bit, Ref!Bit
  <1>2. \A a, b : Ref!wrapping_sub(a, b) = wrapping_sub(a, b)
    BY DEF wrapping_sub, Ref!wrapping_sub, Borrows, Ref!Borrows, Xor3, Ref!Xor3, Bit, Ref!Bit
  <1>3. \A a, b : Ref!LtU32(a, b) = LtU32(a, b)
    BY DEF LtU32, Ref!LtU32
  <1>4. \A a, b : Ref!LtI32(a, b) = LtI32(a, b)
    BY <1>3 DEF LtI32, Ref!LtI32, Sign, Ref!Sign
  <1>5. \A a, b : Ref!SymDiff(a, b) = SymDiff(a, b)
    BY DEF SymDiff, Ref!SymDiff
  <1> QED BY <1>1, <1>2, <1>3, <1>4, <1>5

LEMMA SameShifts ==
    \A w, n : /\ Ref!Shl(w, n) = Shl(w, n)
              /\ Ref!Shr(w, n) = Shr(w, n)
              /\ Ref!Sar(w, n) = Sar(w, n)
              /\ Ref!SignExtend(w, n) = SignExtend(w, n)
              /\ Ref!Value(w) = Value(w)
              /\ Ref!BoolWord(w) = BoolWord(w)
  <1>1. \A w, n : Ref!Shl(w, n) = Shl(w, n) /\ Ref!Shr(w, n) = Shr(w, n)
    BY DEF Shl, Ref!Shl, Shr, Ref!Shr, Bit, Ref!Bit
  <1>2. \A w, n : Ref!Sar(w, n) = Sar(w, n) /\ Ref!SignExtend(w, n) = SignExtend(w, n)
    BY DEF Sar, Ref!Sar, SignExtend, Ref!SignExtend, Bit, Ref!Bit, Sign, Ref!Sign
  <1>3. \A w : Ref!Value(w) = Value(w)
    BY DEF Value, Ref!Value, SumSet, Ref!SumSet, FoldSet, Ref!FoldSet, MapThenFoldSet,
           Ref!MapThenFoldSet
  <1>4. \A w : Ref!BoolWord(w) = BoolWord(w)
    BY DEF BoolWord, Ref!BoolWord
  <1> QED BY <1>1, <1>2, <1>3, <1>4

LEMMA SameFields ==
    ASSUME NEW ir
    PROVE  /\ \A lo, width : Ref!Field(ir, lo, width) = Field(ir, lo, width)
           /\ Ref!major(ir) = opcode(ir) /\ Ref!f3(ir) = funct3(ir)
           /\ Ref!rdid(ir) = rd(ir) /\ Ref!csrno(ir) = Field(ir, 20, 12)
           /\ Ref!r1(ir) = r_regs[rs1(ir)] /\ Ref!r2(ir) = r_regs[rs2(ir)]
           /\ Ref!is_reg(ir) <=> 5 \in ir
  <1>1. \A lo, width : Ref!Field(ir, lo, width) = Field(ir, lo, width)
    BY DEF Field, Ref!Field
  <1> QED BY <1>1, SameShifts
          DEF Ref!major, Ref!f3, Ref!rdid, Ref!csrno, Ref!r1, Ref!r2, Ref!is_reg,
              opcode, funct3, rd, rs1, rs2

LEMMA SameImmediates ==
    ASSUME NEW ir \in Word
    PROVE  /\ Ref!ref_imm_i(ir) = imm_i(ir) /\ Ref!ref_imm_u(ir) = imm_u(ir)
           /\ Ref!ref_imm_s(ir) = imm_s(ir) /\ Ref!ref_imm_b(ir) = imm_b(ir)
           /\ Ref!ref_imm_j(ir) = imm_j(ir)
  <1>1. Ref!ref_imm_i(ir) = ref_imm_i(ir) /\ Ref!ref_imm_u(ir) = ref_imm_u(ir)
    BY SameShifts DEF ref_imm_i, Ref!ref_imm_i, ref_imm_u, Ref!ref_imm_u, SignedFrom, Ref!SignedFrom
  <1>2. Ref!ref_imm_s(ir) = ref_imm_s(ir)
    BY SameShifts DEF ref_imm_s, Ref!ref_imm_s, SignedFrom, Ref!SignedFrom
  <1>3. Ref!ref_imm_b(ir) = ref_imm_b(ir)
    BY SameShifts DEF ref_imm_b, Ref!ref_imm_b, SignedFrom, Ref!SignedFrom
  <1>4. Ref!ref_imm_j(ir) = ref_imm_j(ir)
    BY SameShifts DEF ref_imm_j, Ref!ref_imm_j, SignedFrom, Ref!SignedFrom
  <1> QED BY <1>1, <1>2, <1>3, <1>4, ImmediatesEqual

LEMMA SameAddresses ==
    \A addr : /\ Ref!InBounds(addr) <=> InBounds(addr)
              /\ Ref!offset(addr) = offset(addr)
              /\ \A n : Ref!Accessible(addr, n) <=> Accessible(addr, n)
  <1>1. Ref!WordOf = WordOf /\ Ref!Index = Index
    BY DEF WordOf, Ref!WordOf, Index, Ref!Index, BitsOf, Ref!BitsOf, Bit, Ref!Bit
  <1>2. \A addr : (Ref!InBounds(addr) <=> InBounds(addr)) /\ Ref!offset(addr) = offset(addr)
    BY <1>1, SameArithmetic DEF InBounds, Ref!InBounds, offset, Ref!offset
  <1> QED BY <1>2 DEF Accessible, Ref!Accessible

LEMMA SameReads ==
    ASSUME image = data
    PROVE  \A addr : /\ Ref!read8(addr) = read8(addr)
                     /\ Ref!read16(addr) = read16(addr)
                     /\ Ref!read32(addr) = read32(addr)
  BY SameAddresses DEF ReadLE, Ref!ReadLE, read8, Ref!read8, read16, Ref!read16, read32, Ref!read32

LEMMA SameWrites ==
    ASSUME image = data, NEW addr, NEW n, NEW val, WriteLE(addr, n, val), Ref!WriteLE(addr, n, val)
    PROVE  data' = image'
  <1>1. Ref!Index = Index
    BY DEF Index, Ref!Index
  <1>2. \A lo : Ref!Field(val, lo, 8) = Field(val, lo, 8)
    BY SameFields
  <1> QED BY <1>1, <1>2, SameAddresses DEF WriteLE, Ref!WriteLE

-----------------------------------------------------------------------------
(* The one case of the switch that an opcode selects                       *)

LEMMA RefGuards ==
    ASSUME NEW ir
    PROVE  /\ Ref!Upper(ir) => Ref!major(ir) \in {55, 23}
           /\ Ref!Jump(ir) => Ref!major(ir) \in {111, 103}
           /\ Ref!Branch(ir) => Ref!major(ir) = 99
           /\ Ref!Load(ir) => Ref!major(ir) = 3
           /\ Ref!Store(ir) => Ref!major(ir) = 35
           /\ Ref!Op(ir) => Ref!major(ir) \in {19, 51}
           /\ Ref!Fence(ir) => Ref!major(ir) = 15
           /\ Ref!Zicsr(ir) => Ref!major(ir) = 115 /\ Ref!f3(ir) # 0
           /\ Ref!Mret(ir) => Ref!major(ir) = 115 /\ Ref!f3(ir) = 0 /\ Ref!IsMret(ir)
           /\ Ref!System(ir) => Ref!major(ir) = 115 /\ Ref!f3(ir) = 0 /\ ~Ref!IsMret(ir)
           /\ Ref!SystemReserved(ir) => Ref!major(ir) = 115 /\ Ref!f3(ir) = 4
           /\ Ref!Atomic(ir) => Ref!major(ir) = 47
           /\ Ref!Unknown(ir) => Ref!major(ir) \notin {55, 23, 111, 103, 99, 3, 35, 19, 51, 15, 115, 47}
  <1>1. Ref!Upper(ir) => Ref!major(ir) \in {55, 23}
    BY DEF Ref!Upper
  <1>2. Ref!Jump(ir) => Ref!major(ir) \in {111, 103}
    BY DEF Ref!Jump
  <1>3. Ref!Branch(ir) => Ref!major(ir) = 99
    BY DEF Ref!Branch
  <1>4. Ref!Load(ir) => Ref!major(ir) = 3
    BY DEF Ref!Load
  <1>5. Ref!Store(ir) => Ref!major(ir) = 35
    BY DEF Ref!Store
  <1>6. Ref!Op(ir) => Ref!major(ir) \in {19, 51}
    BY DEF Ref!Op
  <1>7. Ref!Fence(ir) => Ref!major(ir) = 15
    BY DEF Ref!Fence
  <1>8. Ref!Zicsr(ir) => Ref!major(ir) = 115 /\ Ref!f3(ir) # 0
    BY DEF Ref!Zicsr
  <1>9. Ref!Mret(ir) => Ref!major(ir) = 115 /\ Ref!f3(ir) = 0 /\ Ref!IsMret(ir)
    BY DEF Ref!Mret
  <1>10. Ref!System(ir) => Ref!major(ir) = 115 /\ Ref!f3(ir) = 0 /\ ~Ref!IsMret(ir)
    BY DEF Ref!System
  <1>11. Ref!SystemReserved(ir) => Ref!major(ir) = 115 /\ Ref!f3(ir) = 4
    BY DEF Ref!SystemReserved
  <1>12. Ref!Atomic(ir) => Ref!major(ir) = 47
    BY DEF Ref!Atomic
  <1>13. Ref!Unknown(ir) => Ref!major(ir) \notin {55, 23, 111, 103, 99, 3, 35, 19, 51, 15, 115, 47}
    BY DEF Ref!Unknown
  <1> QED BY <1>1, <1>2, <1>3, <1>4, <1>5, <1>6, <1>7, <1>8, <1>9, <1>10, <1>11, <1>12, <1>13

LEMMA RefSelects ==
    ASSUME NEW ir, Ref!MiniRV32IMAInsn(ir)
    PROVE  /\ opcode(ir) \in {55, 23} => Ref!Upper(ir)
           /\ opcode(ir) \in {111, 103} => Ref!Jump(ir)
           /\ opcode(ir) = 99 => Ref!Branch(ir)
           /\ opcode(ir) = 3 => Ref!Load(ir)
           /\ opcode(ir) = 35 => Ref!Store(ir)
           /\ opcode(ir) \in {19, 51} => Ref!Op(ir)
           /\ opcode(ir) = 15 => Ref!Fence(ir)
           /\ opcode(ir) = 115 /\ funct3(ir) \notin {0, 4} => Ref!Zicsr(ir)
           /\ opcode(ir) = 115 /\ funct3(ir) = 0 /\ Ref!IsMret(ir) => Ref!Mret(ir)
           /\ opcode(ir) = 115 /\ funct3(ir) = 0 /\ ~Ref!IsMret(ir) => Ref!System(ir)
  <1>1. Ref!major(ir) = opcode(ir) /\ Ref!f3(ir) = funct3(ir)
    BY SameFields
  <1> QED BY <1>1, RefGuards DEF Ref!MiniRV32IMAInsn

-----------------------------------------------------------------------------
(* The inductive invariant: while the two agree the reference is awake and *)
(* has a place for each of its CSRs.                                       *)

DiffInv ==
    /\ TypeOK /\ HardwiredState /\ LockstepAgree
    /\ asleep = FALSE
    /\ DOMAIN mcsr = DOMAIN Ref!CsrNo

\* What a pair of steps must re-establish
AgreeNext ==
    /\ regs' = r_regs' /\ pc' = r_pc' /\ data' = image'
    /\ \A f \in PlainCsr : csr_at(csrs', Ref!CsrNo[f]) = mcsr'[f]
    /\ asleep' = FALSE
    /\ DOMAIN mcsr' = DOMAIN Ref!CsrNo

LEMMA SameRegisters ==
    ASSUME DiffInv
    PROVE  \A idx \in RegIdx : read_reg(idx) = r_regs[idx]
  BY DEF DiffInv, HardwiredState, LockstepAgree, read_reg

LEMMA SameWriteBack ==
    ASSUME DiffInv, NEW idx, NEW val, write_reg(idx, val), Ref!WriteBack(idx, val)
    PROVE  regs' = r_regs'
  BY DEF DiffInv, LockstepAgree, write_reg, Ref!WriteBack, x0

\* Registers left alone
LEMMA SameNoWriteBack ==
    ASSUME DiffInv, NEW val, regs' = regs, Ref!WriteBack({}, val)
    PROVE  regs' = r_regs'
  BY DEF DiffInv, LockstepAgree, Ref!WriteBack

LEMMA PlainNames ==
    /\ PlainCsr \subseteq DOMAIN Ref!CsrNo
    /\ \A f \in PlainCsr : f \notin {"mip", "mstatus", "mcause", "mtval"}
  BY DEF PlainCsr, Ref!CsrNo

\* The timer touches no plain CSR.
LEMMA TimedPlain ==
    ASSUME DiffInv
    PROVE  /\ \A f \in PlainCsr : Ref!timed[f] = mcsr[f]
           /\ DOMAIN Ref!timed = DOMAIN Ref!CsrNo
  BY PlainNames DEF DiffInv, Ref!timed

LEMMA SameSystem ==
    ASSUME DiffInv, csrs' = csrs, Ref!KeepSystem
    PROVE  /\ \A f \in PlainCsr : csr_at(csrs', Ref!CsrNo[f]) = mcsr'[f]
           /\ asleep' = FALSE
           /\ DOMAIN mcsr' = DOMAIN Ref!CsrNo
  BY TimedPlain DEF DiffInv, LockstepAgree, read_csr, Ref!KeepSystem

-----------------------------------------------------------------------------
(* The arithmetic of the two *)

LEMMA SameR ==
    ASSUME NEW ir, opcode(ir) = 51, NEW op \in DOMAIN ROp, ROp[op] = <<funct3(ir), funct7(ir)>>,
           NEW v1, NEW v2
    PROVE  /\ Ref!Alu(ir, v1, v2) = RResult(op, v1, v2)
           /\ 25 \notin ir /\ Ref!is_reg(ir)
  <1>1. 5 \in ir /\ Ref!is_reg(ir)
    BY OpcodeBits, SameFields
  <1>2. ROp[op][1] = funct3(ir) /\ ROp[op][2] = funct7(ir)
    OBVIOUS
  <1>3. funct7(ir) \in {0, 32}
    BY <1>2 DEF ROp
  <1>4. 25 \notin ir /\ (30 \in ir <=> funct7(ir) = 32)
    BY <1>3, Funct7Bits
  <1>5. Ref!f3(ir) = funct3(ir) /\ Ref!Value(v2 \cap 0..4) = shamt5(v2)
    BY SameFields, SameShifts DEF shamt5
  <1>6. Ref!AluAdd(ir, v1, v2) = IF funct7(ir) = 32 THEN wrapping_sub(v1, v2)
                                                    ELSE wrapping_add(v1, v2)
    BY <1>1, <1>4, SameArithmetic DEF Ref!AluAdd
  <1>7. Ref!Alu(ir, v1, v2) = RResult(op, v1, v2)
    <2>1. CASE op \in {"Add", "Sub"}
      BY <1>2, <1>5, <1>6, <2>1 DEF Ref!Alu, RResult, ROp
    <2>2. CASE op \in {"Sll", "Srl", "Sra"}
      BY <1>2, <1>4, <1>5, <2>2, SameShifts DEF Ref!Alu, RResult, ROp
    <2>3. CASE op \in {"Slt", "Sltu"}
      BY <1>2, <1>5, <2>3, SameShifts, SameArithmetic DEF Ref!Alu, RResult, ROp
    <2>4. CASE op \in {"Xor", "Or", "And"}
      BY <1>2, <1>5, <2>4, SameArithmetic DEF Ref!Alu, RResult, ROp
    <2> QED BY <2>1, <2>2, <2>3, <2>4 DEF ROp
  <1> QED BY <1>1, <1>4, <1>7

LEMMA SameI ==
    ASSUME NEW ir, opcode(ir) = 19, NEW op \in DOMAIN IOp, IOp[op] = funct3(ir),
           NEW v1, NEW v2
    PROVE  Ref!Alu(ir, v1, v2) = IResult(op, v1, v2)
  <1>1. ~Ref!is_reg(ir) /\ Ref!f3(ir) = funct3(ir)
    BY OpcodeBits, SameFields
  <1>2. Ref!AluAdd(ir, v1, v2) = wrapping_add(v1, v2)
    BY <1>1, SameArithmetic DEF Ref!AluAdd
  <1>3. CASE op = "Addi"
    BY <1>1, <1>2, <1>3 DEF Ref!Alu, IResult, IOp
  <1>4. CASE op \in {"Slti", "Sltiu"}
    BY <1>1, <1>4, SameShifts, SameArithmetic DEF Ref!Alu, IResult, IOp
  <1>5. CASE op \in {"Xori", "Ori", "Andi"}
    BY <1>1, <1>5, SameArithmetic DEF Ref!Alu, IResult, IOp
  <1> QED BY <1>3, <1>4, <1>5 DEF IOp

\* The shift amount is in the same five bits of the word and of its immediate.
LEMMA ShiftAmount ==
    ASSUME NEW ir \in Word
    PROVE  Ref!Value(imm_i(ir) \cap 0..4) = Value(Field(ir, 20, 5))
  <1>1. imm_i(ir) \cap 0..4 = Field(ir, 20, 5)
    BY BitSet DEF imm_i, Sar, Field, Word
  <1> QED BY <1>1, SameShifts

LEMMA SameShift ==
    ASSUME NEW ir \in Word, NEW op \in ShiftOp,
           funct3(ir) = IF op = "Slli" THEN 1 ELSE 5,
           (op = "Srai") = (30 \in ir /\ op # "Slli"), NEW v1
    PROVE  Ref!Alu(ir, v1, imm_i(ir)) = ShiftResult(op, v1, Field(ir, 20, 5))
  <1>1. Ref!f3(ir) = funct3(ir)
    BY SameFields
  <1>2. CASE op = "Slli"
    BY <1>1, <1>2, SameShifts, ShiftAmount DEF Ref!Alu, ShiftResult
  <1>3. CASE op \in {"Srli", "Srai"}
    BY <1>1, <1>3, SameShifts, ShiftAmount DEF Ref!Alu, ShiftResult
  <1> QED BY <1>2, <1>3 DEF ShiftOp

LEMMA SameBranch ==
    ASSUME NEW ir, NEW op \in DOMAIN BrOp, BrOp[op] = funct3(ir)
    PROVE  /\ Ref!f3(ir) \notin {2, 3}
           /\ Ref!Condition(ir) = Taken(op, Ref!r1(ir), Ref!r2(ir))
  <1> DEFINE v1 == Ref!r1(ir)
             v2 == Ref!r2(ir)
  <1>1. Ref!f3(ir) = BrOp[op]
    BY SameFields
  <1>2. /\ Ref!LtI32(v1, v2) = LtI32(v1, v2)
        /\ Ref!LtU32(v1, v2) = LtU32(v1, v2)
    BY SameArithmetic
  <1>3. CASE op = "Beq"
    <2>1. Ref!f3(ir) = 0
      BY <1>1, <1>3 DEF BrOp
    <2>2. Ref!Condition(ir) = (v1 = v2) /\ Taken("Beq", v1, v2) = (v1 = v2)
      BY <2>1 DEF Ref!Condition, Taken
    <2> QED BY <1>3, <2>1, <2>2
  <1>4. CASE op = "Bne"
    <2>1. Ref!f3(ir) = 1
      BY <1>1, <1>4 DEF BrOp
    <2>2. Ref!Condition(ir) = (v1 # v2) /\ Taken("Bne", v1, v2) = (v1 # v2)
      BY <2>1 DEF Ref!Condition, Taken
    <2> QED BY <1>4, <2>1, <2>2
  <1>5. CASE op = "Blt"
    <2>1. Ref!f3(ir) = 4
      BY <1>1, <1>5 DEF BrOp
    <2>2. Ref!Condition(ir) = LtI32(v1, v2) /\ Taken("Blt", v1, v2) = LtI32(v1, v2)
      BY <1>2, <2>1 DEF Ref!Condition, Taken
    <2> QED BY <1>5, <2>1, <2>2
  <1>6. CASE op = "Bge"
    <2>1. Ref!f3(ir) = 5
      BY <1>1, <1>6 DEF BrOp
    <2>2. Ref!Condition(ir) = ~LtI32(v1, v2) /\ Taken("Bge", v1, v2) = ~LtI32(v1, v2)
      BY <1>2, <2>1 DEF Ref!Condition, Taken
    <2> QED BY <1>6, <2>1, <2>2
  <1>7. CASE op = "Bltu"
    <2>1. Ref!f3(ir) = 6
      BY <1>1, <1>7 DEF BrOp
    <2>2. Ref!Condition(ir) = LtU32(v1, v2) /\ Taken("Bltu", v1, v2) = LtU32(v1, v2)
      BY <1>2, <2>1 DEF Ref!Condition, Taken
    <2> QED BY <1>7, <2>1, <2>2
  <1>8. CASE op = "Bgeu"
    <2>1. Ref!f3(ir) = 7
      BY <1>1, <1>8 DEF BrOp
    <2>2. Ref!Condition(ir) = ~LtU32(v1, v2) /\ Taken("Bgeu", v1, v2) = ~LtU32(v1, v2)
      BY <1>2, <2>1 DEF Ref!Condition, Taken
    <2> QED BY <1>8, <2>1, <2>2
  <1> QED BY <1>3, <1>4, <1>5, <1>6, <1>7, <1>8 DEF BrOp

LEMMA SameLoad ==
    ASSUME image = data, NEW ir, NEW op \in DOMAIN LoadOp, LoadOp[op] = funct3(ir), NEW addr
    PROVE  /\ Ref!f3(ir) \notin {3, 6, 7}
           /\ Ref!Loaded(ir, addr) = LoadResult(op, addr)
  <1>1. Ref!f3(ir) = funct3(ir)
    BY SameFields
  <1>2. CASE op \in {"Lb", "Lh"}
    BY <1>1, <1>2, SameReads, SameShifts DEF Ref!Loaded, LoadResult, LoadOp
  <1>3. CASE op \in {"Lw", "Lbu", "Lhu"}
    BY <1>1, <1>3, SameReads DEF Ref!Loaded, LoadResult, LoadOp
  <1> QED BY <1>2, <1>3 DEF LoadOp

LEMMA SameWidth ==
    ASSUME NEW ir, NEW op \in DOMAIN StoreOp, StoreOp[op] = funct3(ir)
    PROVE  Ref!f3(ir) \in 0..2 /\ 2^Ref!f3(ir) = Width(op)
  <1> DEFINE bytes(n) == 2^n
  <1>1. bytes(0) = 1 /\ bytes(1) = 2 /\ bytes(2) = 4
    OBVIOUS
  <1> HIDE DEF bytes
  <1>2. Ref!f3(ir) = StoreOp[op]
    BY SameFields
  <1>3. Width("Sb") = 1 /\ Width("Sh") = 2 /\ Width("Sw") = 4
    BY DEF Width
  <1>4. StoreOp["Sb"] = 0 /\ StoreOp["Sh"] = 1 /\ StoreOp["Sw"] = 2
    BY DEF StoreOp
  <1>5. op \in {"Sb", "Sh", "Sw"}
    BY DEF StoreOp
  <1>6. Ref!f3(ir) \in 0..2 /\ bytes(Ref!f3(ir)) = Width(op)
    BY <1>1, <1>2, <1>3, <1>4, <1>5
  <1> QED BY <1>6 DEF bytes

-----------------------------------------------------------------------------
(* One pair of steps, group by group                                       *)

\* An instruction that writes a register, and perhaps takes the pc along
LEMMA AgreeRetire ==
    ASSUME DiffInv, NEW idx, NEW val, write_reg(idx, val), UNCHANGED <<data, csrs>>,
           NEW target, Ref!Retire(idx, val, target), pc' = target,
           Ref!KeepSystem, UNCHANGED image
    PROVE  AgreeNext
  <1>1. regs' = r_regs' /\ r_pc' = target
    BY SameWriteBack DEF Ref!Retire
  <1>2. data' = image'
    BY DEF DiffInv, LockstepAgree
  <1> QED BY <1>1, <1>2, SameSystem DEF AgreeNext

LEMMA NextTarget ==
    ASSUME DiffInv, ~PcOverflows, NextInsn
    PROVE  pc' = Ref!pc_plus_4 /\ wrapping_add(pc, InsnSize) = Ref!pc_plus_4
  BY SameArithmetic DEF DiffInv, LockstepAgree, NextInsn, GoTo, InsnSize, Ref!pc_plus_4

LEMMA AgreeR ==
    ASSUME DiffInv, ~PcOverflows, NEW ir \in Word, NEW inst, inst = decode(ir),
           R(inst), Ref!Op(ir)
    PROVE  AgreeNext
  <1>1. /\ opcode(ir) = 51 /\ inst.op \in DOMAIN ROp /\ ROp[inst.op] = <<funct3(ir), funct7(ir)>>
        /\ inst.rd = rd(ir) /\ inst.rs1 = rs1(ir) /\ inst.rs2 = rs2(ir)
    BY DecodedR DEF R
  <1>2. /\ read_reg(inst.rs1) = Ref!r1(ir) /\ read_reg(inst.rs2) = Ref!r2(ir)
        /\ Ref!rdid(ir) = inst.rd
    BY <1>1, FieldTypes, SameRegisters, SameFields
  <1> DEFINE val == RResult(inst.op, read_reg(inst.rs1), read_reg(inst.rs2))
  <1>3. /\ Ref!is_reg(ir) /\ 25 \notin ir
        /\ Ref!Alu(ir, Ref!r1(ir), Ref!r2(ir)) = val
    BY <1>1, <1>2, SameR
  <1>4. Ref!Retire(inst.rd, val, Ref!pc_plus_4) /\ Ref!KeepSystem /\ UNCHANGED image
    BY <1>2, <1>3 DEF Ref!Op
  <1>5. write_reg(inst.rd, val) /\ UNCHANGED <<data, csrs>> /\ pc' = Ref!pc_plus_4
    BY NextTarget DEF R
  <1> QED BY <1>4, <1>5, AgreeRetire

LEMMA AgreeI ==
    ASSUME DiffInv, ~PcOverflows, NEW ir \in Word, NEW inst, inst = decode(ir),
           I(inst), Ref!Op(ir)
    PROVE  AgreeNext
  <1>1. /\ opcode(ir) = 19 /\ inst.op \in DOMAIN IOp /\ IOp[inst.op] = funct3(ir)
        /\ inst.rd = rd(ir) /\ inst.rs1 = rs1(ir) /\ inst.imm = imm_i(ir)
    BY DecodedI DEF I
  <1>2. /\ read_reg(inst.rs1) = Ref!r1(ir) /\ Ref!rdid(ir) = inst.rd
        /\ Ref!ref_imm_i(ir) = inst.imm
    BY <1>1, FieldTypes, SameRegisters, SameFields, SameImmediates
  <1> DEFINE val == IResult(inst.op, read_reg(inst.rs1), inst.imm)
  <1>3. ~Ref!is_reg(ir) /\ Ref!Alu(ir, Ref!r1(ir), Ref!ref_imm_i(ir)) = val
    BY <1>1, <1>2, SameI, OpcodeBits, SameFields
  <1>4. Ref!Retire(inst.rd, val, Ref!pc_plus_4) /\ Ref!KeepSystem /\ UNCHANGED image
    BY <1>2, <1>3 DEF Ref!Op
  <1>5. write_reg(inst.rd, val) /\ UNCHANGED <<data, csrs>> /\ pc' = Ref!pc_plus_4
    BY NextTarget DEF I
  <1> QED BY <1>4, <1>5, AgreeRetire

LEMMA AgreeShift ==
    ASSUME DiffInv, ~PcOverflows, NEW ir \in Word, NEW inst, inst = decode(ir),
           (inst.op = "Srai") = (30 \in ir /\ inst.op # "Slli"),
           Shift(inst), Ref!Op(ir)
    PROVE  AgreeNext
  <1>1. /\ opcode(ir) = 19 /\ inst.op \in ShiftOp
        /\ funct3(ir) = IF inst.op = "Slli" THEN 1 ELSE 5
        /\ inst.rd = rd(ir) /\ inst.rs1 = rs1(ir) /\ inst.shamt = Field(ir, 20, 5)
    BY DecodedShift DEF Shift
  <1>2. /\ read_reg(inst.rs1) = Ref!r1(ir) /\ Ref!rdid(ir) = inst.rd
        /\ Ref!ref_imm_i(ir) = imm_i(ir)
    BY <1>1, FieldTypes, SameRegisters, SameFields, SameImmediates
  <1> DEFINE val == ShiftResult(inst.op, read_reg(inst.rs1), inst.shamt)
  <1>3. ~Ref!is_reg(ir) /\ Ref!Alu(ir, Ref!r1(ir), Ref!ref_imm_i(ir)) = val
    BY <1>1, <1>2, SameShift, OpcodeBits, SameFields
  <1>4. Ref!Retire(inst.rd, val, Ref!pc_plus_4) /\ Ref!KeepSystem /\ UNCHANGED image
    BY <1>2, <1>3 DEF Ref!Op
  <1>5. write_reg(inst.rd, val) /\ UNCHANGED <<data, csrs>> /\ pc' = Ref!pc_plus_4
    BY NextTarget DEF Shift
  <1> QED BY <1>4, <1>5, AgreeRetire

LEMMA AgreeLoad ==
    ASSUME DiffInv, ~PcOverflows, NEW ir \in Word, NEW inst, inst = decode(ir),
           Accessible(EffAddr(inst), 4), Load(inst), Ref!Load(ir)
    PROVE  AgreeNext
  <1>1. /\ opcode(ir) = 3 /\ inst.op \in DOMAIN LoadOp /\ LoadOp[inst.op] = funct3(ir)
        /\ inst.rd = rd(ir) /\ inst.rs1 = rs1(ir) /\ inst.imm = imm_i(ir)
    BY DecodedLoad DEF Load
  <1>2. read_reg(inst.rs1) = Ref!r1(ir) /\ Ref!rdid(ir) = inst.rd
    BY <1>1, FieldTypes, SameRegisters, SameFields
  <1> DEFINE addr == EffAddr(inst)
             val == LoadResult(inst.op, addr)
  <1>3. Ref!wrapping_add(Ref!r1(ir), Ref!ref_imm_i(ir)) = addr /\ Ref!Accessible(addr, 4)
    BY <1>1, <1>2, SameImmediates, SameArithmetic, SameAddresses DEF EffAddr
  <1>4. Ref!f3(ir) \notin {3, 6, 7} /\ Ref!Loaded(ir, addr) = val
    BY <1>1, SameLoad DEF DiffInv, LockstepAgree
  <1> HIDE DEF addr, val
  <1>5. Ref!Retire(inst.rd, val, Ref!pc_plus_4) /\ Ref!KeepSystem /\ UNCHANGED image
    BY <1>2, <1>3, <1>4 DEF Ref!Load
  <1>6. write_reg(inst.rd, val) /\ UNCHANGED <<data, csrs>> /\ pc' = Ref!pc_plus_4
    BY NextTarget DEF Load, addr, val
  <1> QED BY <1>5, <1>6, AgreeRetire

\* An instruction that writes no register
LEMMA AgreeNoWrite ==
    ASSUME DiffInv, UNCHANGED <<regs, csrs>>, data' = image',
           NEW target, Ref!Retire({}, {}, target), pc' = target, Ref!KeepSystem
    PROVE  AgreeNext
  <1>1. regs' = r_regs' /\ r_pc' = target
    BY SameNoWriteBack DEF Ref!Retire
  <1> QED BY <1>1, SameSystem DEF AgreeNext

LEMMA AgreeStore ==
    ASSUME DiffInv, ~PcOverflows, NEW ir \in Word, NEW inst, inst = decode(ir),
           Accessible(EffAddr(inst), 4), Store(inst), Ref!Store(ir)
    PROVE  AgreeNext
  <1>1. /\ opcode(ir) = 35 /\ inst.op \in DOMAIN StoreOp /\ StoreOp[inst.op] = funct3(ir)
        /\ inst.rs1 = rs1(ir) /\ inst.rs2 = rs2(ir) /\ inst.imm = imm_s(ir)
    BY DecodedStore DEF Store
  <1>2. read_reg(inst.rs1) = Ref!r1(ir) /\ read_reg(inst.rs2) = Ref!r2(ir)
    BY <1>1, FieldTypes, SameRegisters, SameFields
  <1> DEFINE addr == EffAddr(inst)
             val == read_reg(inst.rs2)
             n == Width(inst.op)
  <1>3. Ref!wrapping_add(Ref!r1(ir), Ref!ref_imm_s(ir)) = addr /\ Ref!Accessible(addr, 4)
    BY <1>1, <1>2, SameImmediates, SameArithmetic, SameAddresses DEF EffAddr
  <1>4. Ref!f3(ir) \in 0..2 /\ 2^Ref!f3(ir) = n
    BY <1>1, SameWidth
  <1>5. WriteLE(addr, n, val) /\ UNCHANGED <<regs, csrs>> /\ pc' = Ref!pc_plus_4
    BY NextTarget DEF Store
  <1> HIDE DEF addr, val, n
  <1>6. /\ Ref!WriteLE(addr, 2^Ref!f3(ir), Ref!r2(ir))
        /\ Ref!Retire({}, {}, Ref!pc_plus_4) /\ Ref!KeepSystem
    BY <1>3, <1>4 DEF Ref!Store
  <1>7. Ref!WriteLE(addr, n, val)
    BY <1>2, <1>4, <1>6 DEF val
  <1>8. data' = image'
    BY <1>5, <1>7, SameWrites DEF DiffInv, LockstepAgree
  <1> QED BY <1>5, <1>6, <1>8, AgreeNoWrite

LEMMA AgreeBranch ==
    ASSUME DiffInv, ~PcOverflows, NEW ir \in Word, NEW inst, inst = decode(ir),
           Branch(inst), Ref!Branch(ir)
    PROVE  AgreeNext
  <1>1. /\ opcode(ir) = 99 /\ inst.op \in DOMAIN BrOp /\ BrOp[inst.op] = funct3(ir)
        /\ inst.rs1 = rs1(ir) /\ inst.rs2 = rs2(ir) /\ inst.imm = imm_b(ir)
    BY DecodedBranch DEF Branch
  <1>2. read_reg(inst.rs1) = Ref!r1(ir) /\ read_reg(inst.rs2) = Ref!r2(ir)
    BY <1>1, FieldTypes, SameRegisters, SameFields
  <1> DEFINE taken == Taken(inst.op, read_reg(inst.rs1), read_reg(inst.rs2))
             target == IF taken THEN wrapping_add(pc, inst.imm) ELSE Ref!pc_plus_4
  <1>3. Ref!f3(ir) \notin {2, 3} /\ Ref!Condition(ir) = taken
    BY <1>1, <1>2, SameBranch
  <1>4. Ref!wrapping_add(r_pc, Ref!ref_imm_b(ir)) = wrapping_add(pc, inst.imm)
    BY <1>1, SameImmediates, SameArithmetic DEF DiffInv, LockstepAgree
  <1>5. UNCHANGED <<data, regs, csrs>> /\ pc' = target
    <2>1. CASE taken
      BY <2>1 DEF Branch, GoTo
    <2>2. CASE ~taken
      BY <2>2, NextTarget DEF Branch
    <2> QED BY <2>1, <2>2
  <1> HIDE DEF taken
  <1>6. Ref!Retire({}, {}, target) /\ Ref!KeepSystem /\ UNCHANGED image
    BY <1>3, <1>4 DEF Ref!Branch
  <1>7. data' = image'
    BY <1>5, <1>6 DEF DiffInv, LockstepAgree
  <1> HIDE DEF target
  <1> QED BY <1>5, <1>6, <1>7, AgreeNoWrite

LEMMA AgreeUpper ==
    ASSUME DiffInv, ~PcOverflows, NEW ir \in Word, NEW inst, inst = decode(ir),
           Upper(inst), Ref!Upper(ir)
    PROVE  AgreeNext
  <1>1. /\ inst.rd = rd(ir) /\ inst.imm = imm_u(ir)
        /\ inst.tag = "Lui" => opcode(ir) = 55
        /\ inst.tag = "Auipc" => opcode(ir) = 23
    BY DecodedUpper DEF Upper
  <1> DEFINE val == IF inst.tag = "Lui" THEN inst.imm ELSE wrapping_add(pc, inst.imm)
  <1>2. /\ Ref!rdid(ir) = inst.rd /\ Ref!ref_imm_u(ir) = inst.imm /\ Ref!major(ir) = opcode(ir)
        /\ Ref!wrapping_add(r_pc, Ref!ref_imm_u(ir)) = wrapping_add(pc, inst.imm)
    BY <1>1, SameFields, SameImmediates, SameArithmetic DEF DiffInv, LockstepAgree
  <1>3. Ref!Retire(inst.rd, val, Ref!pc_plus_4) /\ Ref!KeepSystem /\ UNCHANGED image
    BY <1>1, <1>2 DEF Ref!Upper, Upper
  <1>4. write_reg(inst.rd, val) /\ UNCHANGED <<data, csrs>> /\ pc' = Ref!pc_plus_4
    BY NextTarget DEF Upper
  <1> QED BY <1>3, <1>4, AgreeRetire

LEMMA AgreeJump ==
    ASSUME DiffInv, ~PcOverflows, NEW ir \in Word, NEW inst, inst = decode(ir),
           Jump(inst), Ref!Jump(ir)
    PROVE  AgreeNext
  <1>1. /\ inst.rd = rd(ir)
        /\ inst.tag = "Jal" => opcode(ir) = 111 /\ inst.imm = imm_j(ir)
        /\ inst.tag = "Jalr" => opcode(ir) = 103 /\ inst.rs1 = rs1(ir) /\ inst.imm = imm_i(ir)
    BY DecodedUpper DEF Jump
  <1> DEFINE target == IF inst.tag = "Jal" THEN wrapping_add(pc, inst.imm) ELSE EffAddr(inst) \ {0}
  <1>2. /\ Ref!rdid(ir) = inst.rd /\ Ref!major(ir) = opcode(ir)
        /\ inst.tag = "Jal" => Ref!wrapping_add(r_pc, Ref!ref_imm_j(ir)) = target
        /\ inst.tag = "Jalr" => Ref!wrapping_add(Ref!r1(ir), Ref!ref_imm_i(ir)) \ {0} = target
    <2>1. /\ Ref!ref_imm_j(ir) = imm_j(ir) /\ Ref!ref_imm_i(ir) = imm_i(ir)
          /\ r_pc = pc /\ Ref!r1(ir) = r_regs[rs1(ir)] /\ r_regs[rs1(ir)] = read_reg(rs1(ir))
      BY FieldTypes, SameFields, SameRegisters, SameImmediates DEF DiffInv, LockstepAgree
    <2>2. Ref!rdid(ir) = inst.rd /\ Ref!major(ir) = opcode(ir)
      BY <1>1, SameFields
    <2>3. inst.tag = "Jal" => Ref!wrapping_add(r_pc, Ref!ref_imm_j(ir)) = target
      BY <1>1, <2>1, SameArithmetic
    <2>4. inst.tag = "Jalr" => Ref!wrapping_add(Ref!r1(ir), Ref!ref_imm_i(ir)) \ {0} = target
      BY <1>1, <2>1, SameArithmetic DEF EffAddr
    <2> QED BY <2>2, <2>3, <2>4
  <1>3. Ref!Retire(inst.rd, Ref!pc_plus_4, target) /\ Ref!KeepSystem /\ UNCHANGED image
    BY <1>1, <1>2 DEF Ref!Jump, Jump
  <1>4. wrapping_add(pc, InsnSize) = Ref!pc_plus_4
    BY SameArithmetic DEF DiffInv, LockstepAgree, InsnSize, Ref!pc_plus_4
  <1>5. write_reg(inst.rd, Ref!pc_plus_4) /\ UNCHANGED <<data, csrs>> /\ pc' = target
    BY <1>4 DEF Jump, GoTo
  <1> QED BY <1>3, <1>5, AgreeRetire

LEMMA AgreeFence ==
    ASSUME DiffInv, ~PcOverflows, NEW inst, NEW ir, Skip(inst), Ref!Fence(ir)
    PROVE  AgreeNext
  <1>1. UNCHANGED <<data, regs, csrs>> /\ pc' = Ref!pc_plus_4
    BY NextTarget DEF Skip
  <1>2. Ref!Retire({}, {}, Ref!pc_plus_4) /\ Ref!KeepSystem /\ UNCHANGED image
    BY DEF Ref!Fence
  <1>3. data' = image'
    BY <1>1, <1>2 DEF DiffInv, LockstepAgree
  <1> QED BY <1>1, <1>2, <1>3, AgreeNoWrite

-----------------------------------------------------------------------------
(* CSRs, traps and returns *)

LEMMA CsrNumbers ==
    /\ \A f, g \in DOMAIN Ref!CsrNo : Ref!CsrNo[f] = Ref!CsrNo[g] => f = g
    /\ \A f \in PlainCsr : Ref!CsrNo[f] \notin {MHARTID, MISA, MSTATUS, MCAUSE, MTVAL}
    /\ Ref!CsrNo["mepc"] = MEPC /\ Ref!CsrNo["mtvec"] = MTVEC
    /\ {"mepc", "mtvec"} \subseteq PlainCsr
  <1>1. \A f, g \in DOMAIN Ref!CsrNo : Ref!CsrNo[f] = Ref!CsrNo[g] => f = g
    BY DEF Ref!CsrNo
  <1>2. \A f \in PlainCsr : Ref!CsrNo[f] \notin {MHARTID, MISA, MSTATUS, MCAUSE, MTVAL}
    BY DEF Ref!CsrNo, PlainCsr, MHARTID, MISA, MSTATUS, MCAUSE, MTVAL
  <1>3. /\ Ref!CsrNo["mepc"] = MEPC /\ Ref!CsrNo["mtvec"] = MTVEC
        /\ {"mepc", "mtvec"} \subseteq PlainCsr
    BY DEF Ref!CsrNo, PlainCsr, MEPC, MTVEC
  <1> QED BY <1>1, <1>2, <1>3

LEMMA SameCsrRead ==
    ASSUME DiffInv, NEW f \in PlainCsr
    PROVE  Ref!CsrRead(Ref!CsrNo[f]) = read_csr(Ref!CsrNo[f])
  <1> DEFINE no == Ref!CsrNo[f]
  <1>1. f \in DOMAIN Ref!CsrNo
    BY PlainNames
  <1>2. (CHOOSE g \in DOMAIN Ref!CsrNo : Ref!CsrNo[g] = no) = f
    BY <1>1, CsrNumbers
  <1>3. no \notin {Ref!CYCLE, Ref!MVENDORID, Ref!REFMISA}
    BY DEF PlainCsr, Ref!CsrNo, Ref!CYCLE, Ref!MVENDORID, Ref!REFMISA
  <1>4. Ref!CsrRead(no) = Ref!timed[f]
    BY <1>1, <1>2, <1>3 DEF Ref!CsrRead
  <1> QED BY <1>4, TimedPlain DEF DiffInv, LockstepAgree

LEMMA AgreeCsr ==
    ASSUME DiffInv, ~PcOverflows, NEW ir \in Word, NEW inst, inst = decode(ir),
           NEW f \in PlainCsr, inst.csr = Ref!CsrNo[f], Csr(inst), Ref!Zicsr(ir)
    PROVE  AgreeNext
  <1>1. /\ inst.op \in DOMAIN CsrOp /\ CsrOp[inst.op] = funct3(ir)
        /\ inst.rd = rd(ir) /\ inst.rs1 = rs1(ir) /\ inst.csr = Field(ir, 20, 12)
    BY DecodedCsr DEF Csr
  <1> DEFINE old == read_csr(inst.csr)
             src == IF inst.op \in {"Rw", "Rs", "Rc"} THEN read_reg(inst.rs1) ELSE inst.rs1
             val == CASE inst.op \in {"Rw", "Rwi"} -> src
                      [] inst.op \in {"Rs", "Rsi"} -> old \cup src
                      [] inst.op \in {"Rc", "Rci"} -> old \ src
             rold == Ref!CsrRead(Ref!csrno(ir))
             rsrc == IF Ref!f3(ir) < 4 THEN Ref!r1(ir) ELSE Ref!Field(ir, 15, 5)
             rval == CASE Ref!f3(ir) \in {1, 5} -> rsrc
                       [] Ref!f3(ir) \in {2, 6} -> rold \cup rsrc
                       [] Ref!f3(ir) \in {3, 7} -> rold \ rsrc
  <1>2. /\ read_reg(inst.rs1) = Ref!r1(ir) /\ Ref!rdid(ir) = inst.rd /\ Ref!csrno(ir) = inst.csr
        /\ Ref!f3(ir) = funct3(ir) /\ Ref!Field(ir, 15, 5) = inst.rs1
    BY <1>1, FieldTypes, SameRegisters, SameFields DEF rs1
  <1>3. rold = old
    BY <1>2, SameCsrRead
  <1>4. rsrc = src
    BY <1>1, <1>2 DEF CsrOp
  <1> HIDE DEF old, src, rold, rsrc
  <1>5. rval = val
    BY <1>1, <1>2, <1>3, <1>4 DEF CsrOp
  <1>6. ~WritesCsr(inst) => src = {} /\ val = old
    <2> SUFFICES ASSUME ~WritesCsr(inst) PROVE src = {} /\ val = old
      OBVIOUS
    <2>1. inst.op \in {"Rs", "Rc", "Rsi", "Rci"} /\ inst.rs1 = x0
      BY <1>1 DEF WritesCsr, CsrOp
    <2>2. src = {}
      BY <2>1 DEF src, read_reg, x0
    <2>3. old \cup src = old /\ old \ src = old
      BY <2>2
    <2> QED BY <2>1, <2>2, <2>3
  <1>7. /\ csrs' = IF WritesCsr(inst) THEN write_csr(csrs, inst.csr, val) ELSE csrs
        /\ write_reg(inst.rd, old) /\ UNCHANGED data /\ pc' = Ref!pc_plus_4
    BY NextTarget DEF Csr, old, src
  <1>8. /\ mcsr' = [g \in DOMAIN Ref!CsrNo |-> IF Ref!CsrNo[g] = inst.csr THEN rval ELSE Ref!timed[g]]
        /\ Ref!Retire(inst.rd, old, Ref!pc_plus_4) /\ UNCHANGED <<image, asleep>>
    BY <1>2, <1>3 DEF Ref!Zicsr, rold, rsrc
  <1> HIDE DEF val, rval
  <1>9. \A g \in PlainCsr : csr_at(csrs', Ref!CsrNo[g]) = mcsr'[g]
    <2> SUFFICES ASSUME NEW g \in PlainCsr PROVE csr_at(csrs', Ref!CsrNo[g]) = mcsr'[g]
      OBVIOUS
    <2>1. /\ f \in DOMAIN Ref!CsrNo /\ g \in DOMAIN Ref!CsrNo
          /\ csr_at(csrs, Ref!CsrNo[g]) = Ref!timed[g]
      BY PlainNames, TimedPlain DEF DiffInv, LockstepAgree, read_csr
    <2>2. mcsr'[g] = IF Ref!CsrNo[g] = inst.csr THEN val ELSE csr_at(csrs, Ref!CsrNo[g])
      BY <1>5, <1>8, <2>1
    <2>3. CASE WritesCsr(inst)
      BY <1>7, <2>2, <2>3, CsrAfterWrite, CsrNumbers
    <2>4. CASE ~WritesCsr(inst)
      BY <1>6, <1>7, <2>2, <2>4 DEF old, read_csr
    <2> QED BY <2>3, <2>4
  <1>10. regs' = r_regs' /\ pc' = r_pc' /\ data' = image'
    BY <1>7, <1>8, SameWriteBack DEF Ref!Retire, DiffInv, LockstepAgree
  <1> QED BY <1>8, <1>9, <1>10 DEF AgreeNext, DiffInv

LEMMA AgreeMret ==
    ASSUME DiffInv, NEW inst, NEW ir, Mret(inst), Ref!Mret(ir)
    PROVE  AgreeNext
  <1>1. /\ csrs' = write_csr(csrs, MSTATUS, MretStatus(read_csr(MSTATUS)))
        /\ UNCHANGED <<data, regs>> /\ pc' = read_csr(MEPC)
    BY DEF Mret, GoTo
  <1>2. /\ Ref!Retire({}, {}, mcsr.mepc) /\ UNCHANGED <<image, asleep>>
        /\ DOMAIN mcsr' = DOMAIN Ref!timed
        /\ \A g \in DOMAIN Ref!timed : g # "mstatus" => mcsr'[g] = Ref!timed[g]
    BY DEF Ref!Mret
  <1>3. \A g \in PlainCsr : csr_at(csrs', Ref!CsrNo[g]) = mcsr'[g]
    <2> SUFFICES ASSUME NEW g \in PlainCsr PROVE csr_at(csrs', Ref!CsrNo[g]) = mcsr'[g]
      OBVIOUS
    <2>1. csr_at(csrs', Ref!CsrNo[g]) = csr_at(csrs, Ref!CsrNo[g])
      BY <1>1, CsrNumbers, CsrAfterWrite
    <2>2. csr_at(csrs, Ref!CsrNo[g]) = Ref!timed[g]
      BY TimedPlain DEF DiffInv, LockstepAgree, read_csr
    <2>3. g \in DOMAIN Ref!timed /\ g # "mstatus"
      BY PlainNames, TimedPlain
    <2> QED BY <1>2, <2>1, <2>2, <2>3
  <1>4. pc' = mcsr.mepc
    BY <1>1, CsrNumbers DEF DiffInv, LockstepAgree
  <1>5. regs' = r_regs' /\ pc' = r_pc'
    BY <1>1, <1>2, <1>4, SameNoWriteBack DEF Ref!Retire
  <1>6. data' = image'
    BY <1>1, <1>2 DEF DiffInv, LockstepAgree
  <1> QED BY <1>2, <1>3, <1>5, <1>6, TimedPlain DEF AgreeNext, DiffInv

LEMMA AgreeTrap ==
    ASSUME DiffInv, NEW cause, NEW tval, trap(cause, tval), read_csr(MTVEC) \cap {0, 1} = {},
           NEW rcause, NEW rtval, Ref!Trap(rcause, rtval)
    PROVE  AgreeNext
  <1>1. UNCHANGED <<data, regs>> /\ pc' = read_csr(MTVEC) \ {0, 1}
    BY DEF trap, GoTo
  <1>2. \A a : a \notin {MCAUSE, MTVAL, MSTATUS, MISA, MHARTID} =>
          csr_at(csrs', a) = IF a = MEPC THEN pc ELSE csr_at(csrs, a)
    <2>1. MEPC \notin {MISA, MHARTID}
      BY CsrNumbers
    <2> QED BY <2>1, CsrAfterWrite DEF trap
  <1>3. /\ DOMAIN mcsr' = DOMAIN Ref!timed
        /\ \A g \in DOMAIN Ref!timed : g \notin {"mcause", "mtval", "mstatus"} =>
             mcsr'[g] = IF g = "mepc" THEN r_pc ELSE Ref!timed[g]
        /\ r_pc' = mcsr.mtvec /\ UNCHANGED <<image, r_regs, asleep>>
    BY DEF Ref!Trap
  <1>4. \A g \in PlainCsr : csr_at(csrs', Ref!CsrNo[g]) = mcsr'[g]
    <2> SUFFICES ASSUME NEW g \in PlainCsr PROVE csr_at(csrs', Ref!CsrNo[g]) = mcsr'[g]
      OBVIOUS
    <2>1. /\ Ref!CsrNo[g] \notin {MCAUSE, MTVAL, MSTATUS, MISA, MHARTID}
          /\ Ref!CsrNo[g] = MEPC <=> g = "mepc"
          /\ csr_at(csrs, Ref!CsrNo[g]) = Ref!timed[g]
      BY PlainNames, TimedPlain, CsrNumbers DEF DiffInv, LockstepAgree, read_csr
    <2>2. g \in DOMAIN Ref!timed /\ g \notin {"mcause", "mtval", "mstatus"}
      BY PlainNames, TimedPlain
    <2> QED BY <1>2, <1>3, <2>1, <2>2 DEF DiffInv, LockstepAgree
  <1>5. pc' = r_pc'
    <2>1. read_csr(MTVEC) = mcsr.mtvec
      BY CsrNumbers DEF DiffInv, LockstepAgree
    <2>2. read_csr(MTVEC) \ {0, 1} = read_csr(MTVEC)
      OBVIOUS
    <2> QED BY <1>1, <1>3, <2>1, <2>2
  <1>6. regs' = r_regs' /\ data' = image'
    BY <1>1, <1>3 DEF DiffInv, LockstepAgree
  <1> QED BY <1>3, <1>4, <1>5, <1>6, TimedPlain DEF AgreeNext, DiffInv

-----------------------------------------------------------------------------
(* Every pair of steps *)

LEMMA ExecuteSelects ==
    ASSUME NEW inst, execute(inst)
    PROVE  /\ inst.tag = "R" => R(inst)
           /\ inst.tag = "I" => I(inst)
           /\ inst.tag = "Shift" => Shift(inst)
           /\ inst.tag = "Load" /\ Accessible(EffAddr(inst), Width(inst.op)) => Load(inst)
           /\ inst.tag = "Store" /\ Accessible(EffAddr(inst), Width(inst.op)) => Store(inst)
           /\ inst.tag = "Branch" => Branch(inst)
           /\ inst.tag \in {"Lui", "Auipc"} => Upper(inst)
           /\ inst.tag \in {"Jal", "Jalr"} => Jump(inst)
           /\ inst.tag = "Csr" => Csr(inst)
           /\ inst.tag = "Fence" => Skip(inst)
           /\ inst.tag = "Ecall" => Ecall(inst)
           /\ inst.tag = "Ebreak" => Ebreak(inst)
           /\ inst.tag = "Mret" => Mret(inst)
  <1>1. /\ R(inst) => inst.tag = "R"
        /\ I(inst) => inst.tag = "I"
        /\ Shift(inst) => inst.tag = "Shift"
        /\ Load(inst) => inst.tag = "Load"
        /\ Store(inst) => inst.tag = "Store"
        /\ Branch(inst) => inst.tag = "Branch"
        /\ Upper(inst) => inst.tag \in {"Lui", "Auipc"}
        /\ Jump(inst) => inst.tag \in {"Jal", "Jalr"}
        /\ Csr(inst) => inst.tag = "Csr"
        /\ Skip(inst) => inst.tag \in {"Fence", "Sret", "Wfi", "SfenceVma"}
    BY DEF R, I, Shift, Load, Store, Branch, Upper, Jump, Csr, Skip
  <1>2. /\ LoadPanic(inst) => inst.tag = "Load" /\ ~Accessible(EffAddr(inst), Width(inst.op))
        /\ StorePanic(inst) => inst.tag = "Store" /\ ~Accessible(EffAddr(inst), Width(inst.op))
        /\ Ecall(inst) => inst.tag = "Ecall"
        /\ Ebreak(inst) => inst.tag = "Ebreak"
        /\ Mret(inst) => inst.tag = "Mret"
        /\ DecodePanic(inst) => inst.tag \in {"Panic", "Unreachable"}
    BY DEF LoadPanic, StorePanic, Ecall, Ebreak, Mret, DecodePanic, Panic, Unreachable
  <1> QED BY <1>1, <1>2 DEF execute

\* An access that fits as a word's fits.
LEMMA NarrowAccessible ==
    ASSUME NEW addr, Accessible(addr, 4), NEW n \in {1, 2, 4}
    PROVE  Accessible(addr, n)
  <1>1. offset(addr) \in Index
    BY DEF Accessible, InBounds, offset
  <1> QED BY <1>1, MemoryAssumption DEF Accessible, Index

LEMMA WidthOf ==
    /\ \A op \in DOMAIN LoadOp : Width(op) \in {1, 2, 4}
    /\ \A op \in DOMAIN StoreOp : Width(op) \in {1, 2, 4}
  BY DEF Width, LoadOp, StoreOp

LEMMA AgreeStep ==
    ASSUME DiffInv, ~PcOverflows, NEW ir \in Word, ir = read32(pc), NEW inst, inst = decode(ir),
           SameMeaning(inst), execute(inst), Ref!MiniRV32IMAInsn(ir)
    PROVE  AgreeNext
  <1>1. CASE inst.tag = "R"
    BY <1>1, ExecuteSelects, DecodedBy, RefSelects, AgreeR
  <1>2. CASE inst.tag = "I"
    BY <1>2, ExecuteSelects, DecodedBy, RefSelects, AgreeI
  <1>3. CASE inst.tag = "Shift"
    <2>1. (inst.op = "Srai") = (30 \in ir /\ inst.op # "Slli")
      BY <1>3 DEF SameMeaning
    <2> QED BY <1>3, <2>1, ExecuteSelects, DecodedBy, RefSelects, AgreeShift
  <1>4. CASE inst.tag = "Load"
    <2>1. Accessible(EffAddr(inst), 4)
      BY <1>4 DEF SameMeaning
    <2>2. Width(inst.op) \in {1, 2, 4}
      BY <1>4, DecodedLoad, WidthOf
    <2>3. Load(inst)
      BY <1>4, <2>1, <2>2, NarrowAccessible, ExecuteSelects
    <2> QED BY <1>4, <2>1, <2>3, DecodedBy, RefSelects, AgreeLoad
  <1>5. CASE inst.tag = "Store"
    <2>1. Accessible(EffAddr(inst), 4)
      BY <1>5 DEF SameMeaning
    <2>2. Width(inst.op) \in {1, 2, 4}
      BY <1>5, DecodedStore, WidthOf
    <2>3. Store(inst)
      BY <1>5, <2>1, <2>2, NarrowAccessible, ExecuteSelects
    <2> QED BY <1>5, <2>1, <2>3, DecodedBy, RefSelects, AgreeStore
  <1>6. CASE inst.tag = "Branch"
    BY <1>6, ExecuteSelects, DecodedBy, RefSelects, AgreeBranch
  <1>7. CASE inst.tag \in {"Lui", "Auipc"}
    BY <1>7, ExecuteSelects, DecodedUpper, RefSelects, AgreeUpper
  <1>8. CASE inst.tag \in {"Jal", "Jalr"}
    BY <1>8, ExecuteSelects, DecodedUpper, RefSelects, AgreeJump
  <1>9. CASE inst.tag = "Fence"
    BY <1>9, ExecuteSelects, DecodedBy, RefSelects, AgreeFence
  <1>10. CASE inst.tag = "Csr"
    <2>1. PICK f \in PlainCsr : inst.csr = Ref!CsrNo[f]
      BY <1>10 DEF SameMeaning
    <2> QED BY <1>10, <2>1, ExecuteSelects, DecodedCsr, RefSelects, AgreeCsr
  <1>11. CASE inst.tag = "Mret"
    <2>1. opcode(ir) = 115 /\ funct3(ir) = 0 /\ Ref!IsMret(ir)
      BY <1>11, DecodedSystem, SameFields DEF Ref!IsMret
    <2> QED BY <1>11, <2>1, ExecuteSelects, RefSelects, AgreeMret
  <1>12. CASE inst.tag \in {"Ecall", "Ebreak"}
    <2>1. PICK cause, tval : trap(cause, tval)
      BY <1>12, ExecuteSelects DEF Ecall, Ebreak
    <2>2. read_csr(MTVEC) \cap {0, 1} = {}
      BY <1>12 DEF SameMeaning
    <2>3. /\ opcode(ir) = 115 /\ funct3(ir) = 0 /\ ~Ref!IsMret(ir)
          /\ Ref!csrno(ir) \in {{}, {0}}
      BY <1>12, DecodedSystem, SameFields DEF Ref!IsMret
    <2>4. Ref!System(ir)
      BY <2>3, RefSelects
    <2>5. \/ Ref!Trap(IF priv # {} THEN {0, 1, 3} ELSE {3}, r_pc)
          \/ Ref!Trap({0, 1}, r_pc)
      BY <2>3, <2>4 DEF Ref!System
    <2> QED BY <2>1, <2>2, <2>5, AgreeTrap
  <1> QED BY <1>1, <1>2, <1>3, <1>4, <1>5, <1>6, <1>7, <1>8, <1>9, <1>10, <1>11, <1>12
       DEF SameMeaning

LEMMA LockstepKeeps == DiffInv /\ Lockstep => DiffInv'
  <1> SUFFICES ASSUME DiffInv, Lockstep PROVE DiffInv'
    OBVIOUS
  <1>1. PICK inst \in Fetched : execute(inst)
    BY DEF Lockstep, step
  <1>2. /\ Iterating /\ Accessible(pc, 4) /\ inst = decode(read32(pc)) /\ SameMeaning(inst)
        /\ ~PcOverflows /\ pc \cap {0, 1} = {}
    BY <1>1 DEF Lockstep, Comparable, step, Fetched
  <1>3. read32(pc) \in Word
    BY ReadTyped DEF read32
  <1>4. Ref!InBounds(r_pc) /\ r_pc = pc /\ Ref!read32(r_pc) = read32(pc)
    BY <1>2, SameAddresses, SameReads DEF DiffInv, LockstepAgree, Accessible
  <1>5. Ref!MiniRV32IMAInsn(read32(pc))
    <2>1. Ref!Awake
      BY DEF Lockstep, Ref!MiniRV32IMAStep, Ref!Sleep, DiffInv
    <2>2. ~Ref!FetchFault
      BY <1>2, <1>4 DEF Ref!FetchFault
    <2> QED BY <1>4, <2>1, <2>2 DEF Ref!Awake
  <1>6. AgreeNext
    BY <1>1, <1>2, <1>3, <1>5, AgreeStep
  <1>7. LockstepAgree' /\ asleep' = FALSE /\ DOMAIN mcsr' = DOMAIN Ref!CsrNo
    BY <1>6 DEF AgreeNext, LockstepAgree, read_csr
  <1>8. TypeOK' /\ HardwiredState'
    BY <1>1, <1>2, FetchedTyped, ExecuteTyped, ExecuteHardwired DEF DiffInv
  <1> QED BY <1>7, <1>8 DEF DiffInv, Ref!CsrNo

LEMMA DiffInductive == DiffInv /\ [DiffNext]_diffVars => DiffInv'
  <1>1. ASSUME DiffInv, NEW max_cycles \in Budgets, Call(max_cycles), UNCHANGED refCore
        PROVE  DiffInv'
    <2>1. TypeOK'
      BY <1>1, NextTyped DEF DiffInv, Next
    <2>2. HardwiredState'
      BY <1>1 DEF Call, hartVars, DiffInv, HardwiredState, read_csr
    <2>3. LockstepAgree' /\ asleep' = FALSE /\ DOMAIN mcsr' = DOMAIN mcsr
      BY <1>1 DEF Call, hartVars, refCore, DiffInv, LockstepAgree, read_csr
    <2> QED BY <1>1, <2>1, <2>2, <2>3 DEF DiffInv, Ref!CsrNo
  <1>2. ASSUME DiffInv, UNCHANGED diffVars PROVE DiffInv'
    <2>1. TypeOK'
      BY <1>2, NextTyped DEF DiffInv, diffVars
    <2>2. HardwiredState' /\ LockstepAgree' /\ asleep' = FALSE /\ DOMAIN mcsr' = DOMAIN mcsr
      BY <1>2 DEF diffVars, vars, hartVars, refCore, DiffInv, HardwiredState, LockstepAgree, read_csr
    <2> QED BY <1>2, <2>1, <2>2 DEF DiffInv, Ref!CsrNo
  <1> QED BY <1>1, <1>2, LockstepKeeps DEF DiffNext

LEMMA DiffStarts == DiffInit => DiffInv
  <1> SUFFICES ASSUME DiffInit PROVE DiffInv
    OBVIOUS
  <1>1. TypeOK
    BY InitTyped DEF DiffInit
  <1>2. HardwiredState
    BY DEF DiffInit, Init, new, HardwiredState, read_csr, csr_at, MISA, MHARTID, RegIdx, x0
  <1>3. /\ regs = r_regs /\ pc = r_pc /\ data = image /\ asleep = FALSE
        /\ mcsr = [f \in DOMAIN Ref!CsrNo |-> {}]
    BY DEF DiffInit, Init, new, Ref!InitCore, RegIdx
  <1>4. \A f \in PlainCsr : read_csr(Ref!CsrNo[f]) = {}
    BY CsrNumbers DEF DiffInit, Init, new, read_csr, csr_at
  <1>5. LockstepAgree
    BY <1>3, <1>4, PlainNames DEF LockstepAgree
  <1> QED BY <1>1, <1>2, <1>3, <1>5 DEF DiffInv

\* On every guest, the two agree after every instruction they are meant to
\* execute alike (execute/mod.rs:6-146 against mini-rv32ima.h:171-500): same
\* registers, same pc, same memory and same plain CSRs, so that the next
\* word fetched is the same too, written by the guest itself or not.
THEOREM LockstepCorrect == DiffSpec => []LockstepAgree
  <1>1. DiffInv => LockstepAgree
    BY DEF DiffInv
  <1> QED BY <1>1, DiffStarts, DiffInductive, PTL DEF DiffSpec
=============================================================================
