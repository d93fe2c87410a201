--------------------------------- MODULE VM ---------------------------------
(***************************************************************************)
(* src/riscv-tests/env/v: the supervisor of the virtual-memory test        *)
(* environment.  It gives a user program a demand-paged copy of the test   *)
(* image: a first touch of a page takes a frame from a free list and       *)
(* copies the page into it, later faults turn on the accessed and dirty    *)
(* bits, and the final ecall copies what was changed back and tells the    *)
(* host the verdict.  The handlers run with interrupts off on one hart, so *)
(* a handler is one step, except the loop over the pages at the end.       *)
(*                                                                         *)
(* A page is a number (its address divided by PGSIZE), a physical page     *)
(* counts from DRAM_BASE, and its contents is one value.  The MMU is the   *)
(* part outside the code: it may keep any entry it used in its TLB until   *)
(* that page is flushed, invalid entries too, and where an A or D bit is   *)
(* missing it sets the bit itself or raises a fault, as svadu says.        *)
(***************************************************************************)
EXTENDS Lfsr, FiniteSets

CONSTANTS Values,      \* contents of a page
          ExitCodes,   \* a0 at the ecall
          NoPte,       \* an invalid page table entry, 0
          Uncached,    \* no TLB entry
          Null         \* the null pointer

Page     == 0..MAX_TEST_PAGES               \* the first beyond the limit included
TestPage == 1..(MAX_TEST_PAGES - 1)
Frame    == (MAX_TEST_PAGES + 1)..(2 * MAX_TEST_PAGES)
Pte      == [frame : Frame, a : BOOLEAN, d : BOOLEAN]
Kind     == {"fetch", "load", "store"}

\* The two arrays of freelist_t
Node == {"freelist_nodes", "user_mapping"} \X (0..(MAX_TEST_PAGES - 1))
Mapping(p) == <<"user_mapping", p>>

ASSUME VMAssumption ==
    /\ ExitCodes \subseteq Nat \ {0}   \* RVTEST_PASS and RVTEST_FAIL report odd ones
    /\ NoPte \notin Pte
    /\ Uncached \notin Pte \cup {NoPte}
    /\ Null \notin Node

VARIABLES
    phys,            \* contents of the test pages of the image and of the frames
    user_llpt, tlb,  \* the last-level table, and what the MMU remembers of it
    nodes,           \* freelist_nodes and user_mapping: [addr, next]
    freelist_head, freelist_tail,
    svadu,           \* the MMU sets A and D itself: a property of the hart
    status,          \* "boot", "user", "evicting", then "done" or "aborted"
    access,          \* {} or {the access the program is trying}
    gpr,             \* the register loads go to
    cursor,          \* i of the loop in handle_trap
    code, tohost,    \* a0 of the ecall, and what the host was told
    failed           \* the assertion that failed, or "none"

memVars == <<phys, user_llpt, tlb, svadu>>
listVars == <<nodes, freelist_head, freelist_tail>>
endVars == <<cursor, code, tohost, failed>>
vars == <<memVars, listVars, status, access, gpr, endVars>>

-----------------------------------------------------------------------------
(* vm_boot *)

Init ==
    /\ phys \in [TestPage \cup Frame -> Values] /\ gpr \in Values /\ svadu \in BOOLEAN
    /\ user_llpt = [p \in Page |-> NoPte] /\ tlb = [p \in Page |-> Uncached]
    /\ nodes = [n \in Node |-> [addr |-> 0, next |-> Null]]
    /\ freelist_head = Null /\ freelist_tail = Null
    /\ status = "boot" /\ access = {} /\ cursor = 0 /\ code = 0 /\ tohost = 0 /\ failed = "none"

terminate(n) == tohost' = n /\ access' = {}

\* assert(x): its text is printed, then the host is told 3
Fail(text) ==
    /\ terminate(3) /\ failed' = text /\ status' = "aborted"
    /\ UNCHANGED <<memVars, listVars, gpr, cursor, code>>

Assert(x, text, continuation) == IF x THEN continuation ELSE Fail(text)

\* Mutant: the last node keeps the pointer the loop gave it
NextNode_NoEnd(n) == <<n[1], n[2] + 1>>

NextNode(n) == IF n[2] = MAX_TEST_PAGES - 1 THEN Null ELSE <<n[1], n[2] + 1>>

vm_boot(ENTROPY) ==
    LET walk == Walk(1 + (ENTROPY % MAX_TEST_PAGES))
    IN  /\ status = "boot"
        /\ nodes' = [n \in Node |->
             IF n[1] = "user_mapping" THEN nodes[n]
             ELSE [addr |-> MAX_TEST_PAGES + walk[n[2]], next |-> NextNode(n)]]
        /\ freelist_head' = <<"freelist_nodes", 0>>
        /\ freelist_tail' = <<"freelist_nodes", MAX_TEST_PAGES - 1>>
        /\ status' = "user"
        /\ UNCHANGED <<memVars, access, gpr, endVars>>

\* satp does not read back as written: the hart has no such mode
BootUnsupported == status = "boot" /\ Fail("satp")

-----------------------------------------------------------------------------
(* The program and the MMU *)

User == status = "user"

Translation(p) == IF tlb[p] = Uncached THEN user_llpt[p] ELSE tlb[p]

Permits(pte, kind) == pte # NoPte /\ pte.a /\ (kind = "store" => pte.d)

Accesses == [page : Page, kind : {"store"}, value : Values]
            \cup [page : Page, kind : {"fetch", "load"}]

Issue(acc) ==
    /\ User /\ access = {}
    /\ access' = {acc}
    /\ UNCHANGED <<memVars, listVars, status, gpr, endVars>>

\* The entry an access used may stay in the TLB
MayCache(t, p) == {t, [t EXCEPT ![p] = Translation(p)]}

Complete(acc) ==
    LET pte == Translation(acc.page)
    IN  /\ User /\ Permits(pte, acc.kind)
        /\ IF acc.kind = "store"
           THEN phys' = [phys EXCEPT ![pte.frame] = acc.value] /\ UNCHANGED gpr
           ELSE gpr' = phys[pte.frame] /\ UNCHANGED phys
        /\ access' = {}
        /\ tlb' \in MayCache(tlb, acc.page)
        /\ UNCHANGED <<user_llpt, svadu, listVars, status, endVars>>

HardwareSetsBits(acc) ==
    LET p == acc.page
        pte == user_llpt[p]
    IN  /\ User /\ svadu /\ pte # NoPte
        /\ Translation(p) # NoPte /\ ~Permits(Translation(p), acc.kind)
        /\ user_llpt' = [user_llpt EXCEPT ![p] =
                            [pte EXCEPT !.a = TRUE, !.d = @ \/ acc.kind = "store"]]
        /\ tlb' = [tlb EXCEPT ![p] = Uncached]
        /\ UNCHANGED <<phys, svadu, listVars, status, access, gpr, endVars>>

-----------------------------------------------------------------------------
(* handle_fault.  t is the TLB at the fault. *)

\* Mutant: no sfence.vma
flush_page_Never(t, p) == t

flush_page(t, p) == [t EXCEPT ![p] = Uncached]

Grant(p, pte, t) ==
    /\ user_llpt' = [user_llpt EXCEPT ![p] = pte]
    /\ tlb' = flush_page(t, p)
    /\ UNCHANGED <<phys, svadu, listVars, status, access, gpr, endVars>>

\* Mutant: the first fault sets the dirty bit
GrantBit_Swapped(p, cause, t) ==
    LET pte == user_llpt[p]
    IN  IF ~pte.a
        THEN Grant(p, [pte EXCEPT !.d = TRUE], t)
        ELSE Assert(~pte.d /\ cause = "store", "bits", Grant(p, [pte EXCEPT !.d = TRUE], t))

\* A fault on a mapped page: its A bit is missing, or its D bit at a store
GrantBit(p, cause, t) ==
    LET pte == user_llpt[p]
    IN  IF ~pte.a
        THEN Grant(p, [pte EXCEPT !.a = TRUE], t)
        ELSE Assert(~pte.d /\ cause = "store", "bits", Grant(p, [pte EXCEPT !.d = TRUE], t))

\* The first touch.  The copy goes through an entry with A and D set, which
\* the MMU may keep; the entry that stays has neither.  (The code moves the
\* head before the second assertion; nothing looks at it after a failure.)
MapPage(p, t) ==
    LET node == freelist_head
        new_pte == [frame |-> nodes[node].addr, a |-> FALSE, d |-> FALSE]
        copying == flush_page(t, p)
        copied == {copying, [copying EXCEPT ![p] = [new_pte EXCEPT !.a = TRUE, !.d = TRUE]]}
    IN  Assert(node # Null, "node",
        Assert(nodes[Mapping(p)].addr = 0, "mapping",
            /\ freelist_head' = nodes[node].next
            /\ freelist_tail' = IF freelist_head' = freelist_tail THEN Null ELSE freelist_tail
            /\ nodes' = [nodes EXCEPT ![Mapping(p)] = nodes[node]]
            /\ phys' = [phys EXCEPT ![new_pte.frame] = phys[p]]
            /\ user_llpt' = [user_llpt EXCEPT ![p] = new_pte]
            /\ tlb' \in {flush_page(c, p) : c \in copied}
            /\ UNCHANGED <<svadu, status, access, gpr, endVars>>))

handle_fault(p, cause, t) ==
    Assert(p \in TestPage, "addr",
           IF user_llpt[p] # NoPte THEN GrantBit(p, cause, t) ELSE MapPage(p, t))

PageFault(acc) ==
    /\ User /\ ~Permits(Translation(acc.page), acc.kind)
    /\ svadu => Translation(acc.page) = NoPte
    /\ \E t \in MayCache(tlb, acc.page) : handle_fault(acc.page, acc.kind, t)

-----------------------------------------------------------------------------
(* The other traps.  What medeleg does not name goes to the trap vector of *)
(* entry.S, which is wtf().                                                *)

Medeleg == {"user_ecall", "fetch", "load", "store"}

Verdict(cause, fssr) ==
    IF cause \notin Medeleg THEN 841 ELSE IF cause = "illegal" /\ fssr THEN 1 ELSE 3

Exception(cause, fssr) ==
    /\ User /\ access = {}
    /\ terminate(Verdict(cause, fssr)) /\ status' = "aborted"
    /\ UNCHANGED <<memVars, listVars, gpr, cursor, code, failed>>

Ecall(n) ==
    /\ User /\ access = {}
    /\ status' = "evicting" /\ cursor' = 1 /\ code' = n
    /\ UNCHANGED <<memVars, listVars, access, gpr, tohost, failed>>

\* Mutant: the loop ends one page early
MorePages_Short == cursor < MAX_TEST_PAGES - 1

MorePages == cursor < MAX_TEST_PAGES

\* freelist_tail->next = node, or a list of its own where there is no tail
Release(node) ==
    LET freed == [nodes EXCEPT ![node].addr = 0]
    IN  /\ nodes' = IF freelist_tail = Null THEN freed
                    ELSE [freed EXCEPT ![freelist_tail].next = node]
        /\ freelist_head' = IF freelist_tail = Null THEN node ELSE freelist_head
        /\ freelist_tail' = node

\* Mutant: continue before the counter moves
Skip_Stuck(p) == UNCHANGED <<memVars, listVars, cursor>>

Skip(p) == cursor' = p + 1 /\ UNCHANGED <<memVars, listVars>>

\* Both sides are the same after memcpy; where they were before it is none
evict(p) ==
    LET frame == Translation(p).frame
        differ == phys[frame] # phys[p]
        kept == UNCHANGED <<status, access, gpr, code, tohost, failed>>
    IN  IF nodes[Mapping(p)].addr = 0
        THEN Skip(p) /\ kept
        ELSE Assert(user_llpt[p].a, "A",
             Assert(differ => user_llpt[p].d, "D",
                 /\ phys' = [phys EXCEPT ![p] = phys[frame]]
                 /\ Release(Mapping(p))
                 /\ cursor' = p + 1 /\ kept
                 /\ UNCHANGED <<user_llpt, tlb, svadu>>))

EvictPage == status = "evicting" /\ MorePages /\ evict(cursor)

EcallEnd ==
    /\ status = "evicting" /\ ~MorePages
    /\ terminate(code) /\ status' = "done"
    /\ UNCHANGED <<memVars, listVars, gpr, cursor, code, failed>>

-----------------------------------------------------------------------------
\* What the program chooses to do, and what the hart then does for it
Program ==
    \/ \E acc \in Accesses : Issue(acc)
    \/ \E n \in ExitCodes : Ecall(n)
    \/ \E cause \in {"illegal", "breakpoint"}, fssr \in BOOLEAN : Exception(cause, fssr)

Hart ==
    \/ \E acc \in access : Complete(acc) \/ HardwareSetsBits(acc) \/ PageFault(acc)
    \/ EvictPage
    \/ EcallEnd

Boot == BootUnsupported \/ \E entropy \in 0..(MAX_TEST_PAGES - 1) : vm_boot(entropy)

Next == Boot \/ Program \/ Hart

\* The hart goes on executing; the program need not do anything more
Spec == Init /\ [][Next]_vars /\ WF_vars(Hart)

-----------------------------------------------------------------------------
VMTypeOK ==
    /\ phys \in [TestPage \cup Frame -> Values] /\ gpr \in Values /\ svadu \in BOOLEAN
    /\ user_llpt \in [Page -> Pte \cup {NoPte}]
    /\ tlb \in [Page -> Pte \cup {NoPte, Uncached}]
    /\ nodes \in [Node -> [addr : Frame \cup {0}, next : Node \cup {Null}]]
    /\ {freelist_head, freelist_tail} \subseteq Node \cup {Null}
    /\ status \in {"boot", "user", "evicting", "done", "aborted"}
    /\ access \subseteq Accesses /\ Cardinality(access) <= 1
    /\ cursor \in 0..MAX_TEST_PAGES
    /\ code \in ExitCodes \cup {0} /\ tohost \in ExitCodes \cup {0, 1, 3, 841}
    /\ failed \in {"none", "satp", "addr", "bits", "node", "mapping", "A", "D"}

FreeNodes ==
    LET list[i \in 0..MAX_TEST_PAGES] ==
            IF i = 0 THEN freelist_head
            ELSE IF list[i - 1] = Null THEN Null ELSE nodes[list[i - 1]].next
    IN  {list[i] : i \in 0..MAX_TEST_PAGES} \ {Null}

MappedPages == {p \in TestPage : user_llpt[p] # NoPte}

\* While the program runs every frame has one owner, a node of the free list
\* or a mapped page, and user_mapping tells the frame the page table uses:
\* no two pages share memory and no frame is lost (vm.c:176-198, 316-325).
FramesPartition ==
    status = "user" =>
        /\ \A f \in Frame :
              Cardinality({n \in FreeNodes \cup {Mapping(p) : p \in MappedPages} :
                              nodes[n].addr = f}) = 1
        /\ \A p \in TestPage :
              nodes[Mapping(p)].addr = IF p \in MappedPages THEN user_llpt[p].frame ELSE 0

\* The only assertions that ever fail are those about the hart (satp) and
\* about a program that leaves its pages (addr): a fault always has a reason
\* the handler knows, a node is always left, and at the end an accessed page
\* has A, a changed one D, whichever of software and hardware sets the bits
\* (vm.c:127-137, 162-177, 191).
AssertionsHold == failed \in {"none", "satp", "addr"}

\* What the program sees of its pages, and the host once it has the verdict
View == [p \in TestPage |->
            IF status # "done" /\ p \in MappedPages THEN phys[user_llpt[p].frame] ELSE phys[p]]

Space == INSTANCE AddressSpace WITH
            TestPages <- TestPage, AbortCodes <- {3, 841}, NoVerdict <- 0,
            mem <- View, loaded <- gpr, verdict <- tohost

\* The environment is plain memory to its program, and at an ecall the host
\* finds in the image what the program left (handle_fault, evict).
ImplementsAddressSpace == Space!Spec

\* An access, however many faults it takes, is done in the end or the program
\* is given up (handle_fault, pop_tf).
AccessCompletes == \A acc \in Accesses : access = {acc} ~> access = {}

\* An ecall reaches the host (handle_trap, evict, terminate).
EcallReported == status = "evicting" ~> tohost # 0

\* The comment at vm.c:227: an FP test on non-FP hardware, whose first fssr is
\* an illegal instruction, is told to the host as a success.
FpTestSucceeds == [][Exception("illegal", TRUE) => tohost' = 1]_vars
=============================================================================
