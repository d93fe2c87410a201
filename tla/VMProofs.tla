------------------------------ MODULE VMProofs ------------------------------
(***************************************************************************)
(* The demand paging of env/v for any number of pages: its frames have one *)
(* owner each, its assertions hold, and it implements AddressSpace.  The   *)
(* theorems take FullPeriod for granted, which Functions.cfg checks for    *)
(* the LFSR_BITS of the repository.                                        *)
(***************************************************************************)
EXTENDS VM, NatTheorems

Mapped(p) == user_llpt[p] # NoPte

\* Node i of the free list as vm_boot links it, Null after the last
ListNode(i) == IF i < MAX_TEST_PAGES THEN <<"freelist_nodes", i>> ELSE Null

Index == 0..(MAX_TEST_PAGES - 1)

\* The frame that was handed out as number i
Order(i) == nodes[<<"freelist_nodes", i>>].addr

\* Pages are mapped once each and take nodes from the front of the list
Taken == Cardinality(MappedPages)

-----------------------------------------------------------------------------
(* The invariant, by what each part is about *)

TypeInv ==
    /\ phys \in [TestPage \cup Frame -> Values] /\ gpr \in Values /\ svadu \in BOOLEAN
    /\ user_llpt \in [Page -> Pte \cup {NoPte}]
    /\ tlb \in [Page -> Pte \cup {NoPte, Uncached}]
    /\ nodes \in [Node -> [addr : Frame \cup {0}, next : Node \cup {Null}]]
    /\ freelist_head \in Node \cup {Null} /\ freelist_tail \in Node \cup {Null}
    /\ status \in {"boot", "user", "evicting", "done", "aborted"}
    /\ access = {} \/ \E acc \in Accesses : access = {acc}
    /\ cursor \in 0..MAX_TEST_PAGES
    /\ code \in ExitCodes \cup {0} /\ tohost \in ExitCodes \cup {0, 3, 841}

\* The phases of a run, and what each of them leaves alone
PhaseInv ==
    /\ tohost = 0 <=> status \in {"boot", "user", "evicting"}
    /\ status = "boot" => access = {} /\ MappedPages = {}
    /\ status = "evicting" => access = {} /\ code \in ExitCodes /\ cursor \in 1..MAX_TEST_PAGES
    /\ status = "done" => cursor = MAX_TEST_PAGES
    /\ failed \in {"none", "satp", "addr"}

\* The handler flushes whatever it changes: the TLB never disagrees with the
\* table, and only test pages are in it.
TableInv ==
    /\ \A p \in Page : tlb[p] \in {Uncached, user_llpt[p]}
    /\ \A p \in Page \ TestPage : ~Mapped(p)

\* The list is what vm_boot made it, less the nodes that were taken: those
\* hand out every frame in order, one to each mapped page.
ListInv ==
    status = "user" =>
        /\ freelist_head = ListNode(Taken)
        /\ \A i \in Index : nodes[<<"freelist_nodes", i>>].next = ListNode(i + 1)
        /\ \A i, j \in Index : Order(i) = Order(j) => i = j
        /\ Frame = {Order(i) : i \in Index}
        /\ {user_llpt[p].frame : p \in MappedPages} = {Order(i) : i \in 0..(Taken - 1)}
        /\ \A p, q \in MappedPages : user_llpt[p].frame = user_llpt[q].frame => p = q

\* user_mapping has the frame of each page that is still to be copied back.
MappingInv ==
    status \in {"boot", "user", "evicting"} =>
        \A p \in TestPage :
            nodes[Mapping(p)].addr =
                IF p \in MappedPages /\ ~(status = "evicting" /\ p < cursor)
                THEN user_llpt[p].frame ELSE 0

\* What a page table entry says of its page: A is missing only as long as
\* the first access is on its way, D only as long as the frame has what the
\* image has; and a page passed by the loop is back in the image.
PageInv ==
    \A p \in MappedPages :
        /\ status \in {"user", "evicting"} =>
              /\ user_llpt[p].a \/ \E acc \in access : acc.page = p
              /\ user_llpt[p].d \/ phys[user_llpt[p].frame] = phys[p]
        /\ status \in {"evicting", "done"} /\ p < cursor => phys[user_llpt[p].frame] = phys[p]

IInv == TypeInv /\ PhaseInv /\ TableInv /\ ListInv /\ MappingInv /\ PageInv

-----------------------------------------------------------------------------
(* Pages, frames and nodes *)

LEMMA Numbers ==
    /\ MAX_TEST_PAGES \in Nat \ {0}
    /\ TestPage \subseteq Page /\ TestPage \cap Frame = {}
    /\ \A f \in Frame : f \in Nat \ {0}
    /\ \A p \in TestPage : p \in Index /\ Mapping(p) \in Node
    /\ \A i \in Index : <<"freelist_nodes", i>> \in Node
    /\ \A i \in Index, p \in TestPage : Mapping(p) # <<"freelist_nodes", i>>
    /\ \A p, q \in TestPage : Mapping(p) = Mapping(q) => p = q
  <1>1. MAX_TEST_PAGES \in Nat \ {0}
    <2> DEFINE before == LFSR_BITS - 1
    <2>1. before \in Nat /\ LFSR_BITS = before + 1
      BY LfsrAssumption
    <2> HIDE DEF before
    <2>2. 2^before \in Nat \ {0} /\ 2^(before + 1) = 2 * 2^before
      BY <2>1, PowerStep
    <2> QED BY <2>1, <2>2 DEF MAX_TEST_PAGES
  <1> QED BY <1>1 DEF TestPage, Page, Frame, Index, Node, Mapping

LEMMA TestPagesFinite ==
    IsFiniteSet(TestPage) /\ Cardinality(TestPage) = MAX_TEST_PAGES - 1
  BY Numbers, FS_Interval DEF TestPage

\* The shift register meets no number twice, as it meets all of them in as
\* many steps.
LEMMA WalkInjective ==
    ASSUME FullPeriod, NEW random \in 1..MAX_TEST_PAGES, NEW i \in Index, NEW j \in Index,
           Walk(random)[i] = Walk(random)[j]
    PROVE  i = j
  <1> DEFINE walk == [k \in Index |-> Walk(random)[k]]
  <1>1. walk \in Surjection(Index, 1..MAX_TEST_PAGES)
    BY DEF FullPeriod, MeetsEveryNumber, Surjection, Index
  <1>2. /\ IsFiniteSet(Index) /\ Cardinality(Index) = MAX_TEST_PAGES
        /\ Cardinality(1..MAX_TEST_PAGES) = MAX_TEST_PAGES
    BY Numbers, FS_Interval DEF Index
  <1>3. walk \in Injection(Index, 1..MAX_TEST_PAGES)
    BY <1>1, <1>2, FS_SurjSameCardinalityImpliesInj, FS_Interval, Numbers, Zenon
  <1> QED BY <1>3 DEF Injection, IsInjective

\* The number of mapped pages, which a new page adds one to and which leaves
\* a node for it.
LEMMA TakenBounds ==
    /\ IsFiniteSet(MappedPages)
    /\ Taken \in 0..(MAX_TEST_PAGES - 1)
    /\ \A p \in TestPage \ MappedPages :
          /\ Taken < MAX_TEST_PAGES - 1
          /\ Cardinality(MappedPages \cup {p}) = Taken + 1
  <1>1. MappedPages \in SUBSET TestPage
    BY DEF MappedPages
  <1>2. /\ IsFiniteSet(MappedPages) /\ Taken \in Nat /\ Taken <= MAX_TEST_PAGES - 1
        /\ Taken = MAX_TEST_PAGES - 1 => MappedPages = TestPage
    BY <1>1, TestPagesFinite, FS_Subset, FS_CardinalityType DEF Taken
  <1>3. ASSUME NEW p \in TestPage \ MappedPages
        PROVE  Cardinality(MappedPages \cup {p}) = Taken + 1
    BY <1>2, FS_AddElement DEF Taken
  <1> QED BY <1>2, <1>3, Numbers

\* Whatever the MMU remembers, it translates as the table does.
LEMMA Coherent ==
    ASSUME TypeInv, TableInv, NEW p \in Page
    PROVE  Translation(p) = user_llpt[p]
  BY VMAssumption DEF TypeInv, TableInv, Translation

LEMMA OneAccess ==
    ASSUME TypeInv, NEW acc \in access
    PROVE  /\ access = {acc} /\ acc \in Accesses
           /\ acc.page \in Page /\ acc.kind \in {"fetch", "load", "store"}
           /\ acc.kind = "store" => acc.value \in Values
  <1>1. access = {acc} /\ acc \in Accesses
    BY DEF TypeInv
  <1> QED BY <1>1 DEF Accesses

LEMMA MappedPte ==
    ASSUME TypeInv, TableInv, NEW p \in Page, Mapped(p)
    PROVE  /\ p \in TestPage /\ p \in MappedPages /\ user_llpt[p] \in Pte
           /\ user_llpt[p].frame \in Frame /\ user_llpt[p].a \in BOOLEAN
           /\ user_llpt[p].d \in BOOLEAN
  <1>1. p \in TestPage /\ p \in MappedPages /\ user_llpt[p] \in Pte
    BY DEF TypeInv, TableInv, Mapped, MappedPages
  <1> QED BY <1>1 DEF Pte

-----------------------------------------------------------------------------
(* Each action keeps the invariant *)

LEMMA InitInv == Init => IInv
  <1> SUFFICES ASSUME Init PROVE IInv
    OBVIOUS
  <1> USE DEF Init
  <1>1. MappedPages = {}
    BY Numbers DEF MappedPages
  <1>2. TypeInv
    BY Numbers DEF TypeInv, Page
  <1>3. PhaseInv /\ TableInv /\ ListInv /\ MappingInv /\ PageInv
    BY <1>1, Numbers DEF PhaseInv, TableInv, ListInv, MappingInv, PageInv, Mapped
  <1> QED BY <1>2, <1>3 DEF IInv

\* The list part looks at the nodes and at which frame each page has.
LEMMA ListKept ==
    ASSUME ListInv, status' = "user" => status = "user",
           UNCHANGED <<nodes, freelist_head, MappedPages>>,
           \A p \in MappedPages : user_llpt'[p].frame = user_llpt[p].frame
    PROVE  ListInv'
  <1> SUFFICES ASSUME status' = "user" PROVE ListInv'
    BY DEF ListInv
  <1>1. Taken' = Taken /\ \A i : Order(i)' = Order(i)
    BY DEF Taken, Order
  <1>2. {Order(i)' : i \in Index} = {Order(i) : i \in Index}
    BY <1>1
  <1>3. {Order(i)' : i \in 0..(Taken' - 1)} = {Order(i) : i \in 0..(Taken - 1)}
    BY <1>1
  <1>4. {user_llpt'[p].frame : p \in MappedPages'} = {user_llpt[p].frame : p \in MappedPages}
    OBVIOUS
  <1> QED BY <1>1, <1>2, <1>3, <1>4 DEF ListInv

LEMMA StutterInv == ASSUME IInv, UNCHANGED vars PROVE IInv'
  <1> USE DEF vars, memVars, listVars, endVars, MappedPages
  <1>1. TypeInv' /\ PhaseInv' /\ TableInv' /\ MappingInv' /\ PageInv'
    BY DEF IInv, TypeInv, PhaseInv, TableInv, MappingInv, PageInv, Mapped
  <1>2. ListInv'
    BY ListKept DEF IInv
  <1> QED BY <1>1, <1>2 DEF IInv

\* The program is given up: nothing is said of its pages any more.
LEMMA GiveUpInv ==
    ASSUME IInv, status \in {"boot", "user", "evicting"},
           status' = "aborted", tohost' \in {3, 841}, access' = {},
           failed' \in {"none", "satp", "addr"},
           UNCHANGED <<memVars, listVars, gpr, cursor, code>>
    PROVE  IInv'
  <1> USE DEF IInv, memVars, listVars
  <1>1. TypeInv'
    BY DEF TypeInv
  <1>2. PhaseInv'
    BY VMAssumption DEF PhaseInv, MappedPages
  <1>3. TableInv'
    BY DEF TableInv, Mapped
  <1>4. ListInv' /\ MappingInv' /\ PageInv'
    BY DEF ListInv, MappingInv, PageInv
  <1> QED BY <1>1, <1>2, <1>3, <1>4

LEMMA FailInv ==
    ASSUME IInv, status \in {"boot", "user", "evicting"}, NEW text \in {"satp", "addr"}, Fail(text)
    PROVE  IInv'
  BY GiveUpInv DEF Fail, terminate

LEMMA BootInv ==
    ASSUME FullPeriod, IInv, NEW entropy \in 0..(MAX_TEST_PAGES - 1), vm_boot(entropy)
    PROVE  IInv'
  <1> DEFINE random == 1 + (entropy % MAX_TEST_PAGES)
  <1>1. random \in 1..MAX_TEST_PAGES
    BY Numbers
  <1> HIDE DEF random
  <1>2. /\ UNCHANGED <<memVars, access, gpr, endVars>>
        /\ status = "boot" /\ status' = "user"
        /\ freelist_head' = <<"freelist_nodes", 0>>
        /\ freelist_tail' = <<"freelist_nodes", MAX_TEST_PAGES - 1>>
    BY DEF vm_boot
  <1>3. /\ \A i \in Index : nodes'[<<"freelist_nodes", i>>] =
                [addr |-> MAX_TEST_PAGES + Walk(random)[i], next |-> ListNode(i + 1)]
        /\ \A p \in TestPage : nodes'[Mapping(p)] = nodes[Mapping(p)]
        /\ DOMAIN nodes' = Node
    <2>1. nodes' = [n \in Node |->
             IF n[1] = "user_mapping" THEN nodes[n]
             ELSE [addr |-> MAX_TEST_PAGES + Walk(random)[n[2]], next |-> NextNode(n)]]
      BY DEF vm_boot, random
    <2>2. \A i \in Index : NextNode(<<"freelist_nodes", i>>) = ListNode(i + 1)
      BY Numbers DEF NextNode, ListNode, Index
    <2> QED BY <2>1, <2>2, Numbers DEF Mapping
  <1>4. MappedPages = {} /\ MappedPages' = {} /\ Taken' = 0
    <2>1. MappedPages = {} /\ MappedPages' = {}
      BY <1>2 DEF IInv, PhaseInv, MappedPages, memVars
    <2> QED BY <2>1, FS_EmptySet DEF Taken
  <1>5. 1..MAX_TEST_PAGES = {Walk(random)[i] : i \in Index}
    BY <1>1 DEF FullPeriod, MeetsEveryNumber, Index
  <1>6. \A i \in Index : Walk(random)[i] \in 1..MAX_TEST_PAGES
    BY <1>5
  <1>7. \A i \in Index : Order(i)' = MAX_TEST_PAGES + Walk(random)[i]
    <2> TAKE i \in Index
    <2>1. nodes'[<<"freelist_nodes", i>>] =
              [addr |-> MAX_TEST_PAGES + Walk(random)[i], next |-> ListNode(i + 1)]
      BY <1>3
    <2> QED BY <2>1 DEF Order
  <1>8. TypeInv'
    <2>1. nodes' \in [Node -> [addr : Frame \cup {0}, next : Node \cup {Null}]]
      <3>1. ASSUME NEW n \in Node PROVE nodes'[n] \in [addr : Frame \cup {0}, next : Node \cup {Null}]
        <4>1. n[1] = "user_mapping" => nodes'[n] = nodes[n]
          BY DEF vm_boot
        <4>2. n[1] # "user_mapping" => \E i \in Index : n = <<"freelist_nodes", i>>
          BY DEF Node, Index
        <4>3. ASSUME NEW i \in Index, n = <<"freelist_nodes", i>>
              PROVE  nodes'[n] \in [addr : Frame \cup {0}, next : Node \cup {Null}]
          <5>1. MAX_TEST_PAGES + Walk(random)[i] \in Frame
            BY <1>6, Numbers DEF Frame
          <5>2. ListNode(i + 1) \in Node \cup {Null}
            BY Numbers DEF ListNode, Node, Index
          <5>3. nodes'[n] = [addr |-> MAX_TEST_PAGES + Walk(random)[i], next |-> ListNode(i + 1)]
            BY <1>3, <4>3
          <5> QED BY <5>1, <5>2, <5>3
        <4> QED BY <4>1, <4>2, <4>3 DEF IInv, TypeInv
      <3>2. nodes' = [n \in Node |-> nodes'[n]]
        BY DEF vm_boot
      <3> QED BY <3>1, <3>2
    <2>2. freelist_head' \in Node /\ freelist_tail' \in Node
      BY <1>2, Numbers DEF Node
    <2> QED BY <1>2, <2>1, <2>2 DEF IInv, TypeInv, memVars, endVars
  <1>9. PhaseInv' /\ TableInv'
    BY <1>2 DEF IInv, PhaseInv, TableInv, memVars, endVars, Mapped
  <1>10. ListInv'
    <2>1. freelist_head' = ListNode(0)
      BY <1>2, Numbers DEF ListNode
    <2>2. \A i, j \in Index : Order(i)' = Order(j)' => i = j
      BY <1>1, <1>6, <1>7, WalkInjective, Numbers
    <2>3. Frame = {Order(i)' : i \in Index}
      <3>1. ASSUME NEW i \in Index PROVE Order(i)' \in Frame
        BY <1>6, <1>7, Numbers DEF Frame
      <3>2. ASSUME NEW f \in Frame PROVE \E i \in Index : f = Order(i)'
        <4>1. f - MAX_TEST_PAGES \in 1..MAX_TEST_PAGES
          BY Numbers DEF Frame
        <4>2. PICK i \in Index : f - MAX_TEST_PAGES = Walk(random)[i]
          BY <1>5, <4>1
        <4>3. f = MAX_TEST_PAGES + Walk(random)[i]
          BY <4>1, <4>2, Numbers DEF Frame
        <4> QED BY <1>7, <4>3
      <3> QED BY <3>1, <3>2
    <2>4. \A i \in Index : nodes'[<<"freelist_nodes", i>>].next = ListNode(i + 1)
      <3> TAKE i \in Index
      <3>1. nodes'[<<"freelist_nodes", i>>] =
                [addr |-> MAX_TEST_PAGES + Walk(random)[i], next |-> ListNode(i + 1)]
        BY <1>3
      <3> QED BY <3>1
    <2>5. {user_llpt'[p].frame : p \in MappedPages'} = {Order(i)' : i \in 0..(Taken' - 1)}
      BY <1>4
    <2> QED BY <1>4, <2>1, <2>2, <2>3, <2>4, <2>5 DEF ListInv, ListNode
  <1>11. MappingInv' /\ PageInv'
    BY <1>2, <1>3, <1>4 DEF IInv, MappingInv, PageInv, memVars
  <1> QED BY <1>8, <1>9, <1>10, <1>11 DEF IInv

\* An access that is issued, or a program that ends or is given up.
LEMMA ProgramInv == ASSUME IInv, Program PROVE IInv'
  <1> USE DEF User, memVars, listVars, endVars
  <1>1. ASSUME NEW acc \in Accesses, Issue(acc) PROVE IInv'
    <2> USE <1>1 DEF Issue
    <2>1. TypeInv' /\ PhaseInv' /\ TableInv' /\ MappingInv' /\ PageInv'
      BY DEF IInv, TypeInv, PhaseInv, TableInv, MappingInv, PageInv, Mapped, MappedPages
    <2>2. ListInv'
      BY ListKept DEF IInv, MappedPages
    <2> QED BY <2>1, <2>2 DEF IInv
  <1>2. ASSUME NEW n \in ExitCodes, Ecall(n) PROVE IInv'
    <2> USE <1>2 DEF Ecall
    <2>1. TypeInv'
      BY Numbers DEF IInv, TypeInv
    <2>2. PhaseInv' /\ TableInv'
      BY Numbers DEF IInv, PhaseInv, TableInv, Mapped
    <2>3. MappedPages' = MappedPages /\ \A p \in MappedPages : ~(p < cursor')
      BY DEF MappedPages, TestPage
    <2>4. MappingInv'
      BY <2>3 DEF IInv, MappingInv
    <2>5. PageInv'
      BY <2>3 DEF IInv, PageInv
    <2>6. ListInv'
      BY DEF ListInv
    <2> QED BY <2>1, <2>2, <2>4, <2>5, <2>6 DEF IInv
  <1>3. ASSUME NEW cause \in {"illegal", "breakpoint"}, NEW fssr \in BOOLEAN,
               Exception(cause, fssr)
        PROVE  IInv'
    <2>1. Verdict(cause, fssr) = 841
      BY <1>3 DEF Verdict, Medeleg
    <2> QED BY <1>3, <2>1, GiveUpInv DEF Exception, terminate, IInv, PhaseInv
  <1> QED BY <1>1, <1>2, <1>3 DEF Program

\* What the hart does for an access that the entry permits
LEMMA CompleteInv == ASSUME IInv, NEW acc \in access, Complete(acc) PROVE IInv'
  <1> DEFINE p == acc.page
  <1>1. /\ status = "user" /\ Permits(user_llpt[p], acc.kind)
        /\ acc.kind = "store" => phys' = [phys EXCEPT ![user_llpt[p].frame] = acc.value] /\ gpr' = gpr
        /\ acc.kind # "store" => gpr' = phys[user_llpt[p].frame] /\ phys' = phys
        /\ access' = {} /\ tlb' \in MayCache(tlb, p)
        /\ UNCHANGED <<user_llpt, svadu, listVars, status, endVars>>
    BY OneAccess, Coherent DEF Complete, User, IInv
  <1>2. /\ p \in TestPage /\ p \in MappedPages /\ user_llpt[p].frame \in Frame
        /\ user_llpt[p].a /\ (acc.kind = "store" => user_llpt[p].d)
    BY <1>1, OneAccess, MappedPte DEF Permits, IInv, Mapped
  <1>3. MappedPages' = MappedPages
    BY <1>1 DEF MappedPages
  <1>4. phys' \in [TestPage \cup Frame -> Values] /\ gpr' \in Values
    BY <1>1, <1>2, OneAccess DEF IInv, TypeInv
  <1>5. tlb' \in [Page -> Pte \cup {NoPte, Uncached}]
    BY <1>1, OneAccess, Coherent DEF IInv, TypeInv, MayCache
  <1>6. TypeInv'
    BY <1>1, <1>4, <1>5 DEF IInv, TypeInv, listVars, endVars
  <1>7. TableInv'
    BY <1>1, OneAccess, Coherent DEF IInv, TableInv, TypeInv, MayCache, Mapped
  <1>8. PhaseInv'
    BY <1>1 DEF IInv, PhaseInv, endVars
  <1>9. ListInv' /\ MappingInv'
    BY <1>1, <1>3, ListKept DEF IInv, MappingInv, listVars, endVars
  <1>10. PageInv'
    <2>1. ASSUME NEW q \in MappedPages
          PROVE  /\ user_llpt[q].a \/ \E acc2 \in access' : acc2.page = q
                 /\ user_llpt[q].d \/ phys'[user_llpt[q].frame] = phys'[q]
      <3>1. CASE q = p /\ acc.kind = "store"
        BY <1>2, <3>1
      <3>2. CASE q # p /\ acc.kind = "store"
        <4>1. user_llpt[q].frame # user_llpt[p].frame
          BY <1>1, <1>2, <3>2 DEF IInv, ListInv
        <4>2. q # user_llpt[p].frame
          BY <1>2, Numbers DEF MappedPages
        <4>3. phys'[user_llpt[q].frame] = phys[user_llpt[q].frame] /\ phys'[q] = phys[q]
          <5>1. q \in TestPage /\ user_llpt[q].frame \in Frame
            BY MappedPte, Numbers DEF IInv, MappedPages, Mapped
          <5> QED BY <1>1, <3>2, <4>1, <4>2, <5>1 DEF IInv, TypeInv
        <4> QED BY <1>1, <3>2, <4>3, OneAccess DEF IInv, PageInv
      <3>3. CASE acc.kind # "store"
        BY <1>1, <1>2, <3>3, OneAccess DEF IInv, PageInv
      <3> QED BY <3>1, <3>2, <3>3
    <2> QED BY <1>1, <1>3, <2>1 DEF PageInv
  <1> QED BY <1>6, <1>7, <1>8, <1>9, <1>10 DEF IInv

LEMMA PteBits ==
    ASSUME NEW pte \in Pte, NEW b \in BOOLEAN
    PROVE  /\ [pte EXCEPT !.a = TRUE] \in Pte /\ [pte EXCEPT !.d = TRUE] \in Pte
           /\ [pte EXCEPT !.a = TRUE].frame = pte.frame
           /\ [pte EXCEPT !.a = TRUE].a
           /\ [pte EXCEPT !.a = TRUE].d = pte.d
           /\ [pte EXCEPT !.d = TRUE].frame = pte.frame
           /\ [pte EXCEPT !.d = TRUE].a = pte.a
           /\ [pte EXCEPT !.d = TRUE].d
           /\ [pte EXCEPT !.a = TRUE, !.d = @ \/ b] \in Pte
           /\ [pte EXCEPT !.a = TRUE, !.d = @ \/ b].frame = pte.frame
           /\ [pte EXCEPT !.a = TRUE, !.d = @ \/ b].a
           /\ pte.d => [pte EXCEPT !.a = TRUE, !.d = @ \/ b].d
  BY DEF Pte

LEMMA FlushPage ==
    ASSUME TypeInv, NEW p \in Page, NEW t \in MayCache(tlb, p)
    PROVE  flush_page(t, p) = [tlb EXCEPT ![p] = Uncached]
  <1>1. CASE t = tlb
    BY <1>1 DEF flush_page
  <1>2. CASE t = [tlb EXCEPT ![p] = Translation(p)]
    BY <1>2 DEF flush_page, TypeInv
  <1> QED BY <1>1, <1>2 DEF MayCache

\* A bit of a mapped page's entry is set, by the hart or by the handler, and
\* the page is flushed.
SetsBits(p, pte) ==
    /\ status = "user" /\ p \in TestPage /\ Mapped(p)
    /\ pte \in Pte /\ pte.frame = user_llpt[p].frame
    /\ user_llpt[p].a => pte.a
    /\ user_llpt[p].d => pte.d
    /\ user_llpt' = [user_llpt EXCEPT ![p] = pte]
    /\ tlb' = [tlb EXCEPT ![p] = Uncached]
    /\ UNCHANGED <<phys, svadu, listVars, status, access, gpr, endVars>>

LEMMA SetBitInv == ASSUME IInv, NEW p, NEW pte, SetsBits(p, pte) PROVE IInv'
  <1> USE DEF SetsBits, listVars, endVars
  <1>1. /\ p \in Page /\ user_llpt'[p] = pte /\ pte # NoPte
        /\ \A q \in Page \ {p} : user_llpt'[q] = user_llpt[q]
        /\ \A q \in Page \ {p} : tlb'[q] = tlb[q]
        /\ tlb'[p] = Uncached
    BY Numbers, VMAssumption DEF IInv, TypeInv
  <1>2. MappedPages' = MappedPages /\ p \in MappedPages
    BY <1>1, Numbers DEF MappedPages, Mapped
  <1>3. \A q \in MappedPages : /\ user_llpt'[q].frame = user_llpt[q].frame
                               /\ user_llpt[q].a => user_llpt'[q].a
                               /\ user_llpt[q].d => user_llpt'[q].d
    BY <1>1, Numbers DEF MappedPages
  <1>4. TypeInv'
    <2>1. user_llpt' \in [Page -> Pte \cup {NoPte}] /\ tlb' \in [Page -> Pte \cup {NoPte, Uncached}]
      BY <1>1 DEF IInv, TypeInv
    <2> QED BY <2>1 DEF IInv, TypeInv
  <1>5. TableInv' /\ PhaseInv'
    BY <1>1, <1>2 DEF IInv, TableInv, PhaseInv, Mapped
  <1>6. ListInv'
    BY <1>2, <1>3, ListKept DEF IInv
  <1>7. MappingInv'
    BY <1>2, <1>3 DEF IInv, MappingInv
  <1>8. PageInv'
    BY <1>2, <1>3 DEF IInv, PageInv
  <1> QED BY <1>4, <1>5, <1>6, <1>7, <1>8 DEF IInv

LEMMA HardwareSets ==
    ASSUME IInv, NEW acc \in access, HardwareSetsBits(acc)
    PROVE  \E pte : SetsBits(acc.page, pte)
  <1> DEFINE p == acc.page
             pte == [user_llpt[p] EXCEPT !.a = TRUE, !.d = @ \/ acc.kind = "store"]
  <1>1. /\ p \in TestPage /\ Mapped(p) /\ user_llpt[p] \in Pte
        /\ user_llpt[p].d \in BOOLEAN
    BY OneAccess, MappedPte DEF HardwareSetsBits, Mapped, IInv
  <1>2. pte \in Pte /\ pte.frame = user_llpt[p].frame /\ pte.a /\ (user_llpt[p].d => pte.d)
    <2>1. CASE acc.kind = "store"
      BY <1>1, <2>1 DEF Pte
    <2>2. CASE acc.kind # "store"
      BY <1>1, <2>2 DEF Pte
    <2> QED BY <2>1, <2>2
  <1>3. /\ status = "user" /\ user_llpt' = [user_llpt EXCEPT ![p] = pte]
        /\ tlb' = [tlb EXCEPT ![p] = Uncached]
        /\ UNCHANGED <<phys, svadu, listVars, status, access, gpr, endVars>>
    BY DEF HardwareSetsBits, User
  <1> HIDE DEF pte
  <1> QED BY <1>1, <1>2, <1>3 DEF SetsBits

\* A fault on a mapped page has a reason that GrantBit knows.
LEMMA GrantSets ==
    ASSUME IInv, NEW acc \in access, status = "user", Mapped(acc.page),
           ~Permits(user_llpt[acc.page], acc.kind),
           NEW t \in MayCache(tlb, acc.page), GrantBit(acc.page, acc.kind, t)
    PROVE  \E pte : SetsBits(acc.page, pte)
  <1> DEFINE p == acc.page
             pte == user_llpt[p]
  <1>1. /\ p \in TestPage /\ p \in Page /\ pte \in Pte /\ pte # NoPte
        /\ pte.a \in BOOLEAN /\ pte.d \in BOOLEAN
    BY OneAccess, MappedPte DEF Mapped, IInv
  <1>2. flush_page(t, p) = [tlb EXCEPT ![p] = Uncached]
    BY <1>1, FlushPage DEF IInv
  <1>3. CASE ~pte.a
    <2>1. Grant(p, [pte EXCEPT !.a = TRUE], t)
      BY <1>3 DEF GrantBit
    <2> QED BY <1>1, <1>2, <2>1, PteBits DEF Grant, SetsBits, Mapped
  <1>4. CASE pte.a
    <2>1. ~pte.d /\ acc.kind = "store"
      BY <1>1, <1>4 DEF Permits
    <2>2. Grant(p, [pte EXCEPT !.d = TRUE], t)
      BY <1>4, <2>1 DEF GrantBit, Assert
    <2>3. /\ [pte EXCEPT !.d = TRUE] \in Pte /\ [pte EXCEPT !.d = TRUE].frame = pte.frame
          /\ [pte EXCEPT !.d = TRUE].a /\ [pte EXCEPT !.d = TRUE].d
      BY <1>1, <1>4, PteBits
    <2> QED BY <1>1, <1>2, <2>2, <2>3 DEF Grant, SetsBits, Mapped
  <1> QED BY <1>1, <1>3, <1>4

\* The first touch of a page takes the first node that is left, whose frame
\* no other page has, and there is always one.
TakesFrame(p) ==
    LET k == Taken
        pte == [frame |-> Order(k), a |-> FALSE, d |-> FALSE]
    IN  /\ \E acc \in access : acc.page = p
        /\ p \in TestPage /\ p \notin MappedPages /\ k \in Index /\ k + 1 \in Index
        /\ Cardinality(MappedPages \cup {p}) = k + 1
        /\ freelist_head \in Node /\ freelist_head = <<"freelist_nodes", k>>
        /\ Order(k) \in Frame
        /\ freelist_head' = ListNode(k + 1)
        /\ freelist_tail' \in {Null, freelist_tail}
        /\ nodes' = [nodes EXCEPT ![Mapping(p)] = nodes[freelist_head]]
        /\ phys' = [phys EXCEPT ![Order(k)] = phys[p]]
        /\ user_llpt' = [user_llpt EXCEPT ![p] = pte]
        /\ tlb' = [tlb EXCEPT ![p] = Uncached]
        /\ UNCHANGED <<svadu, status, access, gpr, endVars>>

LEMMA MapTakes ==
    ASSUME IInv, NEW acc \in access, status = "user", acc.page \in TestPage, ~Mapped(acc.page),
           NEW t \in MayCache(tlb, acc.page), MapPage(acc.page, t)
    PROVE  TakesFrame(acc.page)
  <1> DEFINE p == acc.page
             k == Taken
             pte == [frame |-> Order(k), a |-> FALSE, d |-> FALSE]
  <1>1. /\ p \in Page /\ p \notin MappedPages /\ k \in Index /\ k + 1 \in Index
        /\ Cardinality(MappedPages \cup {p}) = k + 1
    BY TakenBounds, Numbers DEF MappedPages, Mapped, Index
  <1>2. /\ freelist_head = <<"freelist_nodes", k>> /\ freelist_head \in Node
        /\ freelist_head # Null
        /\ nodes[freelist_head].addr = Order(k) /\ nodes[freelist_head].next = ListNode(k + 1)
        /\ Order(k) \in Frame
    <2>1. k < MAX_TEST_PAGES /\ <<"freelist_nodes", k>> \in Node /\ Null \notin Node
      BY <1>1, Numbers, VMAssumption DEF Index
    <2>2. freelist_head = <<"freelist_nodes", k>>
      BY <2>1 DEF IInv, ListInv, ListNode
    <2>3. nodes[<<"freelist_nodes", k>>].next = ListNode(k + 1)
      BY <1>1 DEF IInv, ListInv
    <2>4. Order(k) \in Frame
      BY <1>1 DEF IInv, ListInv
    <2> QED BY <2>1, <2>2, <2>3, <2>4 DEF Order
  <1>3. nodes[Mapping(p)].addr = 0
    BY <1>1 DEF IInv, MappingInv
  <1>4. /\ freelist_head' = ListNode(k + 1)
        /\ freelist_tail' \in {Null, freelist_tail}
        /\ nodes' = [nodes EXCEPT ![Mapping(p)] = nodes[freelist_head]]
        /\ phys' = [phys EXCEPT ![Order(k)] = phys[p]]
        /\ user_llpt' = [user_llpt EXCEPT ![p] = pte]
        /\ UNCHANGED <<svadu, status, access, gpr, endVars>>
    BY <1>2, <1>3 DEF MapPage, Assert
  <1>5. tlb' = [tlb EXCEPT ![p] = Uncached]
    <2> DEFINE entry == [pte EXCEPT !.a = TRUE, !.d = TRUE]
    <2>1. tlb' \in {flush_page(c, p) :
                       c \in {flush_page(t, p), [flush_page(t, p) EXCEPT ![p] = entry]}}
      BY <1>2, <1>3 DEF MapPage, Assert, Order
    <2> HIDE DEF entry
    <2>2. flush_page(t, p) = [tlb EXCEPT ![p] = Uncached]
      BY <1>1, FlushPage DEF IInv
    <2>3. flush_page([tlb EXCEPT ![p] = Uncached], p) = [tlb EXCEPT ![p] = Uncached]
      BY <1>1 DEF flush_page, IInv, TypeInv
    <2>4. flush_page([[tlb EXCEPT ![p] = Uncached] EXCEPT ![p] = entry], p)
            = [tlb EXCEPT ![p] = Uncached]
      BY <1>1 DEF flush_page, IInv, TypeInv
    <2> HIDE DEF p
    <2>5. \A c : c \in {flush_page(t, p), [flush_page(t, p) EXCEPT ![p] = entry]} =>
                 flush_page(c, p) = [tlb EXCEPT ![p] = Uncached]
      BY <2>2, <2>3, <2>4
    <2> QED BY <2>1, <2>5
  <1> QED BY <1>1, <1>2, <1>4, <1>5 DEF TakesFrame

LEMMA MapInv == ASSUME IInv, status = "user", NEW p, TakesFrame(p) PROVE IInv'
  <1> DEFINE k == Taken
             pte == [frame |-> Order(k), a |-> FALSE, d |-> FALSE]
  <1>1. /\ p \in TestPage /\ p \in Page /\ p \notin MappedPages /\ k \in Index /\ k + 1 \in Index
        /\ Cardinality(MappedPages \cup {p}) = k + 1
    BY Numbers DEF TakesFrame
  <1>2. /\ freelist_head = <<"freelist_nodes", k>> /\ freelist_head \in Node
        /\ nodes[freelist_head].addr = Order(k) /\ Order(k) \in Frame
    BY DEF TakesFrame, Order
  <1>3. PICK acc \in access : acc.page = p
    BY DEF TakesFrame
  <1>4. /\ freelist_head' = ListNode(k + 1)
        /\ freelist_tail' \in {Null, freelist_tail}
        /\ nodes' = [nodes EXCEPT ![Mapping(p)] = nodes[freelist_head]]
        /\ phys' = [phys EXCEPT ![Order(k)] = phys[p]]
        /\ user_llpt' = [user_llpt EXCEPT ![p] = pte]
        /\ UNCHANGED <<svadu, status, access, gpr, endVars>>
    BY DEF TakesFrame
  <1>5. tlb' = [tlb EXCEPT ![p] = Uncached]
    BY DEF TakesFrame
  <1>6. /\ user_llpt'[p] = pte /\ pte \in Pte /\ pte # NoPte
        /\ \A q \in Page \ {p} : user_llpt'[q] = user_llpt[q] /\ tlb'[q] = tlb[q]
        /\ tlb'[p] = Uncached
    <2>1. pte \in Pte
      BY <1>2 DEF Pte
    <2> HIDE DEF pte
    <2> QED BY <1>1, <1>4, <1>5, <2>1, VMAssumption DEF IInv, TypeInv
  <1>7. MappedPages' = MappedPages \cup {p} /\ Taken' = k + 1
    <2>1. MappedPages' = MappedPages \cup {p}
      BY <1>1, <1>6, Numbers DEF MappedPages
    <2> QED BY <1>1, <2>1 DEF Taken
  <1>8. /\ \A i \in Index : nodes'[<<"freelist_nodes", i>>] = nodes[<<"freelist_nodes", i>>]
        /\ nodes'[Mapping(p)] = nodes[freelist_head]
        /\ \A q \in TestPage \ {p} : nodes'[Mapping(q)] = nodes[Mapping(q)]
    BY <1>1, <1>4, Numbers DEF IInv, TypeInv
  <1>9. /\ \A f \in Frame \ {Order(k)} : phys'[f] = phys[f]
        /\ phys'[Order(k)] = phys[p]
        /\ \A q \in TestPage : phys'[q] = phys[q]
    BY <1>2, <1>4, Numbers DEF IInv, TypeInv
  <1>10. \A q \in MappedPages : /\ user_llpt'[q] = user_llpt[q] /\ q # p /\ q \in TestPage
                                /\ user_llpt[q].frame \in Frame
                                /\ user_llpt[q].frame # Order(k)
    <2> TAKE q \in MappedPages
    <2>1. q # p /\ q \in TestPage /\ user_llpt[q].frame \in Frame /\ user_llpt'[q] = user_llpt[q]
      BY <1>1, <1>6, MappedPte, Numbers DEF IInv, MappedPages, Mapped
    <2>2. PICK i \in 0..(k - 1) : user_llpt[q].frame = Order(i)
      BY DEF IInv, ListInv
    <2>3. i \in Index /\ i # k
      BY <1>1, <2>2, Numbers DEF Index
    <2> QED BY <1>1, <2>1, <2>2, <2>3 DEF IInv, ListInv
  <1>11. TypeInv'
    <2>1. user_llpt' \in [Page -> Pte \cup {NoPte}] /\ tlb' \in [Page -> Pte \cup {NoPte, Uncached}]
      BY <1>1, <1>4, <1>5, <1>6 DEF IInv, TypeInv
    <2>2. nodes' \in [Node -> [addr : Frame \cup {0}, next : Node \cup {Null}]]
      BY <1>1, <1>2, <1>4, Numbers DEF IInv, TypeInv
    <2>3. phys' \in [TestPage \cup Frame -> Values]
      BY <1>1, <1>2, <1>4 DEF IInv, TypeInv
    <2>4. freelist_head' \in Node \cup {Null} /\ freelist_tail' \in Node \cup {Null}
      BY <1>1, <1>4, Numbers DEF IInv, TypeInv, ListNode
    <2> QED BY <1>4, <2>1, <2>2, <2>3, <2>4 DEF IInv, TypeInv, endVars
  <1>12. PhaseInv' /\ TableInv'
    BY <1>1, <1>4, <1>6, <1>7, Numbers DEF IInv, PhaseInv, TableInv, Mapped, endVars
  <1>13. ListInv'
    <2>1. \A i \in Index : Order(i)' = Order(i)
      BY <1>8 DEF Order
    <2>2. Frame = {Order(i)' : i \in Index}
      <3>1. {Order(i)' : i \in Index} = {Order(i) : i \in Index}
        BY <2>1
      <3> QED BY <3>1 DEF IInv, ListInv
    <2>3. {user_llpt'[q].frame : q \in MappedPages'} = {user_llpt[q].frame : q \in MappedPages} \cup {Order(k)}
      BY <1>6, <1>7, <1>10
    <2>4. {Order(i)' : i \in 0..(Taken' - 1)} = {Order(i) : i \in 0..(k - 1)} \cup {Order(k)}
      <3>1. Taken' - 1 = k /\ 0..k = 0..(k - 1) \cup {k} /\ 0..k \subseteq Index
        BY <1>1, <1>7, Numbers DEF Index
      <3>2. {Order(i)' : i \in 0..k} = {Order(i) : i \in 0..k}
        BY <2>1, <3>1
      <3> HIDE DEF k
      <3>3. {Order(i) : i \in 0..k} = {Order(i) : i \in 0..(k - 1)} \cup {Order(k)}
        BY <3>1
      <3> QED BY <3>1, <3>2, <3>3
    <2>5. \A q, r \in MappedPages' : user_llpt'[q].frame = user_llpt'[r].frame => q = r
      <3> TAKE q, r \in MappedPages'
      <3>1. \A o \in MappedPages : user_llpt'[o].frame # user_llpt'[p].frame
        BY <1>6, <1>10
      <3>2. \A o1, o2 \in MappedPages : user_llpt'[o1].frame = user_llpt'[o2].frame => o1 = o2
        BY <1>10 DEF IInv, ListInv
      <3> QED BY <1>7, <3>1, <3>2
    <2>6. \A i \in Index : nodes'[<<"freelist_nodes", i>>].next = ListNode(i + 1)
      BY <1>8 DEF IInv, ListInv
    <2>7. {user_llpt'[q].frame : q \in MappedPages'} = {Order(i)' : i \in 0..(Taken' - 1)}
      BY <2>3, <2>4 DEF IInv, ListInv
    <2>8. \A i, j \in Index : Order(i)' = Order(j)' => i = j
      BY <2>1 DEF IInv, ListInv
    <2> QED BY <1>4, <1>7, <2>2, <2>5, <2>6, <2>7, <2>8 DEF ListInv
  <1>14. MappingInv'
    BY <1>2, <1>4, <1>6, <1>7, <1>8, <1>10 DEF IInv, MappingInv
  <1>15. PageInv'
    <2>1. /\ user_llpt'[p].d \/ phys'[user_llpt'[p].frame] = phys'[p]
          /\ \E acc2 \in access' : acc2.page = p
      BY <1>1, <1>3, <1>4, <1>6, <1>9
    <2>2. \A q \in MappedPages : /\ user_llpt'[q] = user_llpt[q] /\ phys'[q] = phys[q]
                                 /\ phys'[user_llpt[q].frame] = phys[user_llpt[q].frame]
      BY <1>9, <1>10
    <2>3. status' = "user" /\ access' = access
      BY <1>4
    <2> QED BY <1>7, <2>1, <2>2, <2>3 DEF IInv, PageInv
  <1> QED BY <1>11, <1>12, <1>13, <1>14, <1>15 DEF IInv

LEMMA FaultInv == ASSUME IInv, NEW acc \in access, PageFault(acc) PROVE IInv'
  <1> DEFINE p == acc.page
  <1>1. /\ status = "user" /\ p \in Page /\ ~Permits(user_llpt[p], acc.kind)
    BY OneAccess, Coherent DEF PageFault, User, IInv
  <1>2. PICK t \in MayCache(tlb, p) : handle_fault(p, acc.kind, t)
    BY DEF PageFault
  <1>3. CASE p \notin TestPage
    BY <1>1, <1>2, <1>3, FailInv DEF handle_fault, Assert
  <1>4. CASE p \in TestPage /\ Mapped(p)
    BY <1>1, <1>2, <1>4, GrantSets, SetBitInv DEF handle_fault, Assert, Mapped
  <1>5. CASE p \in TestPage /\ ~Mapped(p)
    BY <1>1, <1>2, <1>5, MapTakes, MapInv DEF handle_fault, Assert, Mapped
  <1> QED BY <1>3, <1>4, <1>5

\* A round of the loop over the pages: an unmapped page is passed, a mapped
\* one copied back, and neither assertion about its bits fails.
LEMMA EvictInv == ASSUME IInv, EvictPage PROVE IInv'
  <1> DEFINE p == cursor
  <1>1. /\ status = "evicting" /\ p < MAX_TEST_PAGES /\ p \in TestPage /\ p \in Page
        /\ access = {} /\ evict(p) /\ Translation(p) = user_llpt[p]
        /\ p + 1 \in 1..MAX_TEST_PAGES
    BY Numbers, Coherent DEF EvictPage, MorePages, IInv, PhaseInv, TestPage
  <1>2. \A q \in MappedPages : /\ user_llpt[q].frame \in Frame /\ q \in TestPage
                               /\ user_llpt[q].frame # p /\ user_llpt[q].a
                               /\ user_llpt[q].d \/ phys[user_llpt[q].frame] = phys[q]
    BY <1>1, MappedPte, Numbers DEF IInv, PageInv, MappedPages, Mapped
  <1>3. \A q \in TestPage \ {p} : q < p + 1 <=> q < p
    BY <1>1, Numbers DEF TestPage
  <1>4. CASE p \notin MappedPages
    <2>1. nodes[Mapping(p)].addr = 0
      BY <1>1, <1>4 DEF IInv, MappingInv
    <2>2. /\ cursor' = p + 1 /\ UNCHANGED <<memVars, listVars>>
          /\ UNCHANGED <<status, access, gpr, code, tohost, failed>>
      BY <1>1, <2>1 DEF evict, Skip
    <2>3. MappedPages' = MappedPages
      BY <2>2 DEF MappedPages, memVars
    <2>4. TypeInv'
      BY <1>1, <2>2 DEF IInv, TypeInv, memVars, listVars
    <2>5. PhaseInv' /\ TableInv' /\ ListInv'
      BY <1>1, <2>2 DEF IInv, PhaseInv, TableInv, ListInv, Mapped, memVars
    <2>6. MappingInv'
      <3>1. nodes' = nodes /\ user_llpt' = user_llpt
        BY <2>2 DEF memVars, listVars
      <3>2. \A q \in MappedPages : q # p
        BY <1>4
      <3> QED BY <1>1, <1>3, <1>4, <2>2, <2>3, <3>1, <3>2 DEF IInv, MappingInv
    <2>7. PageInv'
      <3>1. \A q \in MappedPages : q < cursor' => q < cursor
        BY <1>2, <1>3, <1>4, <2>2
      <3> QED BY <1>1, <2>2, <2>3, <3>1 DEF IInv, PageInv, memVars
    <2> QED BY <2>4, <2>5, <2>6, <2>7 DEF IInv
  <1>5. CASE p \in MappedPages
    <2> DEFINE frame == user_llpt[p].frame
    <2>1. nodes[Mapping(p)].addr = frame /\ frame # 0 /\ frame \in Frame
      <3>1. ~(p < cursor)
        BY <1>1 DEF TestPage
      <3> QED BY <1>1, <1>2, <1>5, <3>1, Numbers DEF IInv, MappingInv
    <2>2. /\ phys' = [phys EXCEPT ![p] = phys[frame]] /\ Release(Mapping(p))
          /\ cursor' = p + 1 /\ UNCHANGED <<status, access, gpr, code, tohost, failed>>
          /\ UNCHANGED <<user_llpt, tlb, svadu>>
      BY <1>1, <1>2, <1>5, <2>1 DEF evict, Assert
    <2>3. /\ nodes' \in [Node -> [addr : Frame \cup {0}, next : Node \cup {Null}]]
          /\ freelist_head' \in Node \cup {Null} /\ freelist_tail' \in Node \cup {Null}
          /\ nodes'[Mapping(p)].addr = 0
          /\ \A q \in TestPage \ {p} : nodes'[Mapping(q)].addr = nodes[Mapping(q)].addr
      <3> DEFINE freed == [nodes EXCEPT ![Mapping(p)].addr = 0]
      <3>1. Mapping(p) \in Node /\ \A q \in TestPage \ {p} : Mapping(q) \in Node /\ Mapping(q) # Mapping(p)
        BY <1>1, Numbers
      <3>2. /\ freed \in [Node -> [addr : Frame \cup {0}, next : Node \cup {Null}]]
            /\ freed[Mapping(p)].addr = 0
            /\ \A n \in Node \ {Mapping(p)} : freed[n].addr = nodes[n].addr
        BY <3>1 DEF IInv, TypeInv
      <3>3. freelist_head \in Node \cup {Null} /\ freelist_tail \in Node \cup {Null}
        BY DEF IInv, TypeInv
      <3>4. /\ nodes' \in {freed, [freed EXCEPT ![freelist_tail].next = Mapping(p)]}
            /\ nodes' # freed => freelist_tail \in Node
            /\ freelist_head' \in {Mapping(p), freelist_head} /\ freelist_tail' = Mapping(p)
        BY <2>2, <3>3 DEF Release
      <3> HIDE DEF freed
      <3>5. /\ nodes' \in [Node -> [addr : Frame \cup {0}, next : Node \cup {Null}]]
            /\ \A n \in Node : nodes'[n].addr = freed[n].addr
        BY <3>1, <3>2, <3>4
      <3> QED BY <3>1, <3>2, <3>3, <3>4, <3>5
    <2>4. MappedPages' = MappedPages
      BY <2>2 DEF MappedPages
    <2>5. TypeInv'
      <3>1. phys' \in [TestPage \cup Frame -> Values]
        BY <1>1, <2>1, <2>2 DEF IInv, TypeInv
      <3> QED BY <1>1, <2>2, <2>3, <3>1 DEF IInv, TypeInv
    <2>6. PhaseInv' /\ TableInv' /\ ListInv'
      BY <1>1, <2>2, <2>4 DEF IInv, PhaseInv, TableInv, ListInv, Mapped
    <2>7. MappingInv'
      <3>1. p < cursor'
        BY <1>1, <2>2 DEF TestPage
      <3> QED BY <1>1, <1>3, <2>2, <2>3, <2>4, <3>1 DEF IInv, MappingInv
    <2>8. PageInv'
      <3>1. \A q \in MappedPages : phys'[user_llpt[q].frame] = phys[user_llpt[q].frame]
        BY <1>2, <2>2 DEF IInv, TypeInv
      <3>2. phys'[p] = phys[frame] /\ \A q \in TestPage \ {p} : phys'[q] = phys[q]
        BY <1>1, <2>2 DEF IInv, TypeInv
      <3>3. \A q \in MappedPages : q < cursor' /\ q # p => q < cursor
        BY <1>2, <1>3, <2>2
      <3> QED BY <1>1, <1>2, <2>2, <2>4, <3>1, <3>2, <3>3 DEF IInv, PageInv
    <2> QED BY <2>5, <2>6, <2>7, <2>8 DEF IInv
  <1> QED BY <1>4, <1>5

LEMMA EndInv == ASSUME IInv, EcallEnd PROVE IInv'
  <1>1. /\ status = "evicting" /\ cursor = MAX_TEST_PAGES /\ status' = "done"
        /\ tohost' = code /\ code \in ExitCodes /\ code # 0 /\ access' = {}
        /\ UNCHANGED <<memVars, listVars, gpr, cursor, code, failed>>
    BY VMAssumption, Numbers DEF EcallEnd, MorePages, terminate, IInv, PhaseInv
  <1>2. TypeInv'
    BY <1>1 DEF IInv, TypeInv, memVars, listVars
  <1>3. PhaseInv' /\ TableInv' /\ ListInv' /\ MappingInv'
    BY <1>1 DEF IInv, PhaseInv, TableInv, ListInv, MappingInv, Mapped, memVars
  <1>4. PageInv'
    BY <1>1 DEF IInv, PageInv, MappedPages, memVars
  <1> QED BY <1>2, <1>3, <1>4 DEF IInv

-----------------------------------------------------------------------------
(* What the invariant shows *)

LEMMA NextInv == ASSUME FullPeriod, IInv, [Next]_vars PROVE IInv'
  <1>1. CASE BootUnsupported
    BY <1>1, FailInv DEF BootUnsupported
  <1>2. ASSUME NEW entropy \in 0..(MAX_TEST_PAGES - 1), vm_boot(entropy) PROVE IInv'
    BY <1>2, BootInv
  <1>3. CASE Program
    BY <1>3, ProgramInv
  <1>4. ASSUME NEW acc \in access, Complete(acc) \/ HardwareSetsBits(acc) \/ PageFault(acc)
        PROVE  IInv'
    BY <1>4, CompleteInv, HardwareSets, SetBitInv, FaultInv
  <1>5. CASE EvictPage
    BY <1>5, EvictInv
  <1>6. CASE EcallEnd
    BY <1>6, EndInv
  <1>7. CASE UNCHANGED vars
    BY <1>7, StutterInv
  <1> QED BY <1>1, <1>2, <1>3, <1>4, <1>5, <1>6, <1>7 DEF Next, Boot, Hart

THEOREM Invariance == ASSUME FullPeriod PROVE Spec => []IInv
  BY InitInv, NextInv, PTL DEF Spec

\* The variables keep their types: for every number of pages, the nodes of
\* the list, the table and the TLB hold what vm.c says they do.
THEOREM VMTypeCorrect == ASSUME FullPeriod PROVE Spec => []VMTypeOK
  <1>1. IInv => VMTypeOK
    <2> SUFFICES ASSUME IInv PROVE VMTypeOK
      OBVIOUS
    <2>1. access \subseteq Accesses /\ Cardinality(access) <= 1
      <3>1. CASE access = {}
        BY <3>1, FS_EmptySet
      <3>2. ASSUME NEW acc \in Accesses, access = {acc}
            PROVE  access \subseteq Accesses /\ Cardinality(access) <= 1
        BY <3>2, FS_Singleton
      <3> QED BY <3>1, <3>2 DEF IInv, TypeInv
    <2> QED BY <2>1 DEF IInv, TypeInv, PhaseInv, VMTypeOK
  <1> QED BY <1>1, Invariance, PTL

\* The only assertions that fail are those about the hart and about a program
\* that leaves its pages, for every number of pages (vm.c:127-137, 162-177).
THEOREM AssertionsCorrect == ASSUME FullPeriod PROVE Spec => []AssertionsHold
  <1>1. IInv => AssertionsHold
    BY DEF IInv, PhaseInv, AssertionsHold
  <1> QED BY <1>1, Invariance, PTL

\* The nodes that following the list from its head finds are the ones that
\* were not taken.
LEMMA FreeNodesAre ==
    ASSUME ListInv, status = "user"
    PROVE  FreeNodes = {ListNode(i) : i \in Taken..(MAX_TEST_PAGES - 1)}
  <1> DEFINE N == MAX_TEST_PAGES
             Body(f, i) == IF i = 0 THEN freelist_head
                           ELSE IF f[i - 1] = Null THEN Null ELSE nodes[f[i - 1]].next
             list == CHOOSE f : f = [i \in 0..N |-> Body(f, i)]
             g == [i \in 0..N |-> ListNode(Taken + i)]
  <1>1. FreeNodes = {list[i] : i \in 0..N} \ {Null}
    BY DEF FreeNodes
  <1>2. Taken \in 0..(N - 1) /\ N \in Nat
    BY TakenBounds, Numbers
  <1>3. \A i \in 0..N : g[i] = Body(g, i)
    <2> TAKE i \in 0..N
    <2>1. CASE i = 0
      BY <1>2, <2>1 DEF ListInv
    <2>2. CASE i # 0 /\ Taken + (i - 1) < N
      <3>1. g[i - 1] = <<"freelist_nodes", Taken + (i - 1)>> /\ Taken + (i - 1) \in Index
        BY <1>2, <2>2 DEF ListNode, Index
      <3>2. g[i - 1] # Null
        BY <3>1, Numbers, VMAssumption
      <3>3. \A m \in Index : nodes[<<"freelist_nodes", m>>].next = ListNode(m + 1)
        BY DEF ListInv
      <3>4. nodes[g[i - 1]].next = ListNode((Taken + (i - 1)) + 1)
        BY <3>1, <3>3
      <3>5. (Taken + (i - 1)) + 1 = Taken + i
        BY <1>2
      <3>6. Body(g, i) = ListNode((Taken + (i - 1)) + 1)
        BY <2>2, <3>2, <3>4
      <3> QED BY <3>5, <3>6
    <2>3. CASE i # 0 /\ ~(Taken + (i - 1) < N)
      <3>1. g[i - 1] = Null /\ g[i] = Null
        BY <1>2, <2>3 DEF ListNode
      <3> QED BY <2>3, <3>1
    <2> QED BY <2>1, <2>2, <2>3
  <1>4. g = [i \in 0..N |-> Body(g, i)]
    BY <1>3
  <1>5. list = [i \in 0..N |-> Body(list, i)]
    <2> HIDE DEF g
    <2> QED BY <1>4
  <1> HIDE DEF list, g
  <1>6. \A i \in 0..N : list[i] = Body(list, i)
    BY <1>5
  <1>7. 0..N \subseteq {i \in 0..N : list[i] = g[i]}
    <2> DEFINE S == {i \in 0..N : list[i] = g[i]}
    <2>1. 0 \in S
      BY <1>2, <1>3, <1>6
    <2>2. ASSUME NEW i \in 0..(N - 1), i \in S PROVE i + 1 \in S
      <3>1. i + 1 \in 0..N /\ (i + 1) - 1 = i /\ i + 1 # 0
        BY <1>2
      <3> QED BY <1>3, <1>6, <2>2, <3>1
    <2>3. 0..N \subseteq S
      <3> HIDE DEF S
      <3> QED BY <1>2, <2>1, <2>2, IntervalInduction
    <2> QED BY <2>3
  <1>8. \A i \in 0..N : list[i] = ListNode(Taken + i)
    BY <1>7 DEF g
  <1>9. ASSUME NEW j \in Taken..(N - 1) PROVE ListNode(j) \in FreeNodes
    <2>1. j - Taken \in 0..N /\ Taken + (j - Taken) = j /\ j \in Index
      BY <1>2 DEF Index
    <2>2. ListNode(j) # Null
      BY <2>1, Numbers, VMAssumption DEF ListNode, Index
    <2> QED BY <1>1, <1>8, <2>1, <2>2
  <1>10. ASSUME NEW n \in FreeNodes PROVE \E j \in Taken..(N - 1) : n = ListNode(j)
    <2>1. PICK i \in 0..N : n = ListNode(Taken + i) /\ n # Null
      BY <1>1, <1>8
    <2>2. Taken + i < N
      BY <2>1 DEF ListNode
    <2> QED BY <1>2, <2>1, <2>2
  <1> QED BY <1>9, <1>10

\* Every frame has one owner, a node of the free list or a mapped page, for
\* every number of pages (vm.c:176-198, 316-325).
THEOREM FramesCorrect == ASSUME FullPeriod PROVE Spec => []FramesPartition
  <1>1. IInv => FramesPartition
    <2> SUFFICES ASSUME IInv, status = "user" PROVE FramesPartition
      BY DEF FramesPartition
    <2> DEFINE Owners(f) == {n \in FreeNodes \cup {Mapping(p) : p \in MappedPages} : nodes[n].addr = f}
    <2>1. Taken \in Index /\ \A i \in Taken..(MAX_TEST_PAGES - 1) : i \in Index /\ ListNode(i) = <<"freelist_nodes", i>>
      BY TakenBounds, Numbers DEF Index, ListNode
    <2>2. \A p \in MappedPages : nodes[Mapping(p)].addr = user_llpt[p].frame
      BY DEF IInv, MappingInv, MappedPages
    <2>3. \A p \in MappedPages : \E i \in 0..(Taken - 1) : user_llpt[p].frame = Order(i)
      BY DEF IInv, ListInv
    <2>4. \A n \in FreeNodes : \E i \in Taken..(MAX_TEST_PAGES - 1) :
             n = <<"freelist_nodes", i>> /\ nodes[n].addr = Order(i)
      BY <2>1, FreeNodesAre DEF IInv, Order
    <2>5. ASSUME NEW f \in Frame PROVE \E n : Owners(f) = {n}
      <3>1. PICK i \in Index : f = Order(i)
        BY DEF IInv, ListInv
      <3>2. CASE i < Taken
        <4>1. PICK p \in MappedPages : user_llpt[p].frame = f
          <5>1. f \in {Order(j) : j \in 0..(Taken - 1)}
            BY <2>1, <3>1, <3>2, Numbers DEF Index
          <5> QED BY <5>1 DEF IInv, ListInv
        <4>2. \A q \in MappedPages : user_llpt[q].frame = f => q = p
          BY <4>1 DEF IInv, ListInv
        <4>3. \A n \in FreeNodes : nodes[n].addr # f
          <5> TAKE n \in FreeNodes
          <5>1. PICK j \in Taken..(MAX_TEST_PAGES - 1) : nodes[n].addr = Order(j)
            BY <2>4
          <5>2. j \in Index /\ j # i
            BY <2>1, <3>2, <5>1, Numbers DEF Index
          <5> QED BY <3>1, <5>1, <5>2 DEF IInv, ListInv
        <4>4. Owners(f) = {Mapping(p)}
          BY <2>2, <4>1, <4>2, <4>3
        <4> QED BY <4>4
      <3>3. CASE ~(i < Taken)
        <4>1. i \in Taken..(MAX_TEST_PAGES - 1)
          BY <2>1, <3>3 DEF Index
        <4>2. ListNode(i) \in FreeNodes /\ nodes[ListNode(i)].addr = f
          BY <2>1, <3>1, <4>1, FreeNodesAre DEF IInv, Order
        <4>3. \A n \in FreeNodes : nodes[n].addr = f => n = ListNode(i)
          <5> TAKE n \in FreeNodes
          <5>1. PICK j \in Taken..(MAX_TEST_PAGES - 1) : n = <<"freelist_nodes", j>> /\ nodes[n].addr = Order(j)
            BY <2>4
          <5>2. Order(j) = Order(i) => j = i
            BY <2>1 DEF IInv, ListInv
          <5> QED BY <2>1, <3>1, <4>1, <5>1, <5>2
        <4>4. \A q \in MappedPages : nodes[Mapping(q)].addr # f
          <5> TAKE q \in MappedPages
          <5>1. PICK j \in 0..(Taken - 1) : user_llpt[q].frame = Order(j)
            BY <2>3
          <5>2. j \in Index /\ j # i
            BY <2>1, <3>3, <5>1, Numbers DEF Index
          <5> QED BY <2>2, <3>1, <5>1, <5>2 DEF IInv, ListInv
        <4>5. Owners(f) = {ListNode(i)}
          BY <4>2, <4>3, <4>4
        <4> QED BY <4>5
      <3> QED BY <3>2, <3>3
    <2>6. \A f \in Frame : Cardinality(Owners(f)) = 1
      <3> HIDE DEF Owners
      <3> QED BY <2>5, FS_Singleton
    <2>7. \A p \in TestPage :
             nodes[Mapping(p)].addr = IF p \in MappedPages THEN user_llpt[p].frame ELSE 0
      BY DEF IInv, MappingInv
    <2> QED BY <2>6, <2>7 DEF FramesPartition
  <1> QED BY <1>1, Invariance, PTL

-----------------------------------------------------------------------------
(* The environment is plain memory to its program *)

Paused == UNCHANGED <<View, gpr, tohost>>

LEMMA InitRefines == Init => Space!Init
  <1> SUFFICES ASSUME Init PROVE Space!Init
    OBVIOUS
  <1>1. MappedPages = {}
    BY Numbers DEF Init, MappedPages
  <1>2. View \in [TestPage -> Values]
    BY <1>1 DEF Init, View
  <1> QED BY <1>2 DEF Init, Space!Init

LEMMA GiveUpRefines ==
    ASSUME IInv, status \in {"boot", "user", "evicting"}, status' = "aborted",
           tohost' \in {3, 841}, UNCHANGED <<phys, user_llpt, gpr>>
    PROVE  Space!Next
  <1>1. View' = View
    BY DEF View, MappedPages
  <1>2. tohost = 0
    BY DEF IInv, PhaseInv
  <1> QED BY <1>1, <1>2 DEF Space!Next, Space!Report, Space!Running

LEMMA FailRefines ==
    ASSUME IInv, status \in {"boot", "user", "evicting"}, NEW text, Fail(text)
    PROVE  Space!Next
  BY GiveUpRefines DEF Fail, terminate, memVars

LEMMA CompleteRefines ==
    ASSUME IInv, NEW acc \in access, Complete(acc)
    PROVE  Space!Next
  <1> DEFINE p == acc.page
  <1>1. /\ status = "user" /\ status' = "user" /\ Permits(user_llpt[p], acc.kind)
        /\ acc.kind = "store" => phys' = [phys EXCEPT ![user_llpt[p].frame] = acc.value] /\ gpr' = gpr
        /\ acc.kind # "store" => gpr' = phys[user_llpt[p].frame] /\ phys' = phys
        /\ user_llpt' = user_llpt /\ tohost' = tohost /\ tohost = 0
    BY OneAccess, Coherent DEF Complete, User, IInv, PhaseInv, endVars
  <1>2. p \in TestPage /\ p \in MappedPages /\ user_llpt[p].frame \in Frame
    BY <1>1, OneAccess, MappedPte DEF Permits, IInv, Mapped
  <1>3. MappedPages' = MappedPages
    BY <1>1 DEF MappedPages
  <1>4. CASE acc.kind = "store"
    <2>1. \A q \in MappedPages \ {p} : /\ q \in TestPage /\ user_llpt[q].frame \in Frame
                                       /\ user_llpt[q].frame # user_llpt[p].frame
      BY <1>1, <1>2, MappedPte, Numbers DEF IInv, ListInv, MappedPages, Mapped
    <2>2. \A q \in TestPage : View'[q] = IF q = p THEN acc.value ELSE View[q]
      BY <1>1, <1>2, <1>3, <1>4, <2>1, Numbers DEF View, IInv, TypeInv
    <2>3. View' = [View EXCEPT ![p] = acc.value]
      BY <2>2 DEF View
    <2>4. acc.value \in Values
      BY <1>4, OneAccess DEF IInv
    <2> QED BY <1>1, <1>2, <1>4, <2>3, <2>4 DEF Space!Next, Space!StorePage, Space!Running
  <1>5. CASE acc.kind # "store"
    <2>1. View' = View /\ gpr' = View[p]
      BY <1>1, <1>2, <1>3, <1>5 DEF View
    <2> QED BY <1>1, <1>2, <2>1 DEF Space!Next, Space!LoadPage, Space!Running
  <1> QED BY <1>4, <1>5

LEMMA SetBitRefines == ASSUME IInv, NEW p, NEW pte, SetsBits(p, pte) PROVE Paused
  <1>1. \A q \in TestPage : (q \in MappedPages' <=> q \in MappedPages)
                            /\ (q \in MappedPages => user_llpt'[q].frame = user_llpt[q].frame)
    BY Numbers, VMAssumption DEF SetsBits, IInv, TypeInv, MappedPages, Mapped
  <1>2. View' = View
    BY <1>1 DEF View, SetsBits
  <1> QED BY <1>2 DEF Paused, SetsBits, endVars

\* The frame a page moves to has its contents, and had no other page.
LEMMA MapRefines == ASSUME IInv, status = "user", NEW p, TakesFrame(p) PROVE Paused
  <1> DEFINE k == Taken
             pte == [frame |-> Order(k), a |-> FALSE, d |-> FALSE]
  <1>1. /\ p \in TestPage /\ p \notin MappedPages /\ k \in Index /\ Order(k) \in Frame
        /\ phys' = [phys EXCEPT ![Order(k)] = phys[p]]
        /\ user_llpt' = [user_llpt EXCEPT ![p] = pte]
        /\ status' = "user" /\ gpr' = gpr /\ tohost' = tohost
    BY DEF TakesFrame, endVars
  <1>2. /\ user_llpt'[p] = pte /\ pte # NoPte
        /\ \A q \in TestPage \ {p} : user_llpt'[q] = user_llpt[q]
    <2>1. pte \in Pte
      BY <1>1 DEF Pte
    <2> HIDE DEF pte
    <2> QED BY <1>1, <2>1, Numbers, VMAssumption DEF IInv, TypeInv
  <1>3. MappedPages' = MappedPages \cup {p}
    BY <1>1, <1>2 DEF MappedPages
  <1>4. /\ \A f \in Frame \ {Order(k)} : phys'[f] = phys[f]
        /\ phys'[Order(k)] = phys[p]
        /\ \A q \in TestPage : phys'[q] = phys[q]
    BY <1>1, Numbers DEF IInv, TypeInv
  <1>5. \A q \in MappedPages : user_llpt[q].frame \in Frame \ {Order(k)}
    <2> TAKE q \in MappedPages
    <2>1. user_llpt[q].frame \in Frame
      BY MappedPte, Numbers DEF IInv, MappedPages, Mapped
    <2>2. PICK i \in 0..(k - 1) : user_llpt[q].frame = Order(i)
      BY DEF IInv, ListInv
    <2>3. i \in Index /\ i # k
      BY <1>1, <2>2, Numbers DEF Index
    <2> QED BY <1>1, <2>1, <2>2, <2>3 DEF IInv, ListInv
  <1>6. \A q \in TestPage : View'[q] = View[q]
    <2> TAKE q \in TestPage
    <2>1. CASE q = p
      <3>1. View'[q] = phys'[Order(k)] /\ View[q] = phys[p]
        BY <1>1, <1>2, <1>3, <2>1 DEF View
      <3> QED BY <1>4, <3>1
    <2>2. CASE q # p
      BY <1>1, <1>2, <1>3, <1>4, <1>5, <2>2 DEF View
    <2> QED BY <2>1, <2>2
  <1>7. View' = View
    BY <1>6 DEF View
  <1> QED BY <1>1, <1>7 DEF Paused

LEMMA FaultRefines == ASSUME IInv, NEW acc \in access, PageFault(acc) PROVE Space!Next \/ Paused
  <1> DEFINE p == acc.page
  <1>1. /\ status = "user" /\ p \in Page /\ ~Permits(user_llpt[p], acc.kind)
    BY OneAccess, Coherent DEF PageFault, User, IInv
  <1>2. PICK t \in MayCache(tlb, p) : handle_fault(p, acc.kind, t)
    BY DEF PageFault
  <1>3. CASE p \notin TestPage
    BY <1>1, <1>2, <1>3, FailRefines DEF handle_fault, Assert
  <1>4. CASE p \in TestPage /\ Mapped(p)
    BY <1>1, <1>2, <1>4, GrantSets, SetBitRefines DEF handle_fault, Assert, Mapped
  <1>5. CASE p \in TestPage /\ ~Mapped(p)
    BY <1>1, <1>2, <1>5, MapTakes, MapRefines DEF handle_fault, Assert, Mapped
  <1> QED BY <1>3, <1>4, <1>5

LEMMA EvictRefines == ASSUME IInv, EvictPage PROVE Paused
  <1> DEFINE p == cursor
  <1>1. /\ status = "evicting" /\ access = {} /\ p \in TestPage /\ p \in Page
        /\ evict(p) /\ Translation(p) = user_llpt[p]
    BY Numbers, Coherent DEF EvictPage, MorePages, IInv, PhaseInv, TestPage
  <1>2. \A q \in MappedPages : /\ user_llpt[q].frame \in Frame /\ q \in TestPage
                               /\ user_llpt[q].frame # p /\ user_llpt[q].a
                               /\ user_llpt[q].d \/ phys[user_llpt[q].frame] = phys[q]
    BY <1>1, MappedPte, Numbers DEF IInv, PageInv, MappedPages, Mapped
  <1>3. CASE p \notin MappedPages
    <2>1. nodes[Mapping(p)].addr = 0
      BY <1>1, <1>3 DEF IInv, MappingInv
    <2>2. UNCHANGED <<phys, user_llpt, status, gpr, tohost>>
      BY <1>1, <2>1 DEF evict, Skip, memVars
    <2> QED BY <2>2 DEF Paused, View, MappedPages
  <1>4. CASE p \in MappedPages
    <2> DEFINE frame == user_llpt[p].frame
    <2>1. nodes[Mapping(p)].addr = frame /\ frame # 0
      <3>1. ~(p < cursor)
        BY <1>1 DEF TestPage
      <3> QED BY <1>1, <1>2, <1>4, <3>1, Numbers DEF IInv, MappingInv
    <2>2. /\ phys' = [phys EXCEPT ![p] = phys[frame]]
          /\ UNCHANGED <<user_llpt, status, gpr, tohost>>
      BY <1>1, <1>2, <1>4, <2>1 DEF evict, Assert
    <2>3. /\ \A q \in MappedPages : phys'[user_llpt[q].frame] = phys[user_llpt[q].frame]
          /\ \A q \in TestPage \ MappedPages : phys'[q] = phys[q]
      BY <1>2, <1>4, <2>2 DEF IInv, TypeInv
    <2>4. View' = View
      BY <1>1, <2>2, <2>3 DEF View, MappedPages
    <2> QED BY <2>2, <2>4 DEF Paused
  <1> QED BY <1>3, <1>4

\* When the loop has passed every page the image has what the frames have.
LEMMA EndRefines == ASSUME IInv, EcallEnd PROVE Space!Next
  <1>1. /\ status = "evicting" /\ cursor = MAX_TEST_PAGES /\ status' = "done"
        /\ tohost = 0 /\ tohost' = code /\ code \in ExitCodes
        /\ UNCHANGED <<phys, user_llpt, gpr>>
    BY Numbers DEF EcallEnd, MorePages, terminate, IInv, PhaseInv, memVars
  <1>2. \A p \in MappedPages : phys[user_llpt[p].frame] = phys[p]
    BY <1>1, Numbers DEF IInv, PageInv, MappedPages, TestPage
  <1>3. View' = View
    BY <1>1, <1>2 DEF View, MappedPages
  <1> QED BY <1>1, <1>3 DEF Space!Next, Space!Report, Space!Running

LEMMA StepRefines ==
    ASSUME IInv, [Next]_vars
    PROVE  [Space!Next]_<<View, gpr, tohost>>
  <1> SUFFICES Space!Next \/ Paused
    BY DEF Paused
  <1> USE DEF MappedPages, View, Paused, memVars, listVars, endVars
  <1>1. CASE BootUnsupported
    BY <1>1, FailRefines DEF BootUnsupported
  <1>2. ASSUME NEW entropy \in 0..(MAX_TEST_PAGES - 1), vm_boot(entropy) PROVE Paused
    <2>1. UNCHANGED <<phys, user_llpt, gpr, tohost>> /\ status # "done" /\ status' # "done"
      BY <1>2 DEF vm_boot
    <2> QED BY <2>1
  <1>3. ASSUME NEW acc \in Accesses, Issue(acc) PROVE Paused
    BY <1>3 DEF Issue
  <1>4. ASSUME NEW n \in ExitCodes, Ecall(n) PROVE Paused
    <2>1. UNCHANGED <<phys, user_llpt, gpr, tohost>> /\ status # "done" /\ status' # "done"
      BY <1>4 DEF Ecall, User
    <2> QED BY <2>1
  <1>5. ASSUME NEW cause \in {"illegal", "breakpoint"}, NEW fssr \in BOOLEAN,
               Exception(cause, fssr)
        PROVE  Space!Next
    <2>1. Verdict(cause, fssr) = 841
      BY <1>5 DEF Verdict, Medeleg
    <2> QED BY <1>5, <2>1, GiveUpRefines DEF Exception, terminate, User
  <1>6. ASSUME NEW acc \in access, Complete(acc) \/ HardwareSetsBits(acc) \/ PageFault(acc)
        PROVE  Space!Next \/ Paused
    BY <1>6, CompleteRefines, HardwareSets, SetBitRefines, FaultRefines
  <1>7. CASE EvictPage
    BY <1>7, EvictRefines
  <1>8. CASE EcallEnd
    BY <1>8, EndRefines
  <1>9. CASE UNCHANGED vars
    BY <1>9 DEF vars
  <1> QED BY <1>1, <1>2, <1>3, <1>4, <1>5, <1>6, <1>7, <1>8, <1>9 DEF Next, Boot, Program, Hart

\* Demand paging is plain memory to the program, however many pages it has:
\* no page is ever read from where it was before it moved, and the host finds
\* in the image what the program left (handle_fault, evict).
THEOREM PagingIsPlainMemory == ASSUME FullPeriod PROVE Spec => ImplementsAddressSpace
  <1>1. Spec => [][Space!Next]_<<View, gpr, tohost>>
    BY Invariance, StepRefines, PTL DEF Spec
  <1>2. Spec => Space!Init
    BY InitRefines, PTL DEF Spec
  <1> QED BY <1>1, <1>2, PTL DEF ImplementsAddressSpace, Space!Spec, Space!spaceVars
=============================================================================
