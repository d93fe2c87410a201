---------------------------- MODULE AddressSpace ----------------------------
(***************************************************************************)
(* What the virtual-memory test environment (riscv-tests/env/v) promises   *)
(* the program it runs: test pages that behave as plain memory, and, when  *)
(* the program ends with an ecall, a verdict beside which the host finds   *)
(* those pages as the program left them.  Page tables, frames and faults   *)
(* are no part of it.  VM implements this specification.                   *)
(***************************************************************************)
CONSTANTS TestPages,  \* the pages the program may use
          Values,     \* the contents of a page
          ExitCodes,  \* what the program may report
          AbortCodes, \* what the environment reports of a program it gives up
          NoVerdict

VARIABLES mem,      \* the contents of the test pages
          loaded,   \* what the last load returned
          verdict   \* what the host was told

spaceVars == <<mem, loaded, verdict>>

Init ==
    /\ mem \in [TestPages -> Values]
    /\ loaded \in Values
    /\ verdict = NoVerdict

Running == verdict = NoVerdict

LoadPage(p) ==
    /\ Running
    /\ loaded' = mem[p]
    /\ UNCHANGED <<mem, verdict>>

StorePage(p, v) ==
    /\ Running
    /\ mem' = [mem EXCEPT ![p] = v]
    /\ UNCHANGED <<loaded, verdict>>

Report(code) ==
    /\ Running
    /\ verdict' = code
    /\ UNCHANGED <<mem, loaded>>

Next ==
    \/ \E p \in TestPages : LoadPage(p) \/ \E v \in Values : StorePage(p, v)
    \/ \E code \in ExitCodes \cup AbortCodes : Report(code)

Spec == Init /\ [][Next]_spaceVars
=============================================================================
