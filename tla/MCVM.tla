-------------------------------- MODULE MCVM --------------------------------
(***************************************************************************)
(* Three pages of virtual memory, the first of them never mapped: the      *)
(* smallest instance in which the free list runs down to its last node.    *)
(***************************************************************************)
EXTENDS VM

\* The states without a step: the host has been told
Done == status \in {"done", "aborted"} /\ UNCHANGED vars

MCSpec == Init /\ [][Next \/ Done]_vars /\ WF_vars(Hart)
=============================================================================
