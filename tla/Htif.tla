-------------------------------- MODULE Htif --------------------------------
(***************************************************************************)
(* How the virtual-memory environment prints the text of a failed          *)
(* assertion and stops, on RV32 (riscv-tests/env/v/vm.c:25-71): cputstring *)
(* hands each character to the host in a structure of its stack frame, the *)
(* same memory for every call, and terminate sends the exit code.  The     *)
(* hart and the host share tohost and fromhost.  The host is the part      *)
(* outside the code: it takes a request by clearing tohost, reads the      *)
(* structure, and answers as soon as it finds fromhost zero.               *)
(***************************************************************************)
EXTENDS Naturals, Sequences

CONSTANTS Text,    \* the characters of the message
          Code,    \* what terminate reports, not 0
          Struct   \* the address of syscall_struct, neither 0 nor Code

VARIABLES
    s,                  \* characters of the text cputstring has passed on
    buff,               \* the character in the structure
    at,                 \* the loop the hart is in: see below
    tohost, fromhost,
    answers,            \* requests the host has read and not answered
    printed, exited     \* what the host has put out, and the exit code it got

hartVars == <<s, buff, at>>
hostVars == <<answers, printed, exited>>
vars == <<hartVars, hostVars, tohost, fromhost>>

Init ==
    /\ s = 0 /\ buff = "" /\ at = "cputstring"
    /\ tohost = 0 /\ fromhost = 0
    /\ answers = 0 /\ printed = << >> /\ exited = 0

-----------------------------------------------------------------------------
(* The hart *)

\* The structure is filled, then do_tohost
cputchar ==
    /\ at = "cputstring" /\ s < Len(Text)
    /\ s' = s + 1 /\ buff' = Text[s + 1] /\ at' = "do_tohost"
    /\ UNCHANGED <<hostVars, tohost, fromhost>>

terminate ==
    /\ at = "cputstring" /\ s = Len(Text)
    /\ at' = "terminate"
    /\ UNCHANGED <<s, buff, hostVars, tohost, fromhost>>

\* while (tohost) fromhost = 0; the test and the store are two steps
Busy ==
    /\ at \in {"do_tohost", "terminate"} /\ tohost # 0
    /\ at' = IF at = "do_tohost" THEN "clear, do_tohost" ELSE "clear, terminate"
    /\ UNCHANGED <<s, buff, hostVars, tohost, fromhost>>

Clear ==
    /\ at \in {"clear, do_tohost", "clear, terminate"}
    /\ fromhost' = 0
    /\ at' = IF at = "clear, do_tohost" THEN "do_tohost" ELSE "terminate"
    /\ UNCHANGED <<s, buff, hostVars, tohost>>

do_tohost ==
    /\ at \in {"do_tohost", "terminate"} /\ tohost = 0
    /\ tohost' = IF at = "do_tohost" THEN Struct ELSE Code
    /\ at' = IF at = "do_tohost" THEN "while (!fromhost)" ELSE "while (1)"
    /\ UNCHANGED <<s, buff, hostVars, fromhost>>

\* while (!fromhost); and back to cputstring
Waited ==
    /\ at = "while (!fromhost)" /\ fromhost # 0
    /\ at' = "cputstring"
    /\ UNCHANGED <<s, buff, hostVars, tohost, fromhost>>

Hart == cputchar \/ terminate \/ Busy \/ Clear \/ do_tohost \/ Waited

-----------------------------------------------------------------------------
(* The host *)

Serve ==
    /\ tohost # 0 /\ exited = 0 /\ tohost' = 0
    /\ IF tohost = Struct
       THEN printed' = Append(printed, buff) /\ answers' = answers + 1 /\ UNCHANGED exited
       ELSE exited' = tohost /\ UNCHANGED <<printed, answers>>
    /\ UNCHANGED <<hartVars, fromhost>>

Answer ==
    /\ answers > 0 /\ fromhost = 0
    /\ fromhost' = 1 /\ answers' = answers - 1
    /\ UNCHANGED <<hartVars, tohost, printed, exited>>

Host == Serve \/ Answer

Next == Hart \/ Host

Spec == Init /\ [][Next]_vars /\ WF_vars(Hart) /\ WF_vars(Host)

-----------------------------------------------------------------------------
\* The comment of vm.c:54, "Wait for response as struct has to be read by
\* HTIF": when cputchar returns, and its frame with it, the host has read the
\* structure.
StructIsRead == at = "cputstring" => tohost # Struct
=============================================================================
