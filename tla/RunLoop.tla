------------------------------ MODULE RunLoop ------------------------------
(***************************************************************************)
(* What Hart::run (src/cpu.rs) promises its caller, whatever the guest     *)
(* does: a bounded loop that stops at the first verdict.  The verdict is   *)
(* the hart's tohost_value; one iteration either leaves it None and goes   *)
(* on, or finds it set and returns it, or panics.  Hart implements this    *)
(* specification.                                                          *)
(***************************************************************************)
EXTENDS Integers

CONSTANTS Verdicts,  \* what a guest can report
          None,      \* nothing reported
          Budgets,   \* the values of max_cycles
          MaxCalls   \* bound: calls of run() on one hart

ASSUME RunLoopAssumption ==
    /\ None \notin Verdicts
    /\ Budgets \subseteq Nat
    /\ MaxCalls \in Nat

VARIABLES verdict,   \* tohost_value of the hart: never cleared
          status,    \* of the caller: "idle", "running", "returned", "panicked"
          left,      \* iterations the loop has left
          ret,       \* what the last call returned
          calls      \* calls so far

loopVars == <<verdict, status, left, ret, calls>>

Init == verdict = None /\ status = "idle" /\ left = 0 /\ ret = None /\ calls = 0

Call(max_cycles) ==
    /\ status \in {"idle", "returned"} /\ calls < MaxCalls
    /\ status' = "running" /\ left' = max_cycles /\ ret' = None /\ calls' = calls + 1
    /\ UNCHANGED verdict

Iteration == status = "running" /\ left > 0 /\ UNCHANGED calls

\* Mutant: the loop looks for a verdict before the step, not after it
ContinueLate ==
    /\ Iteration
    /\ verdict = None /\ verdict' \in Verdicts \cup {None}
    /\ left' = left - 1
    /\ UNCHANGED <<status, ret>>

\* Mutant: a loop that does not count its iterations
ContinueUncounted ==
    /\ Iteration
    /\ verdict = None /\ verdict' = None
    /\ left' \in {left - 1, 5}
    /\ UNCHANGED <<status, ret>>

Continue ==
    /\ Iteration
    /\ verdict = None /\ verdict' = None
    /\ left' = left - 1
    /\ UNCHANGED <<status, ret>>

\* The verdict is this iteration's, or the one an earlier run() left behind
Report ==
    /\ Iteration
    /\ verdict' \in Verdicts
    /\ status' = "returned" /\ ret' = verdict' /\ left' = left - 1

\* A panic may follow the store that set the verdict (pc += 4 in a debug build)
Crash ==
    /\ Iteration
    /\ verdict' = verdict \/ verdict' \in Verdicts
    /\ status' = "panicked"
    /\ UNCHANGED <<left, ret>>

Timeout ==
    /\ status = "running" /\ left = 0
    /\ status' = "returned" /\ ret' = None
    /\ UNCHANGED <<verdict, left, calls>>

Advance == Continue \/ Timeout \/ Crash \/ Report

Next == Advance \/ \E max_cycles \in Budgets : Call(max_cycles)

\* Weak fairness of Advance.  The loop has no wait in it: Advance is enabled
\* in every state with status = "running", which stands for ENABLED here
Fairness == []<>(status # "running") \/ []<><<Advance>>_loopVars

SafeSpec == Init /\ [][Next]_loopVars
Spec     == SafeSpec /\ Fairness

-----------------------------------------------------------------------------
\* The first run() returns a verdict if and only if one was given while it
\* ran: none is lost on the last cycle, none outlives the loop unreported
\* (cpu.rs:130-134).
FirstRunReports ==
    calls = 1 => /\ status = "running"  => verdict = None
                 /\ status = "returned" => ret = verdict
=============================================================================
