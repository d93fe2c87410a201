------------------------------ MODULE Harness ------------------------------
(***************************************************************************)
(* From a riscv-tests program to an exit code.  Three parties agree on     *)
(* what a number at tohost means: the macros that write it                 *)
(* (riscv-tests/env/p/riscv_test.h and isa/macros/scalar/test_macros.h),   *)
(* run() that passes it on (RunLoop), and the two callers that judge it,   *)
(* the command line program (src/main.rs) and the tests                    *)
(* (tests/rv32ui.rs).  A guest step is one iteration of the loop here, so  *)
(* max_cycles counts such steps.                                           *)
(***************************************************************************)
EXTENDS RunLoop

CONSTANTS MaxTest,      \* bound: the highest number of a test case
          MAX_CYCLES,   \* 10_000_000 in both callers
          NoExit        \* the process has not ended

Invocation ==
    [front  : {"remur"}, argc : 1..4, file : {"missing", "too large", "fits"},
     base   : {"hex", "malformed"},
     tohost : {"the guest's", "another", "malformed"}]
    \cup
    [front : {"rv32ui"}, argc : {4}, file : {"missing", "too large", "fits"},
     base  : {"hex"}, tohost : {"the guest's"}]

VARIABLES
    invocation,   \* how the process was started
    tests,        \* the numbers of the test cases the guest has still to run
    guest, gp,    \* where the guest is, and TESTNUM
    result,       \* history: how the guest's tests ended
    failing,      \* history: the test case it was in then, 0 before the first
    said, exit    \* the last line of output, the exit code

guestVars == <<invocation, tests, guest, gp, result, failing>>
harnessVars == <<loopVars, guestVars, said, exit>>

ASSUME HarnessAssumption ==
    /\ MaxTest \in 2..63    \* testnum, of at most six bits
    /\ None \notin Nat /\ Verdicts \subseteq Nat
    /\ MAX_CYCLES \in Budgets /\ MaxCalls = 1
    /\ NoExit \notin {0, 1, 101}

\* Test cases are numbered from 2 on, so that 1 is left to RVTEST_PASS
Testnum == 2..MaxTest

HarnessInit ==
    /\ Init
    /\ invocation \in Invocation /\ tests \in SUBSET Testnum
    /\ guest = "reset" /\ gp = 0 /\ result = "running" /\ failing = 0
    /\ said = <<>> /\ exit = NoExit

-----------------------------------------------------------------------------
(* The caller, up to run() *)

Given(arg) == invocation.argc >= arg

Usable ==
    /\ invocation.file = "fits"
    /\ Given(3) => invocation.base = "hex"
    /\ Given(4) => invocation.tohost # "malformed"

Exit(code, line) ==
    /\ exit' = code /\ said' = line
    /\ UNCHANGED <<loopVars, guestVars>>

Panicked == <<"panicked">>

Start ==
    /\ status = "idle" /\ exit = NoExit
    /\ CASE ~Given(2)          -> Exit(1, <<"Usage">>)
         [] Given(2) /\ Usable -> Call(MAX_CYCLES) /\ UNCHANGED <<guestVars, said, exit>>
         [] OTHER              -> Exit(101, Panicked)

-----------------------------------------------------------------------------
(* The guest.  Each of its steps is an iteration of run(). *)

Moves(at, to) ==
    /\ guest = at /\ guest' = to
    /\ UNCHANGED <<invocation, said, exit>>

Guest(at, to) == Moves(at, to) /\ UNCHANGED tests

Judged == UNCHANGED <<result, failing>>

Reset == Guest("reset", "tests") /\ Continue /\ gp' = 0 /\ Judged

\* Mutant: the number is set after the code of the test
TestCase_Late ==
    /\ Continue
    /\ \E testnum \in tests :
          /\ tests' = tests \ {testnum}
          /\ \/ Moves("tests", "tests") /\ gp' = testnum /\ Judged
             \/ /\ Moves("tests", "fail") /\ UNCHANGED gp
                /\ result' = "failed" /\ failing' = testnum

\* li TESTNUM, testnum; the code of the test; bne testreg, x7, fail.  Not
\* every guest has its test cases in the order of their numbers (mulhsu.S).
TestCase ==
    /\ Continue
    /\ \E testnum \in tests :
          /\ gp' = testnum /\ tests' = tests \ {testnum}
          /\ \/ Moves("tests", "tests") /\ Judged
             \/ Moves("tests", "fail") /\ result' = "failed" /\ failing' = testnum

\* TEST_PASSFAIL: bne x0, TESTNUM, pass.  A guest that ran no test falls
\* through to fail.
PassFail ==
    /\ Continue /\ tests = {}
    /\ IF gp # 0
       THEN Guest("tests", "pass") /\ result' = "passed"
       ELSE Guest("tests", "fail") /\ result' = "failed"
    /\ UNCHANGED <<gp, failing>>

Pass == Guest("pass", "write_tohost") /\ Continue /\ gp' = 1 /\ Judged

\* Mutant: no beqz TESTNUM
Fail_Always == Guest("fail", "write_tohost") /\ Continue /\ gp' = 2 * gp + 1 /\ Judged

\* RVTEST_FAIL spins while there is no number to tell
Fail ==
    /\ Continue /\ Judged
    /\ IF gp = 0
       THEN Guest("fail", "fail") /\ UNCHANGED gp
       ELSE Guest("fail", "write_tohost") /\ gp' = 2 * gp + 1

\* ori on numbers of eleven bits
Bits(n) == {i \in 0..10 : (n \div 2^i) % 2 = 1}

Number == 0..2047

ori(n, imm) == CHOOSE m \in Number : Bits(m) = Bits(n) \cup Bits(imm)

\* trap_vector on an ecall: it is taken for the one of RVTEST_PASS or
\* RVTEST_FAIL, and TESTNUM for what is to be told, also when the code of a
\* test case made the call
TestEcall ==
    /\ Guest("tests", "write_tohost") /\ Continue /\ UNCHANGED gp
    /\ result' = "ecall" /\ failing' = gp

\* trap_vector, when mcause is no ecall and the test has no mtvec_handler: the
\* one other cause of this hart is the breakpoint, anything else is a panic.
\* A handler is code of the test, and what it does is in TestCase.
OtherException ==
    /\ Guest("tests", "write_tohost") /\ Continue
    /\ gp' = ori(gp, 1337)
    /\ result' = "exception" /\ failing' = gp

\* sw TESTNUM, tohost, and again for ever; zero is no report
WriteTohost ==
    /\ Guest("write_tohost", "write_tohost") /\ UNCHANGED gp /\ Judged
    /\ IF Given(4) /\ invocation.tohost = "the guest's" /\ gp # 0
       THEN Report /\ verdict' = gp
       ELSE Continue

\* An instruction REMUR does not know, or an access outside of the memory
GuestPanics ==
    /\ verdict' = verdict /\ Crash
    /\ UNCHANGED <<guestVars, said, exit>>

TimesOut == Timeout /\ UNCHANGED <<guestVars, said, exit>>

GuestStep ==
    \/ Reset \/ TestCase \/ PassFail \/ Pass \/ Fail \/ TestEcall \/ OtherException
    \/ WriteTohost \/ GuestPanics

-----------------------------------------------------------------------------
(* The caller, after run() *)

TestNumber(val) == val \div 2

JudgeRemur ==
    CASE ret = None -> Exit(0, <<"Timeout">>)
      [] ret = 1    -> Exit(0, <<"PASS">>)
      [] OTHER      -> Exit(1, <<"FAIL", TestNumber(ret)>>)

JudgeRv32ui ==
    CASE ret = None -> Exit(101, <<"Timeout">>)
      [] ret = 1    -> Exit(0, <<"PASS">>)
      [] OTHER      -> Exit(101, <<"FAIL", TestNumber(ret)>>)

Judge ==
    /\ status = "returned" /\ exit = NoExit
    /\ IF invocation.front = "remur" THEN JudgeRemur ELSE JudgeRv32ui

Unwind == status = "panicked" /\ exit = NoExit /\ Exit(101, Panicked)

HarnessNext == Start \/ GuestStep \/ TimesOut \/ Judge \/ Unwind

\* One thread, which nothing makes wait
HarnessSpec == HarnessInit /\ [][HarnessNext]_harnessVars /\ WF_harnessVars(HarnessNext)

-----------------------------------------------------------------------------
\* Success means that the guest ran tests and every one passed.  The command
\* line program has one more way to exit with 0, the cycle limit
\* (main.rs:50), which is also where a passing guest ends when tohost was not
\* given (main.rs:28); the tests have none (rv32ui.rs:21-24).  No ecall by the
\* code of a test passes either, as no test case is numbered 1.
SuccessMeansPassed ==
    exit = 0 => \/ result = "passed"
                \/ invocation.front = "remur" /\ said = <<"Timeout">>

\* "FAIL at test case n" names the test case that failed: what the macros
\* encode is what the callers decode (main.rs:45, rv32ui.rs:23).  Two guests
\* are told otherwise, because TESTNUM has not been through RVTEST_FAIL: after
\* an unexpected exception n has 668 in it (riscv_test.h:214), and after an
\* ecall by the test's own code n is half of the test's number
\* (riscv_test.h:195-201), which may be that of a test that passed.
FailureNamed ==
    said # <<>> /\ said[1] = "FAIL" =>
        CASE result = "failed"    -> said[2] = failing
          [] result = "exception" -> said[2] \in {668, 669, 670, 671}
          [] result = "ecall"     -> said[2] = failing \div 2
          [] OTHER                -> FALSE

\* Every invocation ends: a guest that fails before its first test spins, and
\* one whose tohost is elsewhere or that has zero to tell stores for ever,
\* until the limit.
ProcessEnds == <>(exit # NoExit)
=============================================================================
