---------------------------- MODULE HarnessProofs ----------------------------
(***************************************************************************)
(* The loop of run(), for any verdicts, budgets and number of calls, and   *)
(* what its callers make of it, for any guest whose test cases have        *)
(* numbers from 2 to 63 and any cycle limit.                               *)
(***************************************************************************)
EXTENDS Harness, TLAPS

-----------------------------------------------------------------------------
(* The loop *)

\* FirstRunReports speaks of the first call only; before it nothing has
\* been reported, which is what the call itself needs to know.
ReportInv ==
    /\ calls \in Nat
    /\ calls = 0 => verdict = None /\ status = "idle"
    /\ FirstRunReports

LEMMA ReportInductive == ReportInv /\ [Next]_loopVars => ReportInv'
  <1> SUFFICES ASSUME ReportInv, [Next]_loopVars PROVE ReportInv'
    OBVIOUS
  <1> USE DEF ReportInv, FirstRunReports
  <1>1. ASSUME NEW max_cycles \in Budgets, Call(max_cycles) PROVE ReportInv'
    BY <1>1 DEF Call
  <1>2. CASE Continue
    BY <1>2 DEF Continue, Iteration
  <1>3. CASE Report
    BY <1>3 DEF Report, Iteration
  <1>4. CASE Crash
    BY <1>4 DEF Crash, Iteration
  <1>5. CASE Timeout
    BY <1>5 DEF Timeout
  <1>6. CASE UNCHANGED loopVars
    BY <1>6 DEF loopVars
  <1> QED BY <1>1, <1>2, <1>3, <1>4, <1>5, <1>6 DEF Next, Advance

\* No verdict of the first run() is lost on its last cycle or left behind
\* unreported, whatever a guest may report and whatever max_cycles is.
THEOREM FirstRunCorrect == Spec => []FirstRunReports
  <1>1. Init => ReportInv
    BY DEF Init, ReportInv, FirstRunReports
  <1> QED BY <1>1, ReportInductive, PTL DEF Spec, SafeSpec, ReportInv

-----------------------------------------------------------------------------
(* 1337 beside a test number *)

LEMMA HalfOfQuotient ==
    \A n \in Nat, d \in Nat \ {0} : n \div (2 * d) = (n \div d) \div 2 /\ n \div d \in Nat
  OBVIOUS

LEMMA HalvesEqual ==
    ASSUME NEW q \in Nat, NEW r \in Nat, q \div 2 = r \div 2, q % 2 = 1 <=> r % 2 = 1
    PROVE  q = r
  OBVIOUS

LEMMA HalfStep ==
    ASSUME NEW m \in Nat, NEW n \in Nat, NEW d \in Nat \ {0},
           m \div (2 * d) = n \div (2 * d), (m \div d) % 2 = 1 <=> (n \div d) % 2 = 1
    PROVE  m \div d = n \div d
  <1> DEFINE q == m \div d
             r == n \div d
  <1>1. q \in Nat /\ m \div (2 * d) = q \div 2
    BY HalfOfQuotient
  <1>2. r \in Nat /\ n \div (2 * d) = r \div 2
    BY HalfOfQuotient
  <1>3. q \div 2 = r \div 2 /\ (q % 2 = 1 <=> r % 2 = 1)
    BY <1>1, <1>2
  <1> HIDE DEF q, r
  <1> QED BY <1>1, <1>2, <1>3, HalvesEqual DEF q, r

\* 1337 | testnum has the number's bits 1 and 2 beside its own.
OrNumber(n) == 1337 + ((n % 8) - (n % 2))

LEMMA BitsOfOr ==
    ASSUME NEW n \in 0..63
    PROVE  /\ OrNumber(n) \in {1337, 1339, 1341, 1343}
           /\ Bits(OrNumber(n)) = Bits(n) \cup Bits(1337)
  <1> DEFINE Or(i) == i \in Bits(OrNumber(n)) <=> i \in Bits(n) \cup Bits(1337)
  <1>1. OrNumber(n) \in {1337, 1339, 1341, 1343}
    BY DEF OrNumber
  <1>2. Or(0) /\ Or(1) /\ Or(2)
    BY SMT DEF OrNumber, Bits
  <1>3. Or(3) /\ Or(4) /\ Or(5)
    BY SMT DEF OrNumber, Bits
  <1>4. Or(6) /\ Or(7) /\ Or(8)
    BY SMT DEF OrNumber, Bits
  <1>5. Or(9) /\ Or(10)
    BY SMT DEF OrNumber, Bits
  <1> HIDE DEF Or
  <1>6. \A i \in 0..10 : Or(i)
    BY <1>2, <1>3, <1>4, <1>5
  <1>7. \A m : Bits(m) \subseteq 0..10
    BY DEF Bits
  <1> QED BY <1>1, <1>6, <1>7 DEF Or

\* Eleven bits make a number.
LEMMA BitsInjective ==
    ASSUME NEW m \in Number, NEW n \in Number, Bits(m) = Bits(n)
    PROVE  m = n
  <1> DEFINE Same(d) == m \div d = n \div d
             SameBit(d) == (m \div d) % 2 = 1 <=> (n \div d) % 2 = 1
             In(i) == i \in Bits(m) <=> i \in Bits(n)
  <1>1. /\ In(0) /\ In(1) /\ In(2) /\ In(3) /\ In(4) /\ In(5) /\ In(6) /\ In(7) /\ In(8)
        /\ In(9) /\ In(10)
    OBVIOUS
  <1>2. SameBit(1) /\ SameBit(2) /\ SameBit(4) /\ SameBit(8)
    BY <1>1, SMT DEF Bits, Number, Number, Number
  <1>3. SameBit(16) /\ SameBit(32) /\ SameBit(64) /\ SameBit(128)
    BY <1>1, SMT DEF Bits, Number, Number, Number
  <1>4. SameBit(256) /\ SameBit(512) /\ SameBit(1024)
    BY <1>1, SMT DEF Bits, Number, Number, Number
  <1>5. Same(2048)
    BY DEF Number
  <1>6. \A d \in Nat \ {0} : Same(2 * d) /\ SameBit(d) => Same(d)
    <2>1. m \in Nat /\ n \in Nat
      BY DEF Number
    <2> TAKE d \in Nat \ {0}
    <2> HAVE Same(2 * d) /\ SameBit(d)
    <2> QED BY <2>1, HalfStep
  <1> HIDE DEF Same, SameBit
  <1>7. Same(1024) /\ Same(512) /\ Same(256) /\ Same(128) /\ Same(64)
    BY <1>3, <1>4, <1>5, <1>6
  <1>8. Same(32) /\ Same(16) /\ Same(8) /\ Same(4) /\ Same(2) /\ Same(1)
    BY <1>2, <1>3, <1>6, <1>7
  <1>9. m \div 1 = n \div 1
    BY <1>8 DEF Same
  <1> QED BY <1>9 DEF Number

\* ori has the bits of both, where a number has them.
LEMMA OriHas ==
    ASSUME NEW n, NEW imm, NEW m \in Number, Bits(m) = Bits(n) \cup Bits(imm)
    PROVE  ori(n, imm) \in Number /\ Bits(ori(n, imm)) = Bits(m)
  BY Zenon DEF ori

LEMMA OriIs == \A n \in 0..63 : ori(n, 1337) \in {1337, 1339, 1341, 1343}
  <1> TAKE n \in 0..63
  <1>1. OrNumber(n) \in Number
    BY BitsOfOr DEF Number
  <1>2. ori(n, 1337) \in Number /\ Bits(ori(n, 1337)) = Bits(OrNumber(n))
    BY <1>1, BitsOfOr, OriHas
  <1>3. ori(n, 1337) = OrNumber(n)
    BY <1>1, <1>2, BitsInjective
  <1> QED BY <1>3, BitsOfOr

-----------------------------------------------------------------------------
(* The guest and its callers *)

\* Where the guest is tells how its tests ended and what TESTNUM holds.
GuestInv ==
    /\ tests \in SUBSET Testnum /\ gp \in Nat
    /\ guest \in {"reset", "tests", "pass", "fail", "write_tohost"}
    /\ guest \in {"reset", "tests"} =>
          gp \in Testnum \cup {0} /\ result = "running" /\ failing = 0
    /\ guest = "pass" => result = "passed"
    /\ guest = "fail" => result = "failed" /\ failing = gp
    /\ guest = "write_tohost" =>
          \/ result = "passed" /\ gp = 1
          \/ result = "failed" /\ failing \in Nat \ {0} /\ gp = 2 * failing + 1
          \/ result = "exception" /\ gp \in {1337, 1339, 1341, 1343}
          \/ result = "ecall" /\ failing = gp /\ gp # 1

\* The number that run() returns is the guest's last word, and the process
\* that has ended takes no more steps.
CallerInv ==
    /\ status \in {"idle", "running", "returned", "panicked"}
    /\ status # "idle" => calls = 1
    /\ verdict # None => guest = "write_tohost" /\ verdict = gp
    /\ exit # NoExit => status # "running"
    /\ exit = NoExit => said = <<>>

HarnessInv == ReportInv /\ GuestInv /\ CallerInv /\ SuccessMeansPassed /\ FailureNamed

LEMMA HarnessInitInv == HarnessInit => HarnessInv
  BY HarnessAssumption
  DEF HarnessInit, Init, HarnessInv, ReportInv, FirstRunReports, GuestInv, CallerInv,
      SuccessMeansPassed, FailureNamed

\* While the guest runs its caller has said nothing.
LEMMA GuestKeepsQuiet ==
    ASSUME HarnessInv, status = "running", UNCHANGED <<said, exit>>
    PROVE  exit' = NoExit /\ said' = <<>> /\ SuccessMeansPassed' /\ FailureNamed'
  <1>1. exit = NoExit /\ said = <<>>
    BY DEF HarnessInv, CallerInv
  <1> QED BY <1>1, HarnessAssumption DEF SuccessMeansPassed, FailureNamed

\* The steps of the guest before it writes to tohost.
LEMMA GuestGoesOn ==
    ASSUME HarnessInv, Continue,
           Reset \/ TestCase \/ PassFail \/ Pass \/ Fail \/ TestEcall \/ OtherException
    PROVE  HarnessInv'
  <1>1. /\ status = "running" /\ status' = status /\ verdict = None /\ verdict' = None
        /\ calls' = calls /\ ret' = ret /\ UNCHANGED <<said, exit>>
    BY DEF Continue, Iteration, Reset, TestCase, PassFail, Pass, Fail, TestEcall, OtherException,
           Guest, Moves
  <1>2. ReportInv'
    BY ReportInductive DEF HarnessInv, Next, Advance
  <1>3. GuestInv'
    <2> USE DEF HarnessInv, GuestInv, Guest, Moves, Judged
    <2>0. Testnum \subseteq 2..63
      BY HarnessAssumption DEF Testnum
    <2>1. CASE Reset
      BY <2>1 DEF Reset
    <2>2. CASE TestCase
      <3>1. PICK testnum \in tests :
              /\ gp' = testnum /\ tests' = tests \ {testnum}
              /\ \/ Moves("tests", "tests") /\ Judged
                 \/ Moves("tests", "fail") /\ result' = "failed" /\ failing' = testnum
        BY <2>2 DEF TestCase
      <3>2. testnum \in Testnum /\ testnum \in Nat /\ testnum # 0
        BY <2>0
      <3>3. CASE Moves("tests", "tests") /\ Judged
        BY <3>1, <3>2, <3>3
      <3>4. CASE Moves("tests", "fail") /\ result' = "failed" /\ failing' = testnum
        BY <3>1, <3>2, <3>4
      <3> QED BY <3>1, <3>3, <3>4
    <2>3. CASE PassFail
      BY <2>3 DEF PassFail
    <2>4. CASE Pass
      BY <2>4 DEF Pass
    <2>5. CASE Fail
      BY <2>5 DEF Fail
    <2>6. CASE TestEcall
      BY <2>0, <2>6 DEF TestEcall
    <2>7. CASE OtherException
      <3>1. gp \in 0..63
        BY <2>0, <2>7 DEF OtherException
      <3> QED BY <2>7, <3>1, OriIs DEF OtherException
    <2> QED BY <2>1, <2>2, <2>3, <2>4, <2>5, <2>6, <2>7
  <1>4. CallerInv'
    BY <1>1, GuestKeepsQuiet DEF HarnessInv, CallerInv
  <1> QED BY <1>1, <1>2, <1>3, <1>4, GuestKeepsQuiet DEF HarnessInv

LEMMA GuestStepInv == ASSUME HarnessInv, GuestStep \/ TimesOut PROVE HarnessInv'
  <1>1. CASE Reset \/ TestCase \/ PassFail \/ Pass \/ Fail \/ TestEcall \/ OtherException
    BY <1>1, GuestGoesOn DEF Reset, TestCase, PassFail, Pass, Fail, TestEcall, OtherException
  <1>2. CASE WriteTohost \/ GuestPanics \/ TimesOut
    <2>1. /\ status = "running" /\ status' \in {"running", "returned", "panicked"}
          /\ UNCHANGED <<tests, guest, gp, result, failing, said, exit, calls>>
          /\ verdict' = verdict \/ (guest = "write_tohost" /\ verdict' = gp)
          /\ Continue \/ Report \/ Crash \/ Timeout
      BY <1>2 DEF WriteTohost, GuestPanics, TimesOut, Guest, Moves, Judged, Continue, Report, Crash,
                  Timeout, Iteration, guestVars
    <2>2. ReportInv'
      BY <2>1, ReportInductive DEF HarnessInv, Next, Advance
    <2>3. GuestInv'
      BY <2>1 DEF HarnessInv, GuestInv
    <2>4. CallerInv'
      BY <2>1, GuestKeepsQuiet DEF HarnessInv, CallerInv
    <2> QED BY <2>1, <2>2, <2>3, <2>4, GuestKeepsQuiet DEF HarnessInv
  <1> QED BY <1>1, <1>2 DEF GuestStep

\* The process ends; what it says is all that changes.
LEMMA ExitInv ==
    ASSUME HarnessInv, NEW code \in {0, 1, 101}, NEW line, Exit(code, line), status # "running",
           SuccessMeansPassed', FailureNamed'
    PROVE  HarnessInv'
  BY HarnessAssumption
  DEF HarnessInv, ReportInv, FirstRunReports, GuestInv, CallerInv, Exit, loopVars, guestVars

LEMMA StartInv == ASSUME HarnessInv, Start PROVE HarnessInv'
  <1>1. status = "idle" /\ exit = NoExit
    BY DEF Start
  <1>2. CASE Exit(1, <<"Usage">>) \/ Exit(101, Panicked)
    <2>1. SuccessMeansPassed' /\ FailureNamed'
      BY <1>2 DEF Exit, SuccessMeansPassed, FailureNamed, Panicked
    <2> QED BY <1>1, <1>2, <2>1, ExitInv
  <1>3. CASE Call(MAX_CYCLES) /\ UNCHANGED <<guestVars, said, exit>>
    <2>1. ReportInv'
      BY <1>3, ReportInductive, HarnessAssumption DEF HarnessInv, Next
    <2>2. GuestInv' /\ CallerInv' /\ SuccessMeansPassed' /\ FailureNamed'
      BY <1>1, <1>3, HarnessAssumption
      DEF HarnessInv, ReportInv, GuestInv, CallerInv, SuccessMeansPassed, FailureNamed, Call, guestVars
    <2> QED BY <2>1, <2>2 DEF HarnessInv
  <1>4. \/ Exit(1, <<"Usage">>) \/ Exit(101, Panicked)
        \/ Call(MAX_CYCLES) /\ UNCHANGED <<guestVars, said, exit>>
    <2>1. CASE ~Given(2)
      BY <2>1 DEF Start
    <2>2. CASE Given(2) /\ Usable
      BY <2>2 DEF Start
    <2>3. CASE Given(2) /\ ~Usable
      BY <2>3 DEF Start
    <2> QED BY <2>1, <2>2, <2>3
  <1> QED BY <1>2, <1>3, <1>4

\* The verdict is 1 for a guest that passed, and for no other; halved, it is
\* the test case that failed, but for exceptions and stray ecalls.
LEMMA JudgeInv == ASSUME HarnessInv, Judge PROVE HarnessInv'
  <1>1. status = "returned" /\ exit = NoExit /\ calls = 1 /\ ret = verdict
    BY DEF Judge, HarnessInv, ReportInv, CallerInv, FirstRunReports
  <1>2. CASE ret = None
    <2>1. \/ invocation.front = "remur" /\ Exit(0, <<"Timeout">>)
          \/ Exit(101, <<"Timeout">>)
      BY <1>2, HarnessAssumption DEF Judge, JudgeRemur, JudgeRv32ui
    <2>2. SuccessMeansPassed' /\ FailureNamed'
      BY <2>1 DEF Exit, SuccessMeansPassed, FailureNamed, guestVars
    <2> QED BY <1>1, <2>1, <2>2, ExitInv
  <1>3. ASSUME ret # None
        PROVE  \/ result = "passed" /\ gp = 1
               \/ result = "failed" /\ failing \in Nat \ {0} /\ gp = 2 * failing + 1
               \/ result = "exception" /\ gp \in {1337, 1339, 1341, 1343}
               \/ result = "ecall" /\ failing = gp /\ gp # 1
    BY <1>1, <1>3 DEF HarnessInv, CallerInv, GuestInv
  <1>4. ret # None => ret = gp
    BY <1>1 DEF HarnessInv, CallerInv
  <1>5. CASE ret # None /\ ret = 1
    <2>1. Exit(0, <<"PASS">>)
      BY <1>5 DEF Judge, JudgeRemur, JudgeRv32ui
    <2>2. result = "passed"
      BY <1>3, <1>4, <1>5
    <2>3. SuccessMeansPassed' /\ FailureNamed'
      BY <2>1, <2>2 DEF Exit, SuccessMeansPassed, FailureNamed, guestVars
    <2> QED BY <1>1, <2>1, <2>3, ExitInv
  <1>6. CASE ret # None /\ ret # 1
    <2>1. PICK code \in {1, 101} : Exit(code, <<"FAIL", gp \div 2>>)
      BY <1>4, <1>6 DEF Judge, JudgeRemur, JudgeRv32ui, TestNumber
    <2>2. \/ result = "failed" /\ gp \div 2 = failing
          \/ result = "exception" /\ gp \div 2 \in {668, 669, 670, 671}
          \/ result = "ecall" /\ gp \div 2 = failing \div 2
      BY <1>3, <1>4, <1>6
    <2>3. SuccessMeansPassed' /\ FailureNamed'
      BY <2>1, <2>2 DEF Exit, SuccessMeansPassed, FailureNamed, guestVars
    <2> QED BY <1>1, <2>1, <2>3, ExitInv
  <1> QED BY <1>2, <1>5, <1>6

LEMMA UnwindInv == ASSUME HarnessInv, Unwind PROVE HarnessInv'
  <1>1. status = "panicked" /\ Exit(101, Panicked)
    BY DEF Unwind
  <1>2. SuccessMeansPassed' /\ FailureNamed'
    BY <1>1 DEF Exit, Panicked, SuccessMeansPassed, FailureNamed
  <1> QED BY <1>1, <1>2, ExitInv

LEMMA HarnessInductive == HarnessInv /\ [HarnessNext]_harnessVars => HarnessInv'
  <1> SUFFICES ASSUME HarnessInv, [HarnessNext]_harnessVars PROVE HarnessInv'
    OBVIOUS
  <1>1. CASE UNCHANGED harnessVars
    BY <1>1
    DEF harnessVars, guestVars, loopVars, HarnessInv, ReportInv, FirstRunReports, GuestInv,
        CallerInv, SuccessMeansPassed, FailureNamed
  <1> QED BY <1>1, StartInv, GuestStepInv, JudgeInv, UnwindInv DEF HarnessNext

LEMMA HarnessInvariance == HarnessSpec => []HarnessInv
  BY HarnessInitInv, HarnessInductive, PTL DEF HarnessSpec

\* A process that exits with 0 ran a guest whose tests all passed, or is the
\* command line program at its cycle limit, for every guest that numbers its
\* test cases from 2 on, wherever it traps, fails, spins or panics.
THEOREM SuccessCorrect == HarnessSpec => []SuccessMeansPassed
  <1>1. HarnessInv => SuccessMeansPassed
    BY DEF HarnessInv
  <1> QED BY <1>1, HarnessInvariance, PTL

\* The number after FAIL is the test case that failed; after an unexpected
\* exception it is one that no test case has, and after an ecall by the code of
\* a test it is half of the number of that test.
THEOREM FailureCorrect == HarnessSpec => []FailureNamed
  <1>1. HarnessInv => FailureNamed
    BY DEF HarnessInv
  <1> QED BY <1>1, HarnessInvariance, PTL
=============================================================================
