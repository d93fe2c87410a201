-------------------------------- MODULE Lfsr --------------------------------
(***************************************************************************)
(* The shift register of src/riscv-tests/env/v/riscv_test.h, in whose      *)
(* order vm_boot hands out the frames.                                     *)
(***************************************************************************)
EXTENDS Integers

CONSTANT LFSR_BITS   \* 6 in riscv_test.h

MAX_TEST_PAGES == 2^LFSR_BITS - 1

ASSUME LfsrAssumption == LFSR_BITS \in Nat \ {0}

\* Mutant: the bit fed back is not the xor of two, and the period is shorter
LFSR_NEXT_Rotate(x) == ((x % 2) * 2^(LFSR_BITS - 1)) + (x \div 2)

LFSR_NEXT(x) == (((x + (x \div 2)) % 2) * 2^(LFSR_BITS - 1)) + (x \div 2)

\* The numbers the loop over freelist_nodes runs through from a first one
Walk(random) ==
    LET walk[i \in 0..(MAX_TEST_PAGES - 1)] ==
            IF i = 0 THEN random ELSE LFSR_NEXT(walk[i - 1])
    IN  walk

\* As many steps of the loop as there are numbers meet every number.
MeetsEveryNumber(random) ==
    {Walk(random)[i] : i \in 0..(MAX_TEST_PAGES - 1)} = 1..MAX_TEST_PAGES

\* "This must be the period of the LFSR" (riscv_test.h:70).  It is for 2, 3,
\* 4, 6 and 7 bits, not for 5.
FullPeriod == \A random \in 1..MAX_TEST_PAGES : MeetsEveryNumber(random)
=============================================================================
