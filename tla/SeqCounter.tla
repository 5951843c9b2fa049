------------------------------ MODULE SeqCounter ------------------------------
(***************************************************************************)
(* The 16-bit frame counter every REAC frame carries, and the arithmetic   *)
(* reac/analyzer.py does on it.  The half range of the counter is a        *)
(* parameter: the code fixes it to 32768, and nothing depends on the value *)
(* but that the modulus is twice it.                                       *)
(***************************************************************************)
EXTENDS Integers

CONSTANT HALF                       \* _HALF

ASSUME HalfAssumption == HALF \in Nat \ {0}

SEQ_MODULUS == 2 * HALF

\* Mutant: a counter that does not wrap at 16 bits.
Seq16Unmasked(n) == n

\* The counter a source puts in its n-th frame.
Seq16(n) == n % SEQ_MODULUS

\* Mutant: a plain difference, which a wrap turns into a huge step back.
SignedDeltaNoWrap(cur, prev) == cur - prev

\* _signed_delta: the representative of cur - prev in -HALF .. HALF-1.
SignedDelta(cur, prev) == ((cur - prev + HALF) % SEQ_MODULUS) - HALF
===============================================================================
