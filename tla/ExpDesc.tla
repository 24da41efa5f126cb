------------------------------- MODULE ExpDesc -------------------------------
(***************************************************************************)
(* The constant part of src/arch/arm/include/exp_desc.h: the index of a   *)
(* priority level and the tags of a descriptor.                           *)
(***************************************************************************)
EXTENDS Naturals, Bitwise

\* exp_desc.h lines 22-24: the top plat_bits of the 7 lower priority bits.
EXP_PRI_TO_IDX(pri, plat_bits) == shiftR(pri & 127, 7 - plat_bits)

\* exp_desc.h lines 16-20: bit 0 of exp_handler marks a valid priority;
\* EXP_NO_HANDLER_ is a valid priority with no handler installed.
EXP_NO_HANDLER_ == "no_handler"
Invalid == "invalid"

\* The reference: a priority's index is the number of the band of width
\* 2^(7 - bits) that its 7 lower bits fall in (lines 40-47: the index keeps
\* the top bits, bit 7 is ignored).
RefPriToIdx(pri, bits) ==
    CHOOSE i \in 0..(2^bits - 1) :
        i * 2^(7 - bits) <= pri % 128 /\ pri % 128 < (i + 1) * 2^(7 - bits)

\* EXP_PRI_TO_IDX agrees with the reference for every 8-bit priority and
\* every platform width of 1 to 7 bits; TLC evaluates this on every start
\* of a model that extends this module.
ASSUME \A pri \in 0..255, bits \in 1..7 :
           EXP_PRI_TO_IDX(pri, bits) = RefPriToIdx(pri, bits)
=============================================================================
