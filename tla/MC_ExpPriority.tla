---------------------------- MODULE MC_ExpPriority ----------------------------
(***************************************************************************)
(* Model values for checking ExpPriority with TLC: priority values on     *)
(* 2 and 5 platform priority bits.                                        *)
(***************************************************************************)
EXTENDS ExpPriority, TLC

CONSTANTS h1, h2

OneHandler == {h1}
TwoHandlers == {h1, h2}

\* pri_bits 2: indices 0..3; 0x00, 0x20 and 0x40 registered, 0x60 not.
Pris2 == {0, 32, 64}
AllPris2 == {0, 32, 64, 96}

\* pri_bits 5: indices 0..31; 0x00, 0x08 and 0x48 (index 18)
\* registered, 0x20 (index 8) not: indices with gaps between them.
Pris5 == {0, 8, 72}
AllPris5 == {0, 8, 32, 72}

=============================================================================
