----------------------------- MODULE ExpPriority -----------------------------
(***************************************************************************)
(* Exception priority arbitration of one PE (src/arch/arm/include/        *)
(* exp_desc.h).  The header defines the priority descriptors, the         *)
(* EXP_PRI_TO_IDX index of a priority and the 32-bit active_pri_bits      *)
(* bitmap; exp_init/exp_activate_priority/exp_deactivate_priority/        *)
(* exp_register_priority_handler/exp_allow_ns_preemption are declared     *)
(* there but implemented outside src/, so they are modelled from spec 4.5.*)
(*                                                                         *)
(* A lower priority value is a higher priority and EXP_PRI_TO_IDX keeps   *)
(* the order, so the highest active priority is the lowest set bit.  The  *)
(* interrupt dispatcher is the environment: 'nest' is its stack of        *)
(* handlers in progress.                                                  *)
(***************************************************************************)
EXTENDS CpuData, ExpDesc, Integers, SequencesExt

CONSTANTS
    PriBits,    \* exception_data.pri_bits (EXP_REGISTER_PRIORITIES)
    Pris,       \* priorities with an EXP_PRI_DESC entry
    AllPris,    \* priorities the dispatcher may pass, valid or not
    Handlers    \* exp_handler_t values

Idx(p) == EXP_PRI_TO_IDX(p, PriBits)
IdxRange == 0..(2^PriBits - 1)

ASSUME PriBits \in 1..7 /\ Pris \subseteq AllPris /\ AllPris \subseteq 0..255
ASSUME \A p, q \in Pris : p # q => Idx(p) # Idx(q)
ASSUME \A p \in AllPris \ Pris : \A q \in Pris : Idx(p) # Idx(q)

\* exp_pri_bits_t is uint32_t (line 48): 1U << idx on AArch64 shifts by
\* idx mod 32 (LSL of a W register), so an index past 31 wraps.
BitOf(i) == BIT(i % 32)
ClearBit(bits, i) == bits - (bits & BitOf(i))    \* bits & ~BitOf(i)

\* TLC's integers are signed 32-bit, so the model keeps bit 31 unused.
MaxBitmap == 2^30 - 1 + 2^30
ASSUME \A p \in AllPris : Idx(p) % 32 < 31

VARIABLES
    activePriBits,  \* pe_exp_data_t.active_pri_bits
    desc,           \* exp_priorities[idx].exp_handler
    nsPreempt,      \* the NS-preemption policy bit
    fatal,          \* a priority operation took the fatal path
    halted,         \* handler registration took the fatal path
    nest            \* dispatcher: priorities of the handlers in progress

vars == <<activePriBits, desc, nsPreempt, fatal, halted, nest>>

IsActive(i) == (activePriBits & BitOf(i)) # 0

\* __builtin_ctz(active_pri_bits): the highest active priority's index.
HighestActiveIdx == CTZL(activePriBits)

\* exp_init() and the EXP_PRI_DESC table (lines 26-38): every registered
\* index valid with no handler, nothing active.
\* The highest active index, or -1 when no priority is active.
TopIdx == IF activePriBits # 0 THEN HighestActiveIdx ELSE -1

Init ==
    /\ activePriBits = 0
    /\ desc = [i \in IdxRange |->
                 IF \E p \in Pris : Idx(p) = i THEN EXP_NO_HANDLER_ ELSE Invalid]
    /\ nsPreempt = FALSE
    /\ fatal = FALSE /\ halted = FALSE
    /\ nest = <<>>

Running == ~fatal /\ ~halted

\* An exception at priority p preempts the running handler: p is higher
\* than the innermost one, or equal to it (a re-entry).
Preempts(p) ==
    IF p \in Pris /\ Len(nest) > 0 THEN p <= Last(nest) ELSE TRUE

\* Mutant: activation without the validity check.
ActivateUnchecked(p) ==
    /\ Running /\ Preempts(p)
    /\ \/ /\ ~IsActive(Idx(p))
          /\ activePriBits' = activePriBits | BitOf(Idx(p))
          /\ nest' = Append(nest, p)
          /\ UNCHANGED fatal
       \/ /\ IsActive(Idx(p))
          /\ fatal' = TRUE
          /\ UNCHANGED <<activePriBits, nest>>
    /\ UNCHANGED <<desc, nsPreempt, halted>>

\* exp_activate_priority(p): set p's bit; fatal if p is invalid or active.
Activate(p) ==
    LET i == Idx(p) IN
    /\ Running /\ Preempts(p)
    /\ \/ /\ desc[i] # Invalid /\ ~IsActive(i)
          /\ activePriBits' = activePriBits | BitOf(i)
          /\ nest' = Append(nest, p)
          /\ UNCHANGED fatal
       \/ /\ desc[i] = Invalid \/ IsActive(i)
          /\ fatal' = TRUE
          /\ UNCHANGED <<activePriBits, nest>>
    /\ UNCHANGED <<desc, nsPreempt, halted>>

\* exp_deactivate_priority(p): clear p's bit if it is the highest active
\* one; fatal otherwise.  The dispatcher calls it when p's handler exits,
\* or, by mistake, for another priority.
Deactivate(p) ==
    LET i == Idx(p) IN
    /\ Running
    /\ \/ /\ TopIdx = i
          /\ activePriBits' = ClearBit(activePriBits, i)
          /\ nest' = SelectSeq(nest, LAMBDA q : q # p)
          /\ UNCHANGED fatal
       \/ /\ TopIdx # i
          /\ fatal' = TRUE
          /\ UNCHANGED <<activePriBits, nest>>
    /\ UNCHANGED <<desc, nsPreempt, halted>>

\* exp_register_priority_handler(p, h): install h in a valid slot that has
\* none; re-registration or an invalid priority is fatal.
RegisterHandler(p, h) ==
    LET i == Idx(p) IN
    /\ Running
    /\ \/ /\ desc[i] = EXP_NO_HANDLER_
          /\ desc' = [desc EXCEPT ![i] = h]
          /\ UNCHANGED halted
       \/ /\ desc[i] # EXP_NO_HANDLER_
          /\ halted' = TRUE
          /\ UNCHANGED desc
    /\ UNCHANGED <<activePriBits, nsPreempt, fatal, nest>>

\* exp_allow_ns_preemption(code): set the policy bit.
AllowNsPreemption ==
    /\ Running /\ ~nsPreempt
    /\ nsPreempt' = TRUE
    /\ UNCHANGED <<activePriBits, desc, fatal, halted, nest>>

Next ==
    \/ \E p \in AllPris : Activate(p) \/ Deactivate(p)
    \/ \E p \in AllPris, h \in Handlers : RegisterHandler(p, h)
    \/ AllowNsPreemption

Spec == Init /\ [][Next]_vars

(***************************************************************************)
(* Properties                                                              *)
(***************************************************************************)

TypeOK ==
    /\ activePriBits \in 0..MaxBitmap
    /\ desc \in [IdxRange -> Handlers \cup {EXP_NO_HANDLER_, Invalid}]
    /\ nsPreempt \in BOOLEAN /\ fatal \in BOOLEAN /\ halted \in BOOLEAN
    /\ nest \in Seq(Pris)

=============================================================================
