------------------------------ MODULE CpuData ------------------------------
(***************************************************************************)
(* The definitions of cpu_data.h shared by the AArch64 and AArch32        *)
(* context management: security states and process modes, which are bit  *)
(* numbers of a process's 'mode' word, and the context index of a state.  *)
(***************************************************************************)
EXTENDS Naturals, Bitwise

\* cpu_data.h: security states and process modes (bit numbers of 'mode')
SECURE == 0
NON_SECURE == 1
MONITOR_K == 2
HYPERVISOR_K == 3
SUPERVISER_K == 4
ADMINISTRATOR_U == 8
HYPERVISOR_U == 6
SUPERVISER_U == 7
States == {SECURE, NON_SECURE}

BIT(n) == 2^n

\* Mutant: the two context slots swapped.
get_cpu_context_index_swapped(s) == IF s = SECURE THEN NON_SECURE ELSE SECURE

\* get_cpu_context_index(): the index of a valid security state
get_cpu_context_index(s) == IF s = SECURE THEN SECURE ELSE NON_SECURE

\* __builtin_ctzl on a non-zero value
RECURSIVE CTZL(_)
CTZL(x) == IF x % 2 = 1 THEN 0 ELSE 1 + CTZL(x \div 2)

\* process_data->base.mode & (BIT(SECURE) | BIT(NON_SECURE))
SecBits(mode) == mode & (BIT(SECURE) | BIT(NON_SECURE))

=============================================================================
