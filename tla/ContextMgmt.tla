---------------------------- MODULE ContextMgmt ----------------------------
(***************************************************************************)
(* Context management of the AArch64 kernel entry                          *)
(* (src/arch/arm/kernel/aarch64/runtime/context_mgmt.c, context_mgmt.h,    *)
(* cpu_data.h, cpu_data_array.c).                                          *)
(*                                                                         *)
(* Every core runs cpu_arch_setup() once at boot, then runtime services    *)
(* call the EL1/EL2 system-register save/restore functions.  The per-core  *)
(* record kernel_percpu_data[c] holds the world_process[] pointers; the    *)
(* world data perworld_data[s], the register contexts                      *)
(* kernel_pcpu_context[s] and initserver_data are single global objects    *)
(* shared by all cores.  Each statement of cpu_arch_setup() that touches   *)
(* shared memory is one step, so the steps of different cores interleave.  *)
(*                                                                         *)
(* Register contents are abstracted to tags: "Reset" (UNKNOWN after        *)
(* reset), "Base" (baseline written by the init protocol), "Zero" (from    *)
(* zeromem/BSS), "Garbage" (loaded through an absent context) or a value   *)
(* of Vals written by the software running on the core.                    *)
(***************************************************************************)
EXTENDS CpuData, Sequences

CONSTANTS
    Cores,          \* the cores of PLATFORM_CORE_COUNT
    Builds,         \* the CONFIG_ARM_{MONITOR,HYPERVISOR,SUPERVISER}_SUPPORT
                    \* selections a run explores
    RunInCurrent,   \* ENABLE_RUN_IN_CURRENT
    AArch32Regs,    \* CTX_INCLUDE_AARCH32_REGS
    SEL2Present,    \* is_armv8_4_sel2_present()
    RuntimeRebind,  \* runtime services may call the cm_set_world_context*()
                    \* setters (a model switch: FALSE keeps the cores to
                    \* the binds cpu_arch_setup() makes)
    Vals            \* register values software can write

ASSUME Builds \subseteq {"MONITOR", "HYPERVISOR", "SUPERVISER"}
ASSUME RunInCurrent \in BOOLEAN /\ AArch32Regs \in BOOLEAN /\ SEL2Present \in BOOLEAN
ASSUME RuntimeRebind \in BOOLEAN

Levels == {"EL1", "EL2"}                      \* save/restore granularity
HwGroups == {"EL3", "EL2", "EL1"}             \* system-register groups
CtxGroups == {"EL3", "EL2", "EL1", "SCTLR_EL2"}
RegVal == {"Reset", "Base", "Zero", "Garbage"} \cup Vals
ScrBits == {"NS", "ST", "HCE", "EEL2"}        \* SCR_EL3 bits the model reads
BootPCs == {"early_platform", "plat_arch"}
LayoutField == {"total_base", "total_size"}
LayoutVal == {"Zero", "BL_RAM_BASE", "BL_RAM_SIZE"}
TrustedRam == [total_base |-> "BL_RAM_BASE", total_size |-> "BL_RAM_SIZE"]
InitPCs == {"start", "zero_world", "link", "bind", "zero_ctx", "seed",
            "seed_write", "setup", "next_setup"}
PCs == BootPCs \cup InitPCs \cup {"save", "restore", "run", "panic", "fault"}
Halted == {"panic", "fault"}
\* A pointer: NULL, or the address of element i of a global array.
Ptr(array, i) == [obj |-> array, idx |-> i]
NULL == Ptr("NULL", 0)
WorldPtr == {NULL} \cup {Ptr("perworld_data", s) : s \in States}
CtxPtr == {NULL} \cup {Ptr("kernel_pcpu_context", s) : s \in States}
NoCall == [level |-> "EL1", sec |-> SECURE, ret |-> "run"]

VARIABLES
    build,         \* the build selected at compile time; never changes
    pc,            \* pc[c]: where core c is
    el2Impl,       \* el_implemented(2) != EL_IMPL_NONE on core c
    el1A64Only,    \* el_implemented(1) == EL_IMPL_A64ONLY on core c
    worldProcess,  \* kernel_percpu_data[c].world_process[i], a WorldPtr
    extra,         \* perworld_data[w].extra, a CtxPtr
    ctx,           \* kernel_pcpu_context[s], by register group
    hw,            \* hw[c][g]: system registers of group g on core c
    scrEL3,        \* SCR_EL3 of core c
    initMode,      \* initserver_data.base.mode
    modeRead,      \* the value of initMode core c loaded for its '|='
    initSpsr,      \* target EL in initserver_data's saved SPSR
    call,          \* arguments of the save/restore in progress on core c
    programmed,    \* ghost: register groups init wrote on core c, in order
    saved,         \* ghost: saved[c][l][s], last value core c saved
    absentUse,     \* ghost: a save/restore went through an absent context
    layout,        \* kernel_ram_layout, the static meminfo_t of qemu_bl1_setup.c
    mmu            \* mmu[c]: the RAM extent core c's MMU was configured with
                   \* (all "Zero" before plat_arch_setup())

vars == <<build, pc, el2Impl, el1A64Only, worldProcess, extra, ctx, hw,
          scrEL3, initMode, modeRead, initSpsr, call, programmed, saved, absentUse, layout, mmu>>

\* The variables of cpu_arch_setup() and of the save/restore engine.
cmVars == <<el2Impl, el1A64Only, worldProcess, extra, ctx, hw, scrEL3,
            initMode, modeRead, initSpsr, call, programmed, saved, absentUse>>

\* The compile-time selection of cpu_arch_setup(): cpu_ops, modes, state.
CpuOps(c) ==
  CASE build = "MONITOR" ->
         LET sec == SECURE IN
         IF RunInCurrent
         THEN [prev |-> "EL3", sec |-> sec, setup |-> "el3", mode |-> "EL3",
               pmode |-> MONITOR_K, next |-> "NULL"]
         ELSE IF sec # SECURE /\ el2Impl[c]
         THEN [prev |-> "EL3", sec |-> sec, setup |-> "el3", mode |-> "EL2",
               pmode |-> HYPERVISOR_U, next |-> "el2"]
         ELSE [prev |-> "EL3", sec |-> sec, setup |-> "el3", mode |-> "EL1",
               pmode |-> SUPERVISER_U, next |-> "el1"]
    [] build = "HYPERVISOR" ->
         [prev |-> "EL2", sec |-> NON_SECURE, setup |-> "el2",
          mode |-> IF RunInCurrent THEN "EL2" ELSE "EL1",
          pmode |-> IF RunInCurrent THEN HYPERVISOR_K ELSE SUPERVISER_U,
          next |-> IF RunInCurrent THEN "NULL" ELSE "el1"]
    [] build = "SUPERVISER" ->
         [prev |-> "EL1", sec |-> NON_SECURE, setup |-> "el1",
          mode |-> IF RunInCurrent THEN "EL1" ELSE "EL0",
          pmode |-> IF RunInCurrent THEN SUPERVISER_K ELSE ADMINISTRATOR_U,
          next |-> "NULL"]

\* The security state this build's cpu_arch_setup() initialises.
InitState == CpuOps(CHOOSE c \in Cores : TRUE).sec

Goto(c, where) == pc' = [pc EXCEPT ![c] = where]

Init ==
    /\ build \in Builds
    /\ pc = [c \in Cores |-> "early_platform"]
    /\ el2Impl \in [Cores -> BOOLEAN]
    /\ el1A64Only \in [Cores -> BOOLEAN]
    /\ worldProcess = [c \in Cores |-> [i \in States |-> NULL]]
    /\ extra = [w \in States |-> NULL]
    /\ ctx = [s \in States |-> [g \in CtxGroups |-> "Zero"]]
    /\ hw = [c \in Cores |-> [g \in HwGroups |-> "Reset"]]
    /\ scrEL3 = [c \in Cores |-> {}]
    /\ initMode = 0
    /\ modeRead = [c \in Cores |-> 0]
    /\ initSpsr = "none"
    /\ call = [c \in Cores |-> NoCall]
    /\ programmed = [c \in Cores |-> <<>>]
    /\ saved = [c \in Cores |-> [l \in Levels |-> [s \in States |-> "None"]]]
    /\ absentUse = FALSE
    /\ layout = [f \in LayoutField |-> "Zero"]
    /\ mmu = [c \in Cores |-> [f \in LayoutField |-> "Zero"]]

(***************************************************************************)
(* bootstrap_kernel() (bootstrap.c lines 34-52), run by every core: the    *)
(* QEMU platform set-up, then cpu_arch_setup().  kernel_setup() and        *)
(* init_process_setup() are empty and console_flush() is output, so the    *)
(* core proceeds to 'run' when cpu_arch_setup() returns.                   *)
(***************************************************************************)

\* early_platform_setup(): console init, then the unsynchronised stores
\* of the whole Trusted RAM into the static kernel_ram_layout.
EarlyPlatformSetup(c) ==
    /\ pc[c] = "early_platform"
    /\ layout' = [total_base |-> "BL_RAM_BASE", total_size |-> "BL_RAM_SIZE"]
    /\ Goto(c, "plat_arch")
    /\ UNCHANGED mmu /\ UNCHANGED cmVars

\* plat_arch_setup(): QEMU_CONFIGURE_MMU from kernel_ram_layout as it is
\* now, whatever another core's early_platform_setup() has stored.
PlatArchSetup(c) ==
    /\ pc[c] = "plat_arch"
    /\ mmu' = [mmu EXCEPT ![c] = layout]
    /\ Goto(c, "start")
    /\ UNCHANGED layout /\ UNCHANGED cmVars

BootStep(c) == EarlyPlatformSetup(c) \/ PlatArchSetup(c)

(***************************************************************************)
(* cpu_arch_setup(), one step per statement that touches shared memory.   *)
(***************************************************************************)

\* panic() (debug.h, not under src/): report, then plat_panic_handler(),
\* which never returns: the core halts.
panic(c) == Goto(c, "panic")

\* __assert() (assert.c), whichever PLAT_LOG_LEVEL_ASSERT selects: print,
\* backtrace("assert"), console_flush(), then plat_panic_handler(); it is
\* __dead2, so the core halts in the same state as after panic().
__assert(c) == Goto(c, "panic")

\* Lines 67-77: AArch32 register context requested on an AArch64-only EL1.
CheckAArch32(c) ==
    /\ pc[c] = "start"
    /\ IF AArch32Regs /\ el1A64Only[c] THEN panic(c) ELSE Goto(c, "zero_world")
    /\ UNCHANGED <<el2Impl, el1A64Only, worldProcess, extra, ctx, hw,
                   scrEL3, initMode, modeRead, initSpsr, call, programmed, saved, absentUse>>

\* Lines 130-131: zeromem(&perworld_data[security_state]) clears 'extra'.
ZeroWorld(c) ==
    /\ pc[c] = "zero_world"
    /\ extra' = [extra EXCEPT ![CpuOps(c).sec] = NULL]
    /\ Goto(c, "link")
    /\ UNCHANGED <<el2Impl, el1A64Only, worldProcess, ctx, hw, scrEL3,
                   initMode, modeRead, initSpsr, call, programmed, saved, absentUse>>

\* Mutant: the 'extra' link after zeromem() is missing.
LinkExtraDropped(c) ==
    /\ pc[c] = "link"
    /\ Goto(c, "bind")
    /\ UNCHANGED <<el2Impl, el1A64Only, worldProcess, extra, ctx, hw,
                   scrEL3, initMode, modeRead, initSpsr, call, programmed, saved, absentUse>>

\* Lines 132-133: world_data_ptr->extra = &kernel_pcpu_context[security_state].
LinkExtra(c) ==
    /\ pc[c] = "link"
    /\ extra' = [extra EXCEPT ![CpuOps(c).sec] =
                   Ptr("kernel_pcpu_context", CpuOps(c).sec)]
    /\ Goto(c, "bind")
    /\ UNCHANGED <<el2Impl, el1A64Only, worldProcess, ctx, hw, scrEL3,
                   initMode, modeRead, initSpsr, call, programmed, saved, absentUse>>

\* cm_get_world_context(s) on core c (context_mgmt.h lines 36-41).
cm_get_world_context(c, s) == worldProcess[c][get_cpu_context_index(s)]

\* cm_get_world_context_extra(s) on core c (lines 22-27), for a bound s.
cm_get_world_context_extra(c, s) == extra[cm_get_world_context(c, s).idx]

\* set_cpu_data(_by_index)(world_process[get_cpu_context_index(s)], p):
\* the store into core d's pcpu_data record (cpu_data.h lines 364-366).
SetWorldProcess(d, s, p) ==
    worldProcess' = [worldProcess EXCEPT ![d][get_cpu_context_index(s)] = p]

\* Mutant: binds cpu_context_ptr instead of world_data_ptr.
BindWorldPcpuContext(c) ==
    /\ pc[c] = "bind"
    /\ IF cm_get_world_context(c, CpuOps(c).sec) = NULL
       THEN SetWorldProcess(c, CpuOps(c).sec, Ptr("kernel_pcpu_context", CpuOps(c).sec))
       ELSE UNCHANGED worldProcess
    /\ Goto(c, "zero_ctx")
    /\ UNCHANGED <<el2Impl, el1A64Only, extra, ctx, hw, scrEL3,
                   initMode, modeRead, initSpsr, call, programmed, saved, absentUse>>

\* Lines 135-137: bind perworld_data[s] into this core's record if unset.
BindWorld(c) ==
    /\ pc[c] = "bind"
    /\ IF cm_get_world_context(c, CpuOps(c).sec) = NULL
       THEN SetWorldProcess(c, CpuOps(c).sec, Ptr("perworld_data", CpuOps(c).sec))
       ELSE UNCHANGED worldProcess
    /\ Goto(c, "zero_ctx")
    /\ UNCHANGED <<el2Impl, el1A64Only, extra, ctx, hw, scrEL3,
                   initMode, modeRead, initSpsr, call, programmed, saved, absentUse>>

\* Lines 139-143: compute the SPSR, then zeromem(cpu_context_ptr).
ZeroContext(c) ==
    /\ pc[c] = "zero_ctx"
    /\ ctx' = [ctx EXCEPT ![CpuOps(c).sec] = [g \in CtxGroups |-> "Zero"]]
    /\ Goto(c, "seed")
    /\ UNCHANGED <<el2Impl, el1A64Only, worldProcess, extra, hw, scrEL3,
                   initMode, modeRead, initSpsr, call, programmed, saved, absentUse>>

\* Line 146: initserver->base.mode |= BIT(state) | BIT(process_mode) is an
\* unsynchronised read-modify-write of a global every core performs: the
\* load is one step ...
SeedInitServer(c) ==
    /\ pc[c] = "seed"
    /\ modeRead' = [modeRead EXCEPT ![c] = initMode]
    /\ Goto(c, "seed_write")
    /\ UNCHANGED <<el2Impl, el1A64Only, worldProcess, extra, ctx, hw,
                   scrEL3, initMode, initSpsr, call, programmed, saved, absentUse>>

\* The bits line 146 ORs into initserver's mode.
SeedModeBits(c) == BIT(CpuOps(c).sec) | BIT(CpuOps(c).pmode)

\* ... and the store of the loaded value with the bits ORed in another;
\* lines 147-149 then write the entry point and SPSR into its context.
SeedInitServerWrite(c) ==
    /\ pc[c] = "seed_write"
    /\ initMode' = modeRead[c] | SeedModeBits(c)
    /\ initSpsr' = CpuOps(c).mode
    /\ Goto(c, "setup")
    /\ UNCHANGED <<el2Impl, el1A64Only, worldProcess, extra, ctx, hw,
                   scrEL3, modeRead, call, programmed, saved, absentUse>>

\* Enter cm_el1/el2_sysregs_context_save()/restore() for (level, s).
Call(c, op, level, s, ret) ==
    /\ Goto(c, op)
    /\ call' = [call EXCEPT ![c] = [level |-> level, sec |-> s, ret |-> ret]]

(***************************************************************************)
(* The per-level setup functions; 'ret' is where the core goes next.       *)
(***************************************************************************)

\* Lines 343-471: the SCR_EL3 value for the next EL (RW is always AArch64):
\* HCE whenever the next EL is EL2 (line 407), then ST (and EEL2 with
\* S-EL2) for the Secure state or NS for the Non-Secure one.
ScrEL3(ms, spsrEL) ==
    (IF spsrEL = "EL2" THEN {"HCE"} ELSE {})
    \cup IF ms = BIT(SECURE)
          THEN {"ST"} \cup (IF spsrEL = "EL2" /\ SEL2Present THEN {"EEL2"} ELSE {})
          ELSE {"NS"}

\* Lines 207-331: write_scr_el3(), write_mdcr_el3(), write_pmcr_el0(),
\* write_cptr_el3() (and write_dit()) with their baseline values.  None
\* of the SCR bits the model keeps is set by the baseline.
EL3Baseline(c) ==
    /\ hw' = [hw EXCEPT ![c]["EL3"] = "Base"]
    /\ programmed' = [programmed EXCEPT ![c] = Append(@, "EL3")]

\* Lines 473-486: CTX_SCR_EL3, CTX_CPTR_EL3 and CTX_PMCR_EL0 written into
\* the EL3 state of ctx, then write_scr_el3(scr_el3).
PopulateEL3State(c, scr) ==
    /\ ctx' = [ctx EXCEPT ![CpuOps(c).sec]["EL3"] = "Base"]
    /\ scrEL3' = [scrEL3 EXCEPT ![c] = scr]

\* setup_el3_context(): the baseline, then the SCR_EL3 for the next EL.
\* The "Invalid security state" panic (lines 468-470) needs both state bits
\* in initserver's mode, or neither; it comes after the baseline writes.
SetupEL3(c, ret) ==
    LET ms == SecBits(initMode) IN
    /\ EL3Baseline(c)
    /\ IF ms \in {BIT(SECURE), BIT(NON_SECURE)}
       THEN /\ PopulateEL3State(c, ScrEL3(ms, initSpsr))
            /\ Goto(c, ret)
       ELSE /\ panic(c)
            /\ scrEL3' = [scrEL3 EXCEPT ![c] = {}]
            /\ UNCHANGED ctx
    /\ UNCHANGED call

\* The guard of setup_el2_context() and setup_el1_context().
DescentGuard(ms) == ms = NON_SECURE

\* Lines 504-749: write_hcr_el2(), write_mdcr_el2(), write_pmcr_el0(),
\* write_cptr_el2(), the counter, VPIDR/VMPIDR, VTTBR, HSTR and CNTHP_CTL
\* baseline writes.
EL2Baseline(c) ==
    /\ hw' = [hw EXCEPT ![c]["EL2"] = "Base"]
    /\ programmed' = [programmed EXCEPT ![c] = Append(@, "EL2")]

\* setup_el2_context(): program the EL2 baseline, then save the EL2 context.
\* It is the setup of the HYPERVISOR build, whose mode bits never satisfy
\* DescentGuard, so only the early return (lines 502-503) is reachable.
SetupEL2(c, ret) ==
    LET ms == SecBits(initMode) IN
    IF ~DescentGuard(ms)
    THEN /\ Goto(c, ret)
         /\ UNCHANGED <<hw, scrEL3, ctx, programmed, call>>
    ELSE /\ EL2Baseline(c)
         /\ Call(c, "save", "EL2", CTZL(ms), ret)
         /\ UNCHANGED <<scrEL3, ctx>>

\* setup_el1_context(): SCTLR_EL2 when entered from EL3, then save EL1.
SetupEL1(c, ret) ==
    LET ms == SecBits(initMode)
        fromEL3 == el2Impl[c] /\ CpuOps(c).prev = "EL3" IN
    \/ /\ ~DescentGuard(ms)                              \* lines 762-763
       /\ Goto(c, ret)
       /\ UNCHANGED <<hw, scrEL3, ctx, programmed, call>>
    \/ /\ DescentGuard(ms)
       /\ hw' = IF fromEL3 THEN [hw EXCEPT ![c]["EL2"] = "Base"] ELSE hw
       /\ ctx' = IF fromEL3 THEN [ctx EXCEPT ![CpuOps(c).sec]["SCTLR_EL2"] = "Base"]
                            ELSE ctx
       /\ programmed' = IF fromEL3 THEN [programmed EXCEPT ![c] = Append(@, "EL2")]
                                   ELSE programmed
       /\ Call(c, "save", "EL1", CTZL(ms), ret)
       /\ UNCHANGED scrEL3

RunSetup(c, fn, ret) ==
    CASE fn = "el3" -> SetupEL3(c, ret)
      [] fn = "el2" -> SetupEL2(c, ret)
      [] fn = "el1" -> SetupEL1(c, ret)

FrameSetup == UNCHANGED <<el2Impl, el1A64Only, worldProcess, extra,
                          initMode, modeRead, initSpsr, saved, absentUse>>

\* Line 151: cpu_ops.setup(prev_mode, cpu_context_ptr, initserver).
Setup(c) ==
    /\ pc[c] = "setup"
    /\ RunSetup(c, CpuOps(c).setup, "next_setup")
    /\ FrameSetup

\* Line 152: cpu_ops.next_setup(...), called even when it is NULL; the
\* branch to address 0 never returns into cpu_arch_setup().
NextSetup(c) ==
    /\ pc[c] = "next_setup"
    /\ \/ /\ CpuOps(c).next = "NULL"
          /\ Goto(c, "fault")
          /\ UNCHANGED <<hw, scrEL3, ctx, programmed, call>>
       \/ /\ CpuOps(c).next # "NULL"
          /\ RunSetup(c, CpuOps(c).next, "run")
    /\ FrameSetup

(***************************************************************************)
(* The save/restore engine: cm_el1/el2_sysregs_context_save/restore().     *)
(***************************************************************************)

\* cm_el2_*: read_scr() is SCR_EL3, which is UNDEFINED below EL3; the
\* Secure EL2 context is only copied when SCR_EL3.EEL2 is set.
EL2Gate(c, s) ==
    CASE build # "MONITOR" -> "undef"
      [] s # SECURE \/ "EEL2" \in scrEL3[c] -> "copy"
      [] OTHER -> "skip"

Return(c) ==
    /\ Goto(c, call[c].ret)
    /\ call' = [call EXCEPT ![c] = NoCall]

\* cm_get_world_context_extra(s) dereferences world_process[s] before the
\* assert on 'extra'.  Through a NULL world_process the load is undefined:
\* it faults, or returns a junk 'extra' and the copy goes to or comes from
\* memory that is not a context.
AbsentContext(c, Copy) ==
    \/ /\ Goto(c, "fault")
       /\ UNCHANGED <<ctx, hw, saved, absentUse, call>>
    \/ /\ Return(c)
       /\ absentUse' = TRUE
       /\ Copy

\* el1/el2_sysregs_context_save(get_elN_sysregs_ctx(ctx)).
SaveCopy(c, l, s) ==
    /\ ctx' = [ctx EXCEPT ![cm_get_world_context_extra(c, s).idx][l] = hw[c][l]]
    /\ saved' = [saved EXCEPT ![c][l][s] = hw[c][l]]
    /\ UNCHANGED hw

\* Mutant: restore copies in the save direction.
RestoreCopyReversed(c, l, s) ==
    /\ ctx' = [ctx EXCEPT ![cm_get_world_context_extra(c, s).idx][l] = hw[c][l]]
    /\ UNCHANGED <<hw, saved>>

\* el1/el2_sysregs_context_restore(get_elN_sysregs_ctx(ctx)).
RestoreCopy(c, l, s) ==
    /\ hw' = [hw EXCEPT ![c][l] = ctx[cm_get_world_context_extra(c, s).idx][l]]
    /\ UNCHANGED <<ctx, saved>>

\* The body shared by the four functions, Copy being the register copy.
SysregsContextOp(c, Copy, Junk) ==
    LET l == call[c].level
        s == call[c].sec IN
    \/ /\ l = "EL2" /\ EL2Gate(c, s) = "undef"
       /\ Goto(c, "fault")
       /\ UNCHANGED <<ctx, hw, saved, absentUse, call>>
    \/ /\ l = "EL2" /\ EL2Gate(c, s) = "skip"
       /\ Return(c)
       /\ UNCHANGED <<ctx, hw, saved, absentUse>>
    \/ /\ l = "EL1" \/ EL2Gate(c, s) = "copy"
       /\ \/ /\ cm_get_world_context(c, s) = NULL
             /\ AbsentContext(c, Junk)
          \/ /\ cm_get_world_context(c, s) # NULL
             /\ cm_get_world_context_extra(c, s) = NULL  \* assert(ctx != NULL)
             /\ __assert(c)
             /\ UNCHANGED <<ctx, hw, saved, absentUse, call>>
          \/ /\ cm_get_world_context(c, s) # NULL
             /\ cm_get_world_context_extra(c, s) # NULL
             /\ Return(c)
             /\ Copy
             /\ UNCHANGED absentUse

FrameEngine == UNCHANGED <<el2Impl, el1A64Only, worldProcess, extra,
                           scrEL3, initMode, modeRead, initSpsr, programmed>>

SysregsContextSave(c) ==
    /\ pc[c] = "save"
    /\ SysregsContextOp(c, SaveCopy(c, call[c].level, call[c].sec),
                        UNCHANGED <<ctx, hw, saved>>)
    /\ FrameEngine

SysregsContextRestore(c) ==
    /\ pc[c] = "restore"
    /\ SysregsContextOp(c, RestoreCopy(c, call[c].level, call[c].sec),
                        /\ hw' = [hw EXCEPT ![c][call[c].level] = "Garbage"]
                        /\ UNCHANGED <<ctx, saved>>)
    /\ FrameEngine

(***************************************************************************)
(* Runtime, after cpu_arch_setup() returned on the core.                   *)
(***************************************************************************)

FrameRuntime == UNCHANGED <<el2Impl, el1A64Only, ctx, scrEL3,
                            initMode, modeRead, initSpsr, programmed, saved, absentUse>>

\* Software running on the core writes a register group.
WriteRegs(c, l, v) ==
    /\ pc[c] = "run"
    /\ hw' = [hw EXCEPT ![c][l] = v]
    /\ UNCHANGED <<pc, call, worldProcess, extra>>
    /\ FrameRuntime

\* A runtime service on core c binds or unbinds the world of state s:
\* cm_set_world_context(p, s) (lines 64-70), on its own record.
SetWorldContext(c, s, p) ==
    /\ RuntimeRebind
    /\ pc[c] = "run"
    /\ SetWorldProcess(c, s, p)
    /\ UNCHANGED <<pc, call, hw, extra>>
    /\ FrameRuntime

\* cm_set_world_context_by_index(d, p, s) (lines 129-137): the same store
\* into the record of core d, whatever core d is doing.
SetWorldContextByIndex(c, d, s, p) ==
    /\ RuntimeRebind
    /\ pc[c] = "run"
    /\ SetWorldProcess(d, s, p)
    /\ UNCHANGED <<pc, call, hw, extra>>
    /\ FrameRuntime

\* world_process[get_cpu_context_index(s)]->extra = p, read from core d's
\* record: a store into the world data the pointer reaches, which is
\* perworld_data[s], shared by every core.  Through a NULL world_process
\* the store goes to the low page, which the EL3 translation tables do
\* not map writable: core c faults.
SetExtraThrough(c, d, s, p) ==
    LET wp == cm_get_world_context(d, s) IN
    /\ RuntimeRebind
    /\ pc[c] = "run"
    /\ \/ /\ wp = NULL
          /\ Goto(c, "fault")
          /\ UNCHANGED extra
       \/ /\ wp # NULL
          /\ extra' = [extra EXCEPT ![wp.idx] = p]
          /\ UNCHANGED pc
    /\ UNCHANGED <<call, hw, worldProcess>>
    /\ FrameRuntime

\* cm_set_world_context_extra(p, s) (lines 48-54), through core c's record.
SetWorldContextExtra(c, s, p) == SetExtraThrough(c, c, s, p)

\* cm_set_world_context_extra_by_index(d, p, s) (lines 109-117).
SetWorldContextExtraByIndex(c, d, s, p) == SetExtraThrough(c, d, s, p)

\* A runtime service calls cm_elN_sysregs_context_save/restore(s).
CallSysregs(c, op, l, s) ==
    /\ pc[c] = "run"
    /\ Call(c, op, l, s, "run")
    /\ UNCHANGED <<hw, worldProcess, extra>>
    /\ FrameRuntime

\* The steps of cpu_arch_setup() and of a save/restore the core entered.
CmStep(c) ==
    \/ CheckAArch32(c) \/ ZeroWorld(c) \/ LinkExtra(c) \/ BindWorld(c)
    \/ ZeroContext(c) \/ SeedInitServer(c) \/ SeedInitServerWrite(c)
    \/ Setup(c) \/ NextSetup(c)
    \/ SysregsContextSave(c) \/ SysregsContextRestore(c)

\* The calls of runtime services on a core that finished its boot.
RuntimeStep(c) ==
    \/ \E l \in Levels, v \in Vals : WriteRegs(c, l, v)
    \/ \E s \in States :
           \E p \in {NULL, Ptr("perworld_data", s)} : SetWorldContext(c, s, p)
    \/ \E d \in Cores, s \in States :
           \E p \in {NULL, Ptr("perworld_data", s)} :
               SetWorldContextByIndex(c, d, s, p)
    \/ \E s \in States :
           \E p \in {NULL, Ptr("kernel_pcpu_context", s)} :
               SetWorldContextExtra(c, s, p)
    \/ \E d \in Cores, s \in States :
           \E p \in {NULL, Ptr("kernel_pcpu_context", s)} :
               SetWorldContextExtraByIndex(c, d, s, p)
    \/ \E op \in {"save", "restore"}, l \in Levels, s \in States :
           CallSysregs(c, op, l, s)

Next ==
  /\ \E c \in Cores :
        \/ BootStep(c)
        \/ (CmStep(c) \/ RuntimeStep(c)) /\ UNCHANGED <<layout, mmu>>
  /\ UNCHANGED build

\* Each core executes its own boot code without waiting on anything, so a
\* core that can take a step of bootstrap_kernel() or of a save/restore it
\* has entered eventually takes it.  Runtime calls are not fair.
InitStep(c) ==
  /\ \/ BootStep(c)
     \/ CmStep(c) /\ UNCHANGED <<layout, mmu>>
  /\ UNCHANGED build

Spec == Init /\ [][Next]_vars /\ \A c \in Cores : WF_vars(InitStep(c))

(***************************************************************************)
(* Properties                                                              *)
(***************************************************************************)

TypeOK ==
    /\ build \in Builds
    /\ pc \in [Cores -> PCs]
    /\ el2Impl \in [Cores -> BOOLEAN] /\ el1A64Only \in [Cores -> BOOLEAN]
    /\ worldProcess \in [Cores -> [States -> WorldPtr]]
    /\ extra \in [States -> CtxPtr]
    /\ ctx \in [States -> [CtxGroups -> RegVal]]
    /\ hw \in [Cores -> [HwGroups -> RegVal]]
    /\ scrEL3 \in [Cores -> SUBSET ScrBits]
    /\ initMode \in 0..(BIT(9) - 1)
    /\ modeRead \in [Cores -> 0..(BIT(9) - 1)]
    /\ initSpsr \in {"none", "EL3", "EL2", "EL1", "EL0"}
    /\ call \in [Cores -> [level : Levels, sec : States, ret : PCs]]
    /\ programmed \in [Cores -> Seq(HwGroups)]
    /\ saved \in [Cores -> [Levels -> [States -> RegVal \cup {"None"}]]]
    /\ absentUse \in BOOLEAN
    /\ layout \in [LayoutField -> LayoutVal]
    /\ mmu \in [Cores -> [LayoutField -> LayoutVal]]

\* Save/restore is a fixed point (spec section 8): whatever a core saved
\* into the context of (level, state) is still there when it restores it,
\* so cm_elN_sysregs_context_restore() returns the core its own registers.
\* Broken by anything else writing kernel_pcpu_context[s]: another core's
\* save, or cpu_arch_setup() zeroing it (line 143).
ContextHoldsLastSave ==
    \A c \in Cores, l \in Levels, s \in States :
        saved[c][l][s] # "None" => ctx[s][l] = saved[c][l][s]

\* Every core's cpu_arch_setup() eventually returns to run the next image:
\* no path of the protocol halts the core (spec 4.3, 6: called once per
\* core before handing control to the entry point).
InitCompletes == \A c \in Cores : <>(pc[c] = "run")

\* The descent law of the init protocol (spec 4.3 step 5, section 8): it
\* never writes EL2/EL1 registers when the world it sets up is Secure, and
\* a Non-Secure descent that hands over to a lower EL has installed the EL2
\* baseline (HCR_EL2) by the time cpu_arch_setup() returns.  Broken by the
\* state-bit/state-number comparisons of setup_el1_context() (line 762) in
\* the monitor build and of setup_el2_context() (line 502) in the
\* hypervisor build.
DescentLaw ==
    \A c \in Cores :
        /\ InitState = SECURE =>
               \A i \in 1..Len(programmed[c]) : programmed[c][i] \notin {"EL2", "EL1"}
        /\ (InitState = NON_SECURE /\ ~RunInCurrent /\ pc[c] = "run") =>
               \E i \in 1..Len(programmed[c]) : programmed[c][i] = "EL2"

\* No core halts on assert(ctx != NULL) in a save or restore of the state
\* its cpu_arch_setup() bound and linked: the 'extra' the init linked is
\* still linked when the save of setup_el1_context(), or a later one, uses
\* it.  (With RuntimeRebind a service may bind a world it never linked;
\* the halt is then the fatal path spec 4.4 asks for.)
InitNeverAsserts == \A c \in Cores : pc[c] # "panic"

\* A save/restore for a state with no bound context halts the core; it
\* never returns having used an absent context (spec 4.4, 8).
AbsentContextHalts == ~absentUse

\* A save or restore entered for a state this core has bound to a world
\* whose 'extra' context is linked eventually returns to its caller (spec 4.4: the EL2 variants are available when
\* configured).  Broken where cm_el2_sysregs_context_save/restore() read
\* SCR_EL3 (lines 784, 806) on a kernel that does not run at EL3, and by the
\* assert on an 'extra' another core has cleared.
SaveRestoreReturns ==
    \A c \in Cores :
        (/\ pc[c] \in {"save", "restore"}
         /\ cm_get_world_context(c, call[c].sec) # NULL
         /\ cm_get_world_context_extra(c, call[c].sec) # NULL)
            ~> (pc[c] \notin {"save", "restore"} \cup Halted)

\* The 'extra' context core d's cm_get_world_context_extra(s) returns, NULL
\* when core d has no world bound for s.
ExtraSeenBy(d, s) ==
    IF cm_get_world_context(d, s) = NULL THEN NULL
    ELSE cm_get_world_context_extra(d, s)

\* cm_set_world_context_extra() sets the context of a security state "for
\* the calling CPU" (context_mgmt.h lines 44-46), as cm_set_world_context()
\* does: a call on core c changes what no other core's
\* cm_get_world_context_extra() returns.  Broken because the store goes
\* through world_process into perworld_data[s], the one world every
\* core's cpu_arch_setup() binds (cpu_data_array.c line 20).
ExtraSetterCallerOnly ==
    [][\A c \in Cores, s \in States, p \in CtxPtr :
          SetWorldContextExtra(c, s, p) =>
              \A d \in Cores \ {c}, t \in States :
                  ExtraSeenBy(d, t)' = ExtraSeenBy(d, t)]_vars

=============================================================================
