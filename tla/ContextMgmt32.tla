---------------------------- MODULE ContextMgmt32 ----------------------------
(***************************************************************************)
(* Context management of the AArch32 kernel entry                          *)
(* (src/arch/arm/kernel/aarch32/runtime/context_mgmt.c).                   *)
(*                                                                         *)
(* The same cpu_arch_setup() as on AArch64, for Monitor, Hyp and SVC       *)
(* builds, with no save/restore engine: setup_el3_context() writes SCR and *)
(* the Non-Secure SCTLR into the shared kernel_pcpu_context[s], and        *)
(* setup_el1_context() later seeds HSCTLR from that SCTLR.  Each statement *)
(* that touches memory shared by the cores is one step.                    *)
(*                                                                         *)
(* The file does not compile as written (a duplicate declaration at line  *)
(* 160, unbalanced parentheses at lines 298 and 307, write_scr_el3 at     *)
(* line 310); each such line is modelled by what it evidently does.       *)
(***************************************************************************)
EXTENDS CpuData, Sequences

CONSTANTS
    Cores,          \* the cores of PLATFORM_CORE_COUNT
    Builds          \* the CONFIG_ARM_{MONITOR,HYPERVISOR,SUPERVISER}_SUPPORT
                    \* selections a run explores

ASSUME Builds \subseteq {"MONITOR", "HYPERVISOR", "SUPERVISER"}

HwGroups == {"MON", "HYP", "HSCTLR"}   \* PL1 baseline, Hyp baseline, HSCTLR
RegVal == {"Reset", "Base", "Zero"}
ScrBits == {"SIF", "NS", "HCE"}
PCs == {"zero_world", "link", "bind", "zero_ctx", "seed", "setup",
        "next_setup", "run", "fault"}
WorldPtr == {"NULL", "perworld_data"}

\* process_data->base.cpu_context.spsr_x, which cpu_arch_setup() never
\* writes (it writes gpregs_ctx.spsr_mon/hyp/svc): zero from BSS.
SpsrX == 0
MODE32_hyp == 26

VARIABLES
    build,         \* the build selected at compile time, fixed by Init
    runInCurrent,  \* ENABLE_RUN_IN_CURRENT: a build switch, fixed by Init
    pc,            \* pc[c]: where core c is
    virtExt,       \* GET_VIRT_EXT(read_id_pfr1()) != 0 on core c
    worldProcess,  \* kernel_percpu_data[c].world_process[s]
    extraLinked,   \* perworld_data[s].extra != NULL
    ctx,           \* kernel_pcpu_context[s]: CTX_SCR and CTX_NS_SCTLR
    hw,            \* hw[c][g]: system registers of core c
    scr,           \* SCR of core c
    initMode,      \* initserver_data.base.mode
    initSpsr,      \* the mode in initserver's spsr_mon/hyp/svc
    programmed     \* ghost: register groups init wrote on core c, in order

vars == <<build, runInCurrent, pc, virtExt, worldProcess, extraLinked, ctx, hw, scr, initMode,
          initSpsr, programmed>>

\* Lines 68-116: the compile-time selection of cpu_ops, modes and state.
CpuOps32(c) ==
    CASE build = "MONITOR" ->
         LET sec == SECURE IN
         IF runInCurrent
         THEN [prev |-> "mon", sec |-> sec, setup |-> "el3", mode |-> "mon",
               pmode |-> MONITOR_K, next |-> "NULL"]
         ELSE IF sec # SECURE /\ virtExt[c]
         THEN [prev |-> "mon", sec |-> sec, setup |-> "el3", mode |-> "hyp",
               pmode |-> HYPERVISOR_U, next |-> "el2"]
         ELSE [prev |-> "mon", sec |-> sec, setup |-> "el3", mode |-> "svc",
               pmode |-> SUPERVISER_U, next |-> "el1"]
      [] build = "HYPERVISOR" ->
         [prev |-> "hyp", sec |-> NON_SECURE, setup |-> "el2",
          mode |-> IF runInCurrent THEN "hyp" ELSE "svc",
          pmode |-> IF runInCurrent THEN HYPERVISOR_K ELSE SUPERVISER_U,
          next |-> IF runInCurrent THEN "NULL" ELSE "el1"]
      [] build = "SUPERVISER" ->
         [prev |-> "svc", sec |-> NON_SECURE, setup |-> "el1",
          mode |-> IF runInCurrent THEN "svc" ELSE "usr",
          pmode |-> IF runInCurrent THEN SUPERVISER_K ELSE ADMINISTRATOR_U,
          next |-> "NULL"]

\* The security state this build's cpu_arch_setup() initialises.
InitState == CpuOps32(CHOOSE c \in Cores : TRUE).sec

Goto(c, where) == pc' = [pc EXCEPT ![c] = where]

Init ==
    /\ build \in Builds
    /\ runInCurrent \in BOOLEAN
    /\ pc = [c \in Cores |-> "zero_world"]
    /\ virtExt \in [Cores -> BOOLEAN]
    /\ worldProcess = [c \in Cores |-> [s \in States |-> "NULL"]]
    /\ extraLinked = [s \in States |-> FALSE]
    /\ ctx = [s \in States |-> [SCR |-> {}, NS_SCTLR |-> "Zero"]]
    /\ hw = [c \in Cores |-> [g \in HwGroups |-> "Reset"]]
    /\ scr \in [Cores -> SUBSET ScrBits]
    /\ initMode = 0
    /\ initSpsr = "none"
    /\ programmed = [c \in Cores |-> <<>>]

(***************************************************************************)
(* cpu_arch_setup(), lines 118-150, one step per shared-memory statement. *)
(***************************************************************************)

FrameInit == UNCHANGED <<build, runInCurrent, virtExt, hw, scr, programmed>>

\* Line 119: zeromem(world_data_ptr) clears 'extra'.
ZeroWorld(c) ==
    /\ pc[c] = "zero_world"
    /\ extraLinked' = [extraLinked EXCEPT ![CpuOps32(c).sec] = FALSE]
    /\ Goto(c, "link")
    /\ UNCHANGED <<worldProcess, ctx, initMode, initSpsr>> /\ FrameInit

\* Lines 120-121: world_data_ptr->extra = cpu_context_ptr.
LinkExtra(c) ==
    /\ pc[c] = "link"
    /\ extraLinked' = [extraLinked EXCEPT ![CpuOps32(c).sec] = TRUE]
    /\ Goto(c, "bind")
    /\ UNCHANGED <<worldProcess, ctx, initMode, initSpsr>> /\ FrameInit

\* Mutant: binds cpu_context_ptr instead of world_data_ptr.
BindWorldPcpuContext(c) ==
    /\ pc[c] = "bind"
    /\ worldProcess' = [worldProcess EXCEPT ![c][CpuOps32(c).sec] =
                          IF @ = "NULL" THEN "kernel_pcpu_context" ELSE @]
    /\ Goto(c, "zero_ctx")
    /\ UNCHANGED <<extraLinked, ctx, initMode, initSpsr>> /\ FrameInit

\* Lines 124-125: bind the world data into this core's record if unset.
BindWorld(c) ==
    /\ pc[c] = "bind"
    /\ worldProcess' = [worldProcess EXCEPT ![c][CpuOps32(c).sec] =
                          IF @ = "NULL" THEN "perworld_data" ELSE @]
    /\ Goto(c, "zero_ctx")
    /\ UNCHANGED <<extraLinked, ctx, initMode, initSpsr>> /\ FrameInit

\* Lines 127-131: compute the SPSR, then zeromem(cpu_context_ptr).
ZeroContext(c) ==
    /\ pc[c] = "zero_ctx"
    /\ ctx' = [ctx EXCEPT ![CpuOps32(c).sec] = [SCR |-> {}, NS_SCTLR |-> "Zero"]]
    /\ Goto(c, "seed")
    /\ UNCHANGED <<worldProcess, extraLinked, initMode, initSpsr>> /\ FrameInit

\* Lines 134-146: initserver mode |= BIT(state) | BIT(process_mode), and
\* the SPSR and entry point stored in its spsr_/lr_ of the build's mode.
SeedInitServer(c) ==
    /\ pc[c] = "seed"
    /\ initMode' = initMode | (BIT(CpuOps32(c).sec) | BIT(CpuOps32(c).pmode))
    /\ initSpsr' = CpuOps32(c).mode
    /\ Goto(c, "setup")
    /\ UNCHANGED <<worldProcess, extraLinked, ctx>> /\ FrameInit

(***************************************************************************)
(* The setup functions; 'ret' is where the core goes next.                *)
(***************************************************************************)

\* Lines 274-309: the context SCR, from the SCR written at line 194.
ScrEL3(ms) ==
    ({"SIF"} \ {"NS", "HCE"})
        \cup (IF ms # SECURE THEN {"NS"} ELSE {})
        \cup (IF SpsrX = MODE32_hyp THEN {"HCE"} ELSE {})

\* Mutant: the Non-Secure SCTLR is not written into the context.
SetupEL3NoCtxSctlr(c, ret) ==
    LET ms == SecBits(initMode) IN
    /\ scr' = [scr EXCEPT ![c] = ScrEL3(ms)]
    /\ hw' = [hw EXCEPT ![c]["MON"] = "Base"]
    /\ ctx' = [ctx EXCEPT ![CpuOps32(c).sec].SCR = ScrEL3(ms)]
    /\ programmed' = [programmed EXCEPT ![c] = Append(@, "MON")]
    /\ Goto(c, ret)

\* setup_el3_context(), lines 154-311: SCTLR, SCR, NSACR, CPACR, SDCR and
\* PMCR of the core, then CTX_NS_SCTLR (if the state is not SECURE) and
\* CTX_SCR in the context and SCR in the core.
SetupEL3(c, ret) ==
    LET ms == SecBits(initMode) IN
    /\ scr' = [scr EXCEPT ![c] = ScrEL3(ms)]
    /\ hw' = [hw EXCEPT ![c]["MON"] = "Base"]
    /\ ctx' = [ctx EXCEPT ![CpuOps32(c).sec] =
                 [SCR |-> ScrEL3(ms),
                  NS_SCTLR |-> IF ms # SECURE THEN "Base" ELSE @.NS_SCTLR]]
    /\ programmed' = [programmed EXCEPT ![c] = Append(@, "MON")]
    /\ Goto(c, ret)

\* The guard of setup_el2_context() and setup_el1_context().
DescentGuard(ms) == ms = NON_SECURE

\* setup_el2_context(), lines 313-442: the Hyp baseline with SCR.NS set
\* around it.  Used by the Hyp build, whose mode bits never satisfy the
\* guard, so only the early return (lines 324-325) is reachable.
SetupEL2(c, ret) ==
    LET ms == SecBits(initMode) IN
    IF ~DescentGuard(ms)
    THEN /\ Goto(c, ret)
         /\ UNCHANGED <<hw, scr, ctx, programmed>>
    ELSE /\ hw' = [hw EXCEPT ![c]["HYP"] = "Base"]
         /\ scr' = [scr EXCEPT ![c] = @ \ {"NS"}]
         /\ programmed' = [programmed EXCEPT ![c] = Append(@, "HYP")]
         /\ Goto(c, ret)
         /\ UNCHANGED ctx

\* setup_el1_context(), lines 445-479: from Monitor mode on a core with the
\* virtualization extensions, HSCTLR from the context's CTX_NS_SCTLR, with
\* SCR.NS set around the write and cleared after it.
SetupEL1(c, ret) ==
    LET ms == SecBits(initMode)
        hyp == virtExt[c] /\ CpuOps32(c).prev = "mon" IN
    /\ IF DescentGuard(ms) /\ hyp
       THEN /\ hw' = [hw EXCEPT ![c]["HSCTLR"] = ctx[CpuOps32(c).sec].NS_SCTLR]
            /\ scr' = [scr EXCEPT ![c] = @ \ {"NS"}]
            /\ programmed' = [programmed EXCEPT ![c] = Append(@, "HSCTLR")]
       ELSE UNCHANGED <<hw, scr, programmed>>
    /\ Goto(c, ret)
    /\ UNCHANGED ctx

RunSetup(c, fn, ret) ==
    CASE fn = "el3" -> SetupEL3(c, ret)
      [] fn = "el2" -> SetupEL2(c, ret)
      [] fn = "el1" -> SetupEL1(c, ret)

FrameSetup == UNCHANGED <<build, runInCurrent, virtExt, worldProcess, extraLinked, initMode, initSpsr>>

\* Line 149: cpu_ops.setup(prev_mode, cpu_context_ptr, initserver).
Setup(c) ==
    /\ pc[c] = "setup"
    /\ RunSetup(c, CpuOps32(c).setup, "next_setup")
    /\ FrameSetup

\* Line 150: cpu_ops.next_setup(...), called even when it is NULL.
NextSetup(c) ==
    /\ pc[c] = "next_setup"
    /\ \/ /\ CpuOps32(c).next = "NULL"
          /\ Goto(c, "fault")
          /\ UNCHANGED <<hw, scr, ctx, programmed>>
       \/ /\ CpuOps32(c).next # "NULL"
          /\ RunSetup(c, CpuOps32(c).next, "run")
    /\ FrameSetup

Next ==
    \E c \in Cores :
        \/ ZeroWorld(c) \/ LinkExtra(c) \/ BindWorld(c) \/ ZeroContext(c)
        \/ SeedInitServer(c) \/ Setup(c) \/ NextSetup(c)

Spec == Init /\ [][Next]_vars

(***************************************************************************)
(* Properties                                                              *)
(***************************************************************************)

TypeOK ==
    /\ build \in Builds
    /\ runInCurrent \in BOOLEAN
    /\ pc \in [Cores -> PCs]
    /\ virtExt \in [Cores -> BOOLEAN]
    /\ worldProcess \in [Cores -> [States -> WorldPtr]]
    /\ extraLinked \in [States -> BOOLEAN]
    /\ ctx \in [States -> [SCR : SUBSET ScrBits, NS_SCTLR : RegVal]]
    /\ hw \in [Cores -> [HwGroups -> RegVal]]
    /\ scr \in [Cores -> SUBSET ScrBits]
    /\ initMode \in 0..(BIT(9) - 1)
    /\ initSpsr \in {"none", "mon", "hyp", "svc", "usr"}
    /\ programmed \in [Cores -> Seq(HwGroups)]

\* HSCTLR, once setup_el1_context() has written it, holds the SCTLR value
\* setup_el3_context() computed (lines 463-473), never the zeroes of a
\* context that was cleared (line 131) or never written.
HsctlrFromContext == \A c \in Cores : hw[c]["HSCTLR"] # "Zero"

\* A Secure image is entered in Secure state (spec 4.3, 8: bind a Secure
\* context at EL3): setup_el3_context() never leaves SCR.NS set in the
\* Secure world's saved context or, for a Secure set-up, in the SCR it
\* wrote into the core (the reset value is arbitrary).  Broken by the comparison of the state bit with SECURE (line 278).
SecureWorldEntersSecure ==
    /\ "NS" \notin ctx[SECURE].SCR
    /\ InitState = SECURE =>
           \A c \in Cores : Len(programmed[c]) > 0 => "NS" \notin scr[c]

=============================================================================
