# TLA+ model of Neuron-OS context management

This directory models the ARM exception-level context management of
Neuron-OS. It covers the boot-time initialisation that every core runs in
`cpu_arch_setup()`, and the system-register save/restore engine that runtime
services call afterwards. The models are checked with TLC.

## The system

| Part | Source | What it does |
|---|---|---|
| EL init protocol | `src/arch/arm/kernel/aarch64/runtime/context_mgmt.c` (`cpu_arch_setup`, `setup_el3/el2/el1_context`) | Runs once per core at boot. It chooses a build configuration (monitor at EL3, hypervisor at EL2, supervisor at EL1, optionally resident with `ENABLE_RUN_IN_CURRENT`), zeroes and links the world data, binds it into the core's record, zeroes the register context, seeds the init server's mode and entry, and calls `setup` and `next_setup`. |
| Save/restore engine | same file, lines 782-850 | `cm_el1/el2_sysregs_context_save/restore(s)` copy a register group between the hardware and `kernel_pcpu_context[s]`. They reach the context through `cm_get_world_context_extra(s)`. The EL2 variants consult SCR_EL3.EEL2 for the Secure world. |
| World/process context model | `src/arch/arm/include/context_mgmt.h`, `cpu_data.h` | `kernel_percpu_data[c].world_process[s]` points at `perworld_data[s]`, whose `extra` points at `kernel_pcpu_context[s]`. |
| Per-CPU directory | `cpu_data.h`, `cpu_data_array.c` | One `pcpu_data` per core. The world data, the register contexts and `initserver_data` are single globals commented "single core", yet every core uses them. |
| Exception priority arbitration | `src/arch/arm/include/exp_desc.h` | A per-core bitmap stack of active priority levels. Only the types and `EXP_PRI_TO_IDX` are in the repository. |
| AArch32 context management | `src/arch/arm/kernel/aarch32/runtime/context_mgmt.c` | The same protocol for AArch32. |
| Boot, platform, MMU, panic | `bootstrap.c`, `qemu_bl1_setup.c`, `mmu.c`, `assert.c`, `common*.h` | The call sequence, console, page tables, the fatal path and the memory layout. |

The parts interact through memory shared by all cores:

- `perworld_data[s]` and `kernel_pcpu_context[s]` are zeroed by every
  core's init.
- `initserver_data.base.mode` is OR-ed by every core. `setup_el*_context()`
  reads it back to choose the security state.
- A core's init ends in a save through `extra`, so another core's
  `zeromem` can run between the link and the use.

## Modules

`ContextMgmt.tla` models the boot of every core and, on AArch64, the init
protocol and the engine, for a set of `Cores`. The build switches are
CONSTANTS: `RunInCurrent`, `AArch32Regs` and `SEL2Present`. `Builds` is the
set of builds a run explores. The variable `build` is chosen from it by
`Init` and never changes, so one run can cover several builds.
`RuntimeRebind` is a model switch. When it is TRUE, runtime services may
call the `cm_set_world_context*()` setters. The two-core init-race runs set it
FALSE, so that their cores bind only what `cpu_arch_setup()` binds.

**State.**

- `pc[c]`: the statement core `c` is at.
- `layout` and `mmu[c]`: the static `kernel_ram_layout` that every core's
  `early_platform_setup()` stores, and the extent each core's
  `plat_arch_setup()` maps from it.
- Pointers are records `Ptr(array, index)`, and `NULL` is one of them.
  - `worldProcess[c][s]` is `NULL` or `Ptr("perworld_data", s)`.
  - `extra[i]` is `perworld_data[i].extra`: `NULL` or
    `Ptr("kernel_pcpu_context", s)`.
  - `cm_get_world_context` and `cm_get_world_context_extra` follow the
    chain as the header does, and the engine indexes `ctx` with the
    pointer it reaches.
- `ctx[s][g]` and `hw[c][g]`: register groups as tags. The tags are
  `Reset`, `Base` (the init baseline), `Zero`, `Garbage`, or a value of
  `Vals` written by software.
- `scrEL3[c]`: the SCR bits the engine reads.
- `initMode`, and `modeRead[c]`, the value a core loaded for its
  `mode |=`: the integer mode word. The `BIT()` and `CTZL()` arithmetic is
  computed on it, so the bit-value versus bit-number confusion is kept
  exactly.
- `initSpsr`.
- `call[c]`: the arguments of the save/restore in progress.
- Three ghosts:
  - `programmed[c]`: the register groups the init wrote, in order;
  - `saved[c][l][s]`: the last value core `c` saved;
  - `absentUse`: set when a save/restore has gone through an absent context.

**Actions.**

- `EarlyPlatformSetup` and `PlatArchSetup` are the first two calls of
  `bootstrap_kernel()` (`bootstrap.c`, `qemu_bl1_setup.c`). The store of
  the layout's base and size is one step, and the MMU configuration that
  reads it is another.
- `CheckAArch32`, `ZeroWorld`, `LinkExtra`, `BindWorld`, `ZeroContext`,
  `SeedInitServer` and `SeedInitServerWrite` are the statements of
  `cpu_arch_setup()` that touch shared memory (lines 67-149). Each is one
  step, so the steps of different cores interleave. Line 146's `mode |=`
  is a load and a store.
- `Setup` is line 151 and `NextSetup` is line 152. They run `SetupEL3`,
  `SetupEL2` or `SetupEL1` as the build's `cpu_ops` selects (`CpuOps`,
  lines 79-127).
- `NextSetup` faults when the pointer is NULL, because the code calls it
  unchecked.
- The setup functions end in a call of the engine, as the code does.
  `SetupEL3` is the baseline writes (`EL3Baseline`, lines 207-331), then
  `ScrEL3`, then `PopulateEL3State` (lines 473-486). A security state that
  is neither Secure nor Non-Secure panics after the baseline writes, as
  line 470 does. `SetupEL2` writes its baseline (`EL2Baseline`) before it
  calls the engine.
- The fatal path. `panic` (in `debug.h`, not under `src/`) and `__assert`
  (`assert.c`) move the core to `panic`, where it stays, because
  `plat_panic_handler()` never returns. The boot, setup and engine sites
  call them: the AArch32-registers check at line 75, line 470, and the
  engine's asserts at lines 795, 817, 837 and 847.
- `SysregsContextSave` and `SysregsContextRestore` are the four engine
  functions:
  - an EL2 call below EL3 faults, because `read_scr` is undefined there;
  - a Secure EL2 call without EEL2 returns;
  - a NULL `world_process` is undefined behaviour, modelled as a fault or
    a return through a junk context;
  - an unlinked `extra` panics on the assert;
  - otherwise the group is copied.
- At runtime a core may write its registers (`WriteRegs`, which stands for
  the software running there), call the engine (`CallSysregs`), or, with
  `RuntimeRebind`, call the setters.
  - `SetWorldContext` and `SetWorldContextByIndex` bind or unbind a world
    on the calling core or on core `d` (`cm_set_world_context` and
    `_by_index`, through `set_cpu_data(_by_index)`, `SetWorldProcess`).
  - `SetWorldContextExtra` and `SetWorldContextExtraByIndex` store `extra`
    through a core's `world_process` (`SetExtraThrough`). That store lands
    in the shared `perworld_data[s]`, and through a NULL pointer it faults.

`MC_ContextMgmt.tla` gives the model values: cores `c1, c2`, values `v1, v2`,
the sets of builds, and the symmetry over cores.

`CpuData.tla` holds what both kernels share from `cpu_data.h`: the security
states, the process-mode bit numbers, `get_cpu_context_index()`, `BIT()`,
`CTZL()` and the mask `SecBits` that the setup functions apply to the mode
word.

`ContextMgmt32.tla` models the AArch32 file in the same way. It has the same
init steps (`ZeroWorld`, `LinkExtra`, `BindWorld`, `ZeroContext`,
`SeedInitServer`, `Setup`, `NextSetup`, lines 118-150), with the build
selection of lines 68-116 in `CpuOps32`. There is no save/restore engine.
Instead, `setup_el3_context()` writes `CTX_SCR` and `CTX_NS_SCTLR` into the
shared `kernel_pcpu_context[s]` (`ctx`), and `setup_el1_context()` later loads
HSCTLR from that `CTX_NS_SCTLR` (`SetupEL1`, lines 459-478). Its `build`
and `runInCurrent` are also chosen by `Init`. `scr[c]` holds
the SCR bits `SIF`, `NS` and `HCE`. `virtExt[c]` is the
`GET_VIRT_EXT(read_id_pfr1())` test of each core, chosen in `Init`.

The file does not compile as written. Each broken line is modelled by what it
evidently does:

- line 160 declares a variable twice;
- lines 298 and 307 have unbalanced parentheses;
- line 310 calls `write_scr_el3`.

`spsr_x` (line 167) is never written by `cpu_arch_setup()`, so the HCE test of
line 307 reads 0 (`SpsrX`).

**Exception priority arbitration.**

- `ExpDesc.tla` is the constant part of `exp_desc.h`: `EXP_PRI_TO_IDX` and
  the descriptor tags.
- The ASSUME of `ExpDesc` checks `EXP_PRI_TO_IDX` against a reference
  definition: the band of width `2^(7-bits)` that the 7 lower bits fall in.
  It covers every 8-bit priority and every width of 1 to 7 bits. TLC
  evaluates it at the start of every priority run, and a macro that does not
  mask bit 7 fails it.
- `ExpPriority.tla` is one PE's `pe_exp_data_t.active_pri_bits`:
  - the 32-bit bitmap is indexed by `EXP_PRI_TO_IDX`. The shift
    `1U << idx` is in `exp_activate_priority`, which is not in `src/`, and
    with the at most 5 platform bits that `exp_desc.h` allows (lines 43-46)
    the index stays below 32;
  - `desc` is the descriptor table built by `EXP_PRI_DESC`;
  - the operations `exp_activate/deactivate_priority`,
    `exp_register_priority_handler` and `exp_allow_ns_preemption` follow spec
    4.5, because their code is not in `src/`;
  - the highest active priority is the lowest set bit (`CTZL`);
  - the interrupt dispatcher is the environment. An activation preempts only
    when it is at least as high as the innermost handler, and `nest` is the
    stack of handlers in progress.
- `MC_ExpPriority.tla` gives priority sets for 2 and 5 platform bits. Only `TypeOK` is
  checked: every operation that changes the bitmap is modelled from the
  spec, so a deeper property would check the spec against itself.

## Runs

Every run uses `CHECK_DEADLOCK FALSE`:

- a core that panics or faults really stops;
- boot ends in the `run` state;
- a PE whose priority operation took the fatal path stops.

| Run | Bounds | Checks | Result |
|---|---|---|---|
| `monitor_boot` | monitor, 1 core, 1 value, S-EL2 present, runtime setters on | `TypeOK`, `ContextHoldsLastSave`, `InitCompletes` | pass: init completes, and save/restore is a fixed point on one core under any binding and unbinding |
| `resident_init` | all three builds with `ENABLE_RUN_IN_CURRENT`, 1 core | `InitCompletes` | violation: finding 7 |
| `secure_descent` | monitor and hypervisor, 1 core | `DescentLaw` | violation: finding 1 |
| `shared_context` | monitor, 2 cores | `ContextHoldsLastSave` | violation: finding 2 |
| `init_race` | monitor, 2 cores, no runtime setters | `InitNeverAsserts` | violation: finding 3 |
| `absent_context` | monitor, 1 core, runtime setters on | `AbsentContextHalts` | violation: finding 4 |
| `hyp_el2_engine` | hypervisor, 1 core, 1 value, no S-EL2 | `SaveRestoreReturns` | violation: finding 5 |
| `a32_hsctlr_race` | AArch32 monitor, 2 cores | `HsctlrFromContext` | violation: finding 6 |
| `a32_boot` | AArch32, all three builds, 1 core, both values of `ENABLE_RUN_IN_CURRENT` and of the virtualization extensions | `TypeOK`, `HsctlrFromContext` | pass: HSCTLR is seeded from the SCTLR that `setup_el3_context()` put in the context |
| `a32_secure_ns` | AArch32 monitor, 1 core | `SecureWorldEntersSecure` | violation: finding 8 |
| `exp_priority` | 5 priority bits, priorities 0x00, 0x08, 0x48, invalid 0x20, 2 handlers | `TypeOK` | pass: the descriptor table and the bitmap stay well formed, fatal paths and re-registration included |
| `extra_setter_scope` | monitor, 2 cores, runtime setters on, no register writes | `ExtraSetterCallerOnly` | violation: finding 9 |

In ContextMgmt32, `ENABLE_RUN_IN_CURRENT` is the variable `runInCurrent`.
Init chooses it and nothing changes it, so one run explores both builds. In
both modules `build` works the same way.

`DescentLaw` states spec section 8 for both directions. A Secure image is
never given EL2 or EL1 state, and a Non-Secure, non-resident image is given
its EL2 baseline. The monitor build breaks the first half at line 762. The
hypervisor build breaks the second half at line 502, where the same
bit-value comparison skips the EL2 baseline.

### Findings

1. **Inverted descent guard** (`context_mgmt.c:762`).
   `security_state = mode & mask` is a bit value, but it is compared with
   `NON_SECURE`, a bit number. The Secure image of the monitor build
   therefore gets SCTLR_EL2 written and its EL1 state saved. The same
   comparison appears at line 502, where it skips the hypervisor build's EL2
   baseline. `DescentLaw` catches both, and `secure_descent` explores both
   builds.
2. **Shared register context** (`cpu_data_array.c:19`). Two cores share
   `kernel_pcpu_context[s]`, so one core's boot or save overwrites what the
   other saved.
3. **Init race** (`context_mgmt.c:131`). One core zeroes
   `perworld_data[s]` while the other is inside the save that
   `setup_el1_context()` makes from `next_setup`. The assert then halts the
   second core. The run keeps the runtime setters off, because with them a
   service can bind a world it never linked, and that halt is the intended
   fatal path.
4. **Dereference before the check** (`context_mgmt.h:26`). The
   `world_process` pointer is dereferenced before the check, so an unbound
   state is undefined behaviour rather than the fatal path.
5. **SCR_EL3 read at EL2** (`context_mgmt.c:784`). The EL2 save and
   restore read SCR_EL3. That read is undefined when the kernel runs at EL2,
   so in the hypervisor build no EL2 save or restore ever returns.
6. **AArch32 HSCTLR race** (`aarch32/.../context_mgmt.c:131`, read at 463).
   A second core can zero the shared context between the first core's
   `setup_el3_context()`, which writes `CTX_NS_SCTLR`, and its
   `setup_el1_context()`, which reads it. HSCTLR is then programmed from
   zero.
7. **NULL `next_setup` called** (`context_mgmt.c:152`). `cpu_arch_setup()`
   calls `cpu_ops.next_setup()` without a NULL check. The resident monitor
   and hypervisor builds (lines 86, 108) and the supervisor build (line 119)
   leave it NULL, so the core branches to address 0 and never returns.
   Spec 4.3 says the protocol reaches DONE in every configuration.
   `InitCompletes` holds in `monitor_boot` and fails in `resident_init`.
   AArch32 has the same call at line 150.
8. **AArch32 Secure image given SCR.NS** (`aarch32/.../context_mgmt.c:278`).
   `setup_el3_context()` compares the bit value `mode & mask` with `SECURE`
   (0), so its `security_state != SECURE` branch runs for the Secure image
   too. That branch sets NS in the Secure context's `CTX_SCR` and in the
   core's SCR, and the Secure image would be entered Non-Secure.

9. **`extra` setter not per core** (`context_mgmt.h:52`).
   `cm_set_world_context_extra()` is commented as acting "for the calling
   CPU", but it stores through `world_process[s]` into `perworld_data[s]`,
   which every core binds. In the trace, core c1 boots, binds core c2's
   Secure world with `cm_set_world_context_by_index()`, then calls
   `cm_set_world_context_extra(NULL, SECURE)`. Core c2's
   `cm_get_world_context_extra(SECURE)` then changes from
   `kernel_pcpu_context[0]` to NULL. `ExtraSetterCallerOnly` is an action
   property: a `SetWorldContextExtra` step of core c leaves `ExtraSeenBy`
   of every other core unchanged.

### Why the bounds are enough

- **Cores.** Every sharing hazard involves two cores, so two cores suffice.
  The passing fixed-point runs use one core, because with two cores the
  property is broken by design (finding 2).
- **Values.** One written value `v1` is enough. It differs from the init
  tags `Base` and `Zero`, so a save of the baseline followed by a write of
  `v1` tells "my save" from "a later write". Two values multiply the
  runtime interleavings of `monitor_boot` by three and add no case.
- **Calls.** The runtime calls are unbounded, but the state space is finite
  because the registers are tags.
- **Priorities.** With 5 bits, the three valid priorities (indices 0, 2
  and 18, with unused indices between them) allow a nesting of depth 3,
  and one invalid priority (index 8) covers the fatal path. Two handlers
  make a second registration of a slot, with a different handler, happen.
  A fourth priority makes the run take about seven minutes and adds no
  new ordering, since the nesting is already three deep. The
  dispatcher may deactivate any priority, so every out-of-order and double
  deactivation is tried. Bit 31 of the bitmap is left unused, because TLC's
  integers are signed 32-bit.
- **Build switches.** `resident_init` and `a32_boot` explore all three
  builds in one run, and `secure_descent` explores both descending AArch64
  builds. Together, the runs cover the resident variant and both values of
  `AArch32Regs`.
- **Runtime setters.** The setters may store NULL or the pointer the init
  stores. This covers unbinding, rebinding, and a store through NULL. They
  are on in `monitor_boot`, `absent_context` and `extra_setter_scope`, and
  off in the other runs, whose two-core hazards come from the init steps
  alone. `extra_setter_scope` has two cores with the setters on. With one
  written value, two cores with the setters on reach more than 10^8
  states, so there is no passing two-core run with them. TLC finds the
  short counterexample of `extra_setter_scope` breadth-first.

### Fairness

Each core has weak fairness on its init and engine steps (`InitStep`). Boot
code and the engine never wait on anything, so an enabled step of a running
core is eventually taken. Runtime calls are not fair, because software need
not call anything. `SaveRestoreReturns`, checked to fail in
`hyp_el2_engine`, rests on the same fairness: an engine step that is enabled
is eventually taken. The AArch32 and priority modules check only safety, so
they assume no fairness.

### Mutants

Each property of a passing run is shown to be breakable by a plausible bug
in the code:

| Mutant | Property that catches it |
|---|---|
| restore copying the wrong way (`RestoreCopy`) | `ContextHoldsLastSave` |
| dropped `extra` link (`LinkExtra`) | `InitCompletes` |
| bind of the wrong pointer (`BindWorld`) | `TypeOK` of `monitor_boot` |
| bind of the wrong pointer, AArch32 (`BindWorld`) | `TypeOK` of `a32_boot` |
| `CTX_NS_SCTLR` not written (`SetupEL3`) | `HsctlrFromContext` |
| activation without the validity check (`Activate`) | `TypeOK` of `exp_priority` |

## Not modelled

- **The bodies of the priority operations.** `exp_init`,
  `exp_activate/deactivate_priority`, `exp_register_priority_handler` and
  `exp_allow_ns_preemption` are declared in `exp_desc.h` but implemented
  outside `src/`. They are modelled from spec 4.5 and marked so in the map.
  The GIC priority masks (`init_pri_mask`, `ns_pri_mask`) and
  `exp_is_ns_preemption_allowed`, which only reads, are left out.
- **The AArch32 getters.** `cm_init` is empty. `cm_get_curr_stack` and
  `cm_get_curr_process` only read, and the latter names a field that
  `pcpu_data` does not have.
- **The non-atomic `initserver_data` mode update on AArch32** (line 134).
  On AArch64 it is a load and a store, but every core ORs the same bits,
  so no interleaving loses or adds one, and no property is stated about
  it. The AArch32 update is kept as one step for that reason. The same
  holds for the unsynchronised stores to `kernel_ram_layout`
  (`qemu_bl1_setup.c` lines 34-35): every core stores the same constants
  before its own read.
- **The `_base` accessors and the `_by_index` getters.**
  `cm_set_world_context_base()` assigns a `void *` to a `process_data_t` and
  does not compile. The getters only read, and no code calls the
  `_by_index` ones.
- **TPIDR installation** (`init_cpu_data_ptr`), which is not under `src/`.
  Each core's `_cpu_data()` is taken to be its own `kernel_percpu_data`
  entry.
- **Register contents and the SCR bits the code never reads.** Dead
  branches are kept as `IF` arms:
  - the invalid-state panic at lines 468-470;
  - the programming branch of `setup_el2_context()` on both kernels.
- **Dead code in the AArch64 setup.**
  - The EL2 branch of the monitor build's build selection (lines 89-92)
    is dead, because line 81 sets `security_state = SECURE` just before.
    Spec 8 expects a Non-Secure descent there, so this is a divergence.
    It is kept as the model's `IF` arm. It has no run of its own, because
    `DescentLaw` already shows the monitor build's descent is wrong
    (finding 1).
  - The "S-EL2 can not be used in AArch32" panic (line 439) is
    unreachable, because line 139 always builds an `SPSR_64`.
- **Constants and the linker layout.** `common.h` and `common.ld.h` are
  constants, prototypes and linker-script macros. Only the Trusted RAM base
  and size are modelled (`layout`, `mmu`). `setup_page_tables()`
  (`mmu.c`) has no caller.
- **Platform I/O, the page-table builder and the printing in `assert.c`.**
  The console is output only. `qemu_configure_mmu_el3()`, `mmap_add()` and
  `init_xlat_tables()` are not under `src/`, so the MMU is modelled as the
  extent it maps. `kernel_setup()` and `init_process_setup()` are empty.
