# TLA+ models of Hyra's amd64 pmap layer

This directory holds TLA+ models of the amd64 physical-map layer of the Hyra kernel,
`src/sys/arch/amd64/amd64/pmap.c`, together with TLC configurations that check them.
It also records an inventory of the remaining sources: `src/sys/dev/pci/pci.c`,
`src/sys/include/dev/acpi/tables.h` and `src/sys/include/lib/string.h`.

## 1. Inventory

### Components

| Component | Source | State | Operations |
|---|---|---|---|
| Page-table walker | pmap.c 117–213 | 4-level radix tree of 512-entry tables in physical frames | `pmap_get_level_index`, `pmap_extract` (test `PTE_P`, else allocate + zero + install), `pmap_get_tbl` (levels 4,3,2) |
| Mapping operations | pmap.c 99–115, 236–302 | leaf entries | `pmap_map` (prot→PTE flags, `pa \| flags`), `pmap_unmap` (write 0), `pmap_set_cache` (PCD/PWT read-modify-write), all ending in `pmap_flush` |
| Address spaces | pmap.c 304–380 | root frames, each core's CR3 | `pmap_create_vas` (new root, upper half copied), `pmap_switch_vas`, `pmap_free_vas` (frees the root only), `pmap_read_vas` |
| Invalidation coordinator | pmap.c 60–97, 215–234, 382–389 | per-core `tlb_flush_ptr` slot, LAPIC pending/in-service bits, per-core TLB | `pmap_flush`, `tlb_shootdown` (store VA into every other core's slot, then IPI to all others), `tlb_shootdown_isr` (flush slot, clear slot, EOI); `pmap_init`'s vector install is assumed, not modelled |
| PCI | pci.c | device list, config space | CAM read/write, bus scan, `pci_get_device`, `pci_map_bar` |
| ACPI tables | tables.h | packed struct layouts only | none |
| string.h | string.h | prototypes only | none |

### How the parts interact

Every leaf write (`pmap_modify_tbl`, `pmap_set_cache`) ends in `pmap_flush`. On a
multiprocessor, `pmap_flush` calls `tlb_shootdown`, which hands the VA to every other
core through a single-word slot and a broadcast IPI. Address spaces share the kernel
half only through the root entries that `pmap_create_vas` copied.

There is no lock anywhere. The comment at line 239 asks for serialisation, and
spec §5 says per-space locking is required of callers.

### Hard behaviours

- Several cores may walk and allocate in the same space at once.
- The slot is a single word, overwritten by every shootdown and cleared by the
  handler *after* it flushes.
- IPIs coalesce in the LAPIC pending bit.
- `pmap_flush` does not wait for any acknowledgement.
- Frame exhaustion during a walk halts the kernel (`__assert`).
- `pmap_set_cache` is a load/store pair.
- Flags pass through a `uint32_t` in `pmap_map`.

### Correctness properties

- Mapping calls behave as atomic updates of their own VA in their own space.
- A new space has an empty lower half.
- After all shootdowns complete, no core translates through a superseded entry.
- A core never sees a stale entry for a write it made itself.
- `pmap_map` without `PROT_EXEC` yields a no-execute entry.
- `pmap_set_cache` on an absent leaf reports mapping-not-found.
- Every frame is either free or reachable.

## 2. Modules

| Module | Models | Variables ↔ code |
|---|---|---|
| `PmapAbstract` | what the mapping ops promise | `trans[r][va]` translation, `spaces` live roots, `call[c]` call in progress |
| `PmapTables` | walker, mapping ops, address spaces | `mem` frames→tables, `free` (vm page-frame allocator), `vases`, `cr3`, `panicked`; per core `pc` (idle/extract/alloc/leaf/store), call arguments, `lvl`/`tbl` (walk position), `loaded` (set_cache's load), `result` |
| `MCPmapTables` | constants for TLC | three VAs (two lower, one upper-half), two protections |
| `TlbShootdown` | leaf write + `pmap_flush` + `tlb_shootdown` + ISR | `pte[va]`, `tlb[d][va]`, `flushPtr[d]` (ci->tlb_flush_ptr), `irr`/`isr` (LAPIC), requester `pc` (idle/shootdown/flush), `idx` (cpu_get loop index), `lastWriter` (history) |
| `MCTlbShootdown` | constants for TLC | |
| `Pci` | pci.c: scan, lookup, BAR sizing, command register | `cfg[a][off]` config registers (0x4 and the six BARs), `deviceList` (device_list), `pos` (scan loop position), `halted` (failed `__assert`), `busMap` (arguments given to `bus_map`), `requested` (history of pci_set_cmdreg bits) |
| `MCPci` | constants for TLC | three functions in two slots, BARs of memory, I/O, prefetchable and unimplemented kinds |

### PmapTables: how actions correspond to the code

Each action is one step that another core can interleave with:

- `Extract` is the `PTE_P` test together with its three outcomes.
- `ExtractAlloc` is allocate, zero and blind install.
- `Leaf` is the leaf write of `pmap_modify_tbl`, the unknown-type return of
  `pmap_set_cache`, or the load of `pmap_set_cache`.
- `SetCacheStore` is the store of `pmap_set_cache`.
- `PmapCreateVas`, `PmapSwitchVas` and `PmapFreeVas` are single steps. They touch
  only the caller's own frame or CR3.

What is abstracted:

- The 9-bit index slices are modelled by the small set `Idx`.
- `UpperIdx` stands for root indices 256–511.

The constant `CallerLocks` adds the caller discipline that spec §5 requires. The code has a `vas.lock` field but never takes it. With `CallerLocks`, a mapping call starts on a space only when no other core is inside a mapping call on that same space (`SpaceFree`).

`PmapTables` refines `PmapAbstract` on lower-half VAs:

- `AbsTrans` is the hardware walk of each live root.
- A call is visible from its first step until it returns.

### TlbShootdown: how actions correspond to the code

| Action | Code |
|---|---|
| `ModifyLeaf` | `tbl[idx] = val` |
| `ShootdownArm` | one iteration of the `cpu_get` loop |
| `ShootdownIpi` | `lapic_send_ipi(... OTHERS ...)` |
| `LocalFlush` | the local `tlb_flush` and return |
| `TlbShootdownIsr` | the handler entry through `tlb_flush(ci->tlb_flush_ptr)` |
| `IsrEoi` | `ci->tlb_flush_ptr = 0` and EOI |
| `TlbFill` / `TlbEvict` | what the hardware TLB may do at any time |

`NumCpus` cores run and receive the all-others IPI; `cpu_count()` and `cpu_get`
see only the first `NumListed` (the checked cfgs set `NumListed = NumCpus`; with
`NumListed = 1` TLC shows the second core keeping an unmapped translation, as the
XXX comment at line 226 admits). `ModifyLeaf` takes the shootdown branch only when
`NumListed > 1` (line 229), and the arm loop stops after core `NumListed`.

If a second IPI arrives while the handler is in service, it sets the pending bit
again. The handler runs once more after EOI.

### Pci: how actions correspond to the code

- `PciRegisterDevice` is one iteration of the loops of `pci_init` and `pci_scan_bus`, that is, one call of `pci_register_device`.
  - It covers the existence test, a `dynalloc` that may fail into the `__assert`, `pci_set_device_info`, and `TAILQ_INSERT_TAIL`.
- `PciMapBar` is all of `pci_map_bar`: the bad-number `-EINVAL` return, and the read, all-ones write, read-back, restore and `bus_map`.
- `PciSetCmdreg` is the read-or-write of `pci_set_cmdreg`.
- Reads go through `PciReadl`, the dispatch of `pci_readl` on `access_method`, which is always `PCI_ACCESS_CAM`.
- `PciGetDevice` is the `TAILQ_FOREACH` loop of `pci_get_device`, written as a recursive operator.
- Configuration writes go through `CamWrite`. It models `outb`: only the low `Lane` bits of the register are written. The register then applies its read-only bits: the BAR type bits, and the bits below the BAR size.

What is abstracted:

- Registers are scaled to 16 bits, with an 8-bit lane (32 and 8 in the hardware). Scaling keeps the relation between the lane and the register.
- Calls run one at a time. Every caller in the repository is boot-time code on one thread.

## 3. Runs

| Run | Cfg | Expect | Shows |
|---|---|---|---|
| tlb_shootdown | TlbShootdown.cfg | pass | 2 cores, both requesters, 2 VAs, 2 ops each: no own-stale entry once a call has returned (`ProgramOrderCoherence`); every armed slot is eventually cleared (`SlotEventuallyCleared`) |
| tlb_coherence | TlbShootdown_Coherence.cfg | violation | 1 requester, 1 VA: a slot re-armed while the ISR is in service is cleared by that ISR; the next IPI runs the handler on the empty slot and flushes nothing; the remote core keeps the old entry when everything is quiet |
| pmap_tables | PmapTables.cfg | pass | 1 core, 6 frames, 5 calls: `AbsSpec` holds, including creates that run out of frames and the walk that panics; `CallsReturn`: every mapping call returns unless an allocating walk found no frame and the `__assert` halted (a walk that waited for a frame instead would hang, as its mutant shows) |
| pmap_concurrent | PmapTables_Concurrent.cfg | violation | 2 cores map in one space: the second allocation of the same level-3 entry orphans the first core's subtree, so its successful map vanishes |
| pmap_noexec | PmapTables_NoExec.cfg | violation | `pmap_map` without `PROT_EXEC` writes an entry without NX (uint32 truncation) |
| pmap_setcache | PmapTables_SetCache.cfg | violation | set_cache on a VA sharing the leaf table of a mapped VA returns 0 |
| pmap_locked | PmapTables_Locked.cfg | pass | 2 cores, 2 calls each, lower-half VAs, callers holding the per-space lock (`CallerLocks`): `AbsSpec` and `InstallIntoAbsent` hold — the lock spec 5 asks for makes the lower half correct |
| pmap_kernel_half | PmapTables_KernelHalf.cfg | violation | the same lock discipline on two kernel-half VAs: core 1 is walking the kernel space after installing its level-3 table, core 2 creates a space (copying that entry) and maps the same VA in it; both allocate the same level-2 entry of the shared level-3 table, and one table is overwritten |
| pmap_leak | PmapTables_Leak.cfg | violation | create a space, walk a lower VA (allocating three tables), free it: the three tables are allocated and reachable from no live root (`NoLeakedTables`) |
| pci | Pci.cfg | pass | at every point of the scan, and when a failed `dynalloc` halts it part-way, `device_list` is exactly the present functions already passed, in scan order (so the finished scan lists every one once); the cached BAR values still match the BARs after sizing; `pci_get_device` equals the reference "first device matching every selected field" for every lookup and lookup_type |
| pci_cmdreg | Pci_CmdBitsSet.cfg | violation | setting bit 10 (interrupt disable) of the command register has no effect: `outb` writes only bits 0..7 |
| pci_map_bar | Pci_MapBarRegion.cfg | violation | a 4 KiB BAR at 0xE000 is mapped with size 8 KiB: the all-ones write reached only the low byte, so `~readback + 1` is computed from the address |

### Bounds

`MaxOps` bounds each core's calls.

- For shootdowns, two operations per core are enough for every pattern in the
  hazards:
  - re-arm during service;
  - overwrite by another requester;
  - coalesced IPIs.
- The violation needs only one requester.
- For the tables, six frames with five calls let a map build a three-table lower
  path and an upper path. The frames can then run out, which reaches both the
  `-1` return of `pmap_create_vas` and the `__assert` panic.

The mutants in PROJECT.json confirm that each passing property is sensitive to the
code it is about.

For PCI, the two slots of two functions include:

- an empty function between two present ones;
- a present last function, so a loop bound off by one is visible.

The three BAR kinds make the byte-wide write visible: the memory BAR is larger than the lane, and the I/O BAR is smaller than it. The three driver calls allow sizing followed by a lookup, and two command-register calls on one device.

For the two-core locked run, each core makes two calls with one protection. That is enough for one core to create a space while the other maps. It takes about a minute.

### Fairness

- `TlbShootdown` assumes weak fairness of each core's requester steps and handler
  steps. A core inside `pmap_flush` does not block. A pending interrupt whose
  vector is not in service is taken, because nothing in pmap masks it.
- No fairness is assumed for callers or for TLB fill/evict.
- `PmapTables` (`FairSpec`, used by `pmap_tables`) assumes weak fairness of each
  core's walk and leaf steps (`Extract`, `ExtractAlloc`, `Leaf`,
  `SetCacheStore`). Spec 5 says mapping operations run to completion on the
  calling core and never suspend, and nothing in `pmap_extract` or
  `pmap_modify_tbl` waits. Callers starting calls get no fairness. The other
  PmapTables runs check safety only and use `Spec`.

## 4. Not modelled, and why

- The `tlb_flush(0)` of an empty slot is treated as flushing no mapped VA.
- The `intr_info` registration and `count` statistic are not modelled. They do not
  affect translation. The `intr_info_alloc` the handler makes on its first run,
  unchecked for NULL, is listed as a hazard.
- `pmap_init` is not modelled: it only writes the IDT descriptor of SYSVEC_TLB,
  and `TlbShootdown` assumes from its initial state on that the vector reaches
  `tlb_shootdown_isr`.
- `cr3_flags` and `use_l5_paging` are not modelled.
- Cores joining the CPU list while the system runs are not modelled. `TlbShootdown`
  fixes the listed cores as `1..NumListed` of the `NumCpus` running ones.
- PCI:
  - The status half of the dword at 0x4, `prog_if` and `irq_line` are not kept. No property reads them.
  - The upper half of 64-bit BARs is not kept. `pci_map_bar` never reads it, which is itself noted as a hazard.
  - The access-method panic in `pci_readl`/`pci_writel` is not modelled. `access_method` is a constant `PCI_ACCESS_CAM`, so the panic is unreachable.
- tables.h and string.h have no behaviour to model.

## 5. Open work

1. Done: frame accounting (`NoLeakedTables`), PCI (`Pci`), frame exhaustion as
   liveness (`CallsReturn`), the partly built device list (`ScanFindsAll`).
2. The upper-half propagation gap (line 334) is not a property: spec 3 and 9 say
   later kernel-half changes need not propagate, so no run claims they do.
3. A module composing the `PmapTables` leaf write with `TlbShootdown` would
   repeat `QuiescentCoherence`, which the slot-clear race already breaks with
   one requester; it is worth building once that race is fixed.
4. `pmap_get_level_index` stays the projection `v[level]`: its shifts by 30 and
   39 exceed the 32-bit integers TLC evaluates, so the bit formula cannot be
   checked at its real width.
5. Two cores interleaving the CF8/CFC port pair, if a concurrent caller of the
   PCI code appears.
