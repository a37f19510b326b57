---------------------------- MODULE TlbShootdown ----------------------------
(***************************************************************************)
(* Cross-CPU TLB invalidation of src/sys/arch/amd64/amd64/pmap.c.          *)
(*                                                                         *)
(* A requester core writes a leaf entry (the last statement of             *)
(* pmap_modify_tbl, i.e. pmap_map / pmap_unmap, or the update of           *)
(* pmap_set_cache), then runs pmap_flush: tlb_shootdown stores the VA in   *)
(* every other listed core's ci->tlb_flush_ptr, one core per loop          *)
(* iteration, sends one IPI to all other cores, and the requester flushes  *)
(* its own TLB entry.  Each receiving core runs tlb_shootdown_isr, which   *)
(* flushes the VA found in its own slot and then clears the slot.          *)
(*                                                                         *)
(* The radix-tree walk is abstracted away here (it is the subject of       *)
(* PmapTables): the page table is the function pte from VAs to leaf        *)
(* values.  The TLB of each core may be filled from the page table and     *)
(* may evict entries at any moment, as the hardware does.  The local APIC  *)
(* keeps one pending bit (IRR) and one in-service bit (ISR) for the        *)
(* shootdown vector, so an IPI that arrives while one is already pending   *)
(* is merged with it.                                                      *)
(***************************************************************************)
EXTENDS Naturals, FiniteSets

CONSTANTS
    NumCpus,     \* the cores that run, and that IPI_SHORTHAND_OTHERS reaches
    NumListed,   \* cpu_count(): cores 1..NumListed are listed by cpu_get(idx)
    Requesters,  \* cores that call pmap_map / pmap_unmap / pmap_set_cache
    VAs,         \* virtual addresses whose leaf entries are changed
    Vals,        \* present leaf values (frame | flags) that callers write
    Absent,      \* a non-present leaf entry, or no cached translation
    NoVA,        \* the empty sentinel 0 of ci->tlb_flush_ptr
    MaxOps       \* bound on the leaf writes of each requester

Cpus == 1..NumCpus

ASSUME
    /\ NumCpus \in Nat \ {0}
    /\ NumListed \in 1..NumCpus
    /\ Requesters \subseteq Cpus
    /\ Absent \notin Vals
    /\ NoVA \notin VAs
    /\ MaxOps \in Nat

VARIABLES
    pte,        \* pte[va]: the leaf entry of va
    tlb,        \* tlb[c][va]: the translation of va cached by core c
    flushPtr,   \* flushPtr[c]: ci->tlb_flush_ptr of core c
    irr,        \* irr[c]: SYSVEC_TLB is pending at core c's local APIC
    isr,        \* isr[c]: core c is inside tlb_shootdown_isr (before EOI)
    pc,         \* pc[c]: where core c is in pmap_modify_tbl / pmap_flush
    opVa,       \* opVa[c]: the va of core c's current operation
    idx,        \* idx[c]: the loop index of tlb_shootdown on core c
    ops,        \* ops[c]: leaf writes core c has made so far
    lastWriter  \* history: lastWriter[va] is the core of the latest write

vars == <<pte, tlb, flushPtr, irr, isr,
          pc, opVa, idx, ops, lastWriter>>

apic == <<irr, isr>>
requester == <<pc, opVa, idx, ops>>

TypeOK ==
    /\ pte \in [VAs -> Vals \cup {Absent}]
    /\ tlb \in [Cpus -> [VAs -> Vals \cup {Absent}]]
    /\ flushPtr \in [Cpus -> VAs \cup {NoVA}]
    /\ irr \in [Cpus -> BOOLEAN]
    /\ isr \in [Cpus -> BOOLEAN]
    /\ pc \in [Cpus -> {"idle", "shootdown", "flush"}]
    /\ opVa \in [Cpus -> VAs \cup {NoVA}]
    /\ idx \in [Cpus -> 1..NumCpus + 1]
    /\ ops \in [Cpus -> 0..MaxOps]
    /\ lastWriter \in [VAs -> Cpus \cup {0}]

\* The boot state: nothing mapped, every slot empty, no IPI in flight.
Init ==
    /\ pte = [va \in VAs |-> Absent]
    /\ tlb = [c \in Cpus |-> [va \in VAs |-> Absent]]
    /\ flushPtr = [c \in Cpus |-> NoVA]
    /\ irr = [c \in Cpus |-> FALSE]
    /\ isr = [c \in Cpus |-> FALSE]
    /\ pc = [c \in Cpus |-> "idle"]
    /\ opVa = [c \in Cpus |-> NoVA]
    /\ idx = [c \in Cpus |-> 1]
    /\ ops = [c \in Cpus |-> 0]
    /\ lastWriter = [va \in VAs |-> 0]

-----------------------------------------------------------------------------
(* The requester.                                                          *)

\* tbl[pmap_get_level_index(1, va)] = val in pmap_modify_tbl (val is
\* pa | flags for pmap_map, 0 for pmap_unmap), or the flag update of
\* pmap_set_cache; then pmap_flush tests cpu_count() > 1.
ModifyLeaf(c, va, v) ==
    /\ c \in Requesters
    /\ pc[c] = "idle"
    /\ ops[c] < MaxOps
    /\ pte' = [pte EXCEPT ![va] = v]
    /\ pc' = [pc EXCEPT ![c] = IF NumListed > 1 THEN "shootdown" ELSE "flush"]
    /\ opVa' = [opVa EXCEPT ![c] = va]
    /\ idx' = [idx EXCEPT ![c] = 1]
    /\ ops' = [ops EXCEPT ![c] = @ + 1]
    /\ lastWriter' = [lastWriter EXCEPT ![va] = c]
    /\ UNCHANGED <<tlb, flushPtr, apic>>

\* Variant of MoreCpus that reads one entry past the end of the list.
MoreCpusPastEnd(c) == idx[c] <= NumListed + 1

\* cpu_get(idx) # NULL: the loop of tlb_shootdown has a core to visit.
MoreCpus(c) == idx[c] <= NumListed

\* One iteration of the while loop of tlb_shootdown: every core but the
\* caller gets the VA in its ci->tlb_flush_ptr, overwriting what is there.
ShootdownArm(c) ==
    /\ pc[c] = "shootdown"
    /\ MoreCpus(c)
    /\ flushPtr' = IF idx[c] = c THEN flushPtr
                   ELSE [flushPtr EXCEPT ![idx[c]] = opVa[c]]
    /\ idx' = [idx EXCEPT ![c] = @ + 1]
    /\ UNCHANGED <<pte, tlb, apic, pc, opVa, ops, lastWriter>>

\* IPI_SHORTHAND_OTHERS: every core but the sender.
IpiTargets(c) == Cpus \ {c}

\* cpu_get returned NULL: lapic_send_ipi(0, IPI_SHORTHAND_OTHERS,
\* SYSVEC_TLB).  The IPI sets the pending bit of every target; a bit that
\* is already set stays set, so two IPIs may be serviced once.
ShootdownIpi(c) ==
    /\ pc[c] = "shootdown"
    /\ ~MoreCpus(c)
    /\ irr' = [d \in Cpus |-> irr[d] \/ d \in IpiTargets(c)]
    /\ pc' = [pc EXCEPT ![c] = "flush"]
    /\ UNCHANGED <<pte, tlb, flushPtr, isr,
                   opVa, idx, ops, lastWriter>>

\* Variant of LocalFlush that returns without the invlpg.
LocalFlushSkip(c) ==
    /\ pc[c] = "flush"
    /\ pc' = [pc EXCEPT ![c] = "idle"]
    /\ UNCHANGED <<pte, tlb, flushPtr, apic, opVa, idx, ops, lastWriter>>

\* tlb_flush(va) at the end of pmap_flush; the operation returns 0
\* without waiting for the other cores.
LocalFlush(c) ==
    /\ pc[c] = "flush"
    /\ tlb' = [tlb EXCEPT ![c][opVa[c]] = Absent]
    /\ pc' = [pc EXCEPT ![c] = "idle"]
    /\ UNCHANGED <<pte, flushPtr, apic, opVa, idx, ops, lastWriter>>

-----------------------------------------------------------------------------
(* The interrupt handler of each core.                                     *)

\* Delivery of SYSVEC_TLB and the body of tlb_shootdown_isr up to the
\* flush: tlb_flush(ci->tlb_flush_ptr).  The intr_info registration and
\* count before it are not kept: nothing in this layer reads them.  The empty slot 0 flushes no mapped VA.
TlbShootdownIsr(d) ==
    /\ irr[d]
    /\ ~isr[d]
    /\ irr' = [irr EXCEPT ![d] = FALSE]
    /\ isr' = [isr EXCEPT ![d] = TRUE]
    /\ tlb' = IF flushPtr[d] = NoVA THEN tlb
              ELSE [tlb EXCEPT ![d][flushPtr[d]] = Absent]
    /\ UNCHANGED <<pte, flushPtr, requester, lastWriter>>

\* Variant of ClearSlot that leaves the slot as it is.
KeepSlot(d) == flushPtr

\* ci->tlb_flush_ptr = 0, whatever the slot holds by now: possibly a VA
\* that another core stored after the flush.
ClearSlot(d) == [flushPtr EXCEPT ![d] = NoVA]

\* The end of tlb_shootdown_isr: clear the slot, lapic_send_eoi().
IsrEoi(d) ==
    /\ isr[d]
    /\ flushPtr' = ClearSlot(d)
    /\ isr' = [isr EXCEPT ![d] = FALSE]
    /\ UNCHANGED <<pte, tlb, irr, requester, lastWriter>>

-----------------------------------------------------------------------------
(* The translation hardware of each core.                                  *)

\* A page walk caches the present leaf entry of va.
TlbFill(d, va) ==
    /\ pte[va] # Absent
    /\ tlb' = [tlb EXCEPT ![d][va] = pte[va]]
    /\ UNCHANGED <<pte, flushPtr, apic, requester, lastWriter>>

\* The TLB drops an entry on its own.
TlbEvict(d, va) ==
    /\ tlb[d][va] # Absent
    /\ tlb' = [tlb EXCEPT ![d][va] = Absent]
    /\ UNCHANGED <<pte, flushPtr, apic, requester, lastWriter>>

-----------------------------------------------------------------------------
RequesterStep(c) == ShootdownArm(c) \/ ShootdownIpi(c) \/ LocalFlush(c)

HandlerStep(d) == TlbShootdownIsr(d) \/ IsrEoi(d)

Next ==
    \/ \E c \in Cpus, va \in VAs, v \in Vals \cup {Absent} : ModifyLeaf(c, va, v)
    \/ \E c \in Cpus : RequesterStep(c) \/ HandlerStep(c)
    \/ \E d \in Cpus, va \in VAs : TlbFill(d, va) \/ TlbEvict(d, va)

\* A core that has started a mapping operation runs it to the end (it
\* never suspends), and an interrupt that is pending is eventually taken
\* and its handler finishes.  Callers, TLB fills and evictions get no
\* fairness: they may never happen.
Fairness ==
    \A c \in Cpus : WF_vars(RequesterStep(c)) /\ WF_vars(HandlerStep(c))

Spec == Init /\ [][Next]_vars /\ Fairness

-----------------------------------------------------------------------------
(* Properties.                                                             *)

\* Core d caches a translation of va that is no longer the leaf entry.
Stale(d, va) == tlb[d][va] # Absent /\ tlb[d][va] # pte[va]

\* No core is inside pmap_flush, no shootdown IPI is pending or in service.
Quiescent ==
    \A c \in Cpus : pc[c] = "idle" /\ ~irr[c] /\ ~isr[c]

\* Program order (spec section 5): once pmap_map / pmap_unmap /
\* pmap_set_cache has returned on core c, and no other core has written
\* the leaf of va since, core c cannot translate va through the old entry.
ProgramOrderCoherence ==
    \A c \in Cpus, va \in VAs :
        (pc[c] = "idle" /\ lastWriter[va] = c) => ~Stale(c, va)

\* Every VA stored in a core's ci->tlb_flush_ptr is eventually consumed:
\* the slot returns to the empty sentinel.
SlotEventuallyCleared ==
    \A d \in Cpus : (flushPtr[d] # NoVA) ~> (flushPtr[d] = NoVA)

\* The shootdown's purpose (spec section 4.4): once every pmap_flush has
\* returned and every shootdown interrupt has been handled, no core holds
\* a translation older than the page table.
QuiescentCoherence ==
    Quiescent => \A d \in Cpus, va \in VAs : ~Stale(d, va)

=============================================================================
