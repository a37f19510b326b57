----------------------------- MODULE PmapTables -----------------------------
(***************************************************************************)
(* The page-table radix tree of src/sys/arch/amd64/amd64/pmap.c: the      *)
(* walker (pmap_extract, pmap_get_tbl), the mapping operations            *)
(* (pmap_map, pmap_unmap, pmap_set_cache through pmap_modify_tbl) and the *)
(* address-space operations (pmap_create_vas, pmap_switch_vas,            *)
(* pmap_free_vas, pmap_read_vas), run by several cores with no lock.      *)
(*                                                                         *)
(* Physical memory is a function from frames to tables of entries.  A     *)
(* virtual address is a tuple of one table index per level (va[1] indexes *)
(* the leaf table, va[4] the root); the 9-bit index slices of a real VA   *)
(* are abstracted to the small set Idx.  An entry is a record of the      *)
(* frame it names and its set of flag bits; it is present when "P" is one *)
(* of them.  The TLB flush that ends every leaf write (pmap_flush) is the *)
(* subject of TlbShootdown and leaves the tables unchanged.               *)
(***************************************************************************)
EXTENDS Naturals, FiniteSetsExt

CONSTANTS
    Cpus,        \* the cores calling into pmap
    NumFrames,   \* physical frames 1..NumFrames handed out by vm_alloc_pageframe
    KernelRoot,  \* the frame of the kernel's root table (CR3 at boot)
    Idx,         \* table indices (the 9-bit slices of a VA, abstracted)
    UpperIdx,    \* root indices >= 256: the shared kernel half
    VAs,         \* virtual addresses used by callers, as <<i1, i2, i3, i4>>
    PAs,         \* physical page addresses callers map
    Prots,       \* protection sets callers pass to pmap_map
    MaxOps,      \* bound on the calls each core makes
    CallerLocks, \* callers hold the space's lock around a mapping call
    CacheUC,     \* VM_CACHE_UC
    CacheWT,     \* VM_CACHE_WT
    CacheBad,    \* a cache type pmap_set_cache does not know
    NotMapped,   \* PmapAbstract: the translation of an unmapped VA
    Idle         \* PmapAbstract: no call in progress

Frames == 1..NumFrames

ASSUME
    /\ KernelRoot \in Frames
    /\ UpperIdx \subseteq Idx
    /\ VAs \subseteq [1..4 -> Idx]
    /\ PAs \cap Frames = {}
    /\ Prots \subseteq SUBSET {"write", "exec", "user"}

Flags == {"P", "RW", "US", "PWT", "PCD", "NX"}

\* A page-table entry: the frame it names (PTE_ADDR_MASK) and its flags.
Entry == [addr: Frames \cup PAs \cup {0}, flags: SUBSET Flags]

Zero == [addr |-> 0, flags |-> {}]

ZeroTable == [i \in Idx |-> Zero]

\* Variant of Present that never finds the entry present.
PresentNever(e) == FALSE

Present(e) == "P" \in e.flags

VARIABLES
    mem,      \* mem[f][i]: entry i of the table in frame f
    free,     \* frames vm_alloc_pageframe can still hand out
    vases,    \* roots of address spaces created and not yet freed
    cr3,      \* cr3[c]: the root loaded on core c
    panicked, \* an __assert failed (the machine has halted)
    pc,       \* pc[c]: the step core c is at
    op,       \* op[c]: the call core c is executing, or was last
    vas,      \* vas[c]: the root argument (vas.top_level) of that call
    va,       \* va[c]: the virtual address argument
    arg,      \* arg[c]: the leaf value of pmap_map / pmap_unmap, or the
              \*         cache type of pmap_set_cache
    prot,     \* prot[c]: the protection argument of pmap_map
    lvl,      \* lvl[c]: the level of the table tbl[c] being indexed
    tbl,      \* tbl[c]: the frame of the table the walk has reached
    loaded,   \* loaded[c]: the leaf entry pmap_set_cache has read
    result,   \* result[c]: the return value of the last call of core c
    ops       \* ops[c]: calls core c has made

vars == <<mem, free, vases, cr3, panicked, pc, op, vas, va, arg, prot, lvl,
          tbl, loaded, result, ops>>

call == <<op, vas, va, arg, prot>>
walk == <<lvl, tbl, loaded>>

CacheTypes == {CacheUC, CacheWT, CacheBad}

TypeOK ==
    /\ mem \in [Frames -> [Idx -> Entry]]
    /\ free \subseteq Frames
    /\ vases \subseteq Frames
    /\ cr3 \in [Cpus -> Frames]
    /\ panicked \in BOOLEAN
    /\ pc \in [Cpus -> {"idle", "extract", "alloc", "leaf", "store"}]
    /\ op \in [Cpus -> {"none", "map", "unmap", "setcache", "create",
                        "switch", "free"}]
    /\ vas \in [Cpus -> Frames]
    /\ va \in [Cpus -> VAs]
    /\ arg \in [Cpus -> Entry \cup CacheTypes]
    /\ prot \in [Cpus -> SUBSET {"write", "exec", "user"}]
    /\ lvl \in [Cpus -> 1..4]
    /\ tbl \in [Cpus -> Frames]
    /\ loaded \in [Cpus -> Entry]
    /\ result \in [Cpus -> {-1, 0, 1}]
    /\ ops \in [Cpus -> 0..MaxOps]

\* Boot: the kernel's root table is live and empty and loaded on every core.
Init ==
    /\ mem = [f \in Frames |-> ZeroTable]
    /\ free = Frames \ {KernelRoot}
    /\ vases = {KernelRoot}
    /\ cr3 = [c \in Cpus |-> KernelRoot]
    /\ panicked = FALSE
    /\ pc = [c \in Cpus |-> "idle"]
    /\ op = [c \in Cpus |-> "none"]
    /\ vas = [c \in Cpus |-> KernelRoot]
    /\ va = [c \in Cpus |-> CHOOSE v \in VAs : TRUE]
    /\ arg = [c \in Cpus |-> Zero]
    /\ prot = [c \in Cpus |-> {}]
    /\ lvl = [c \in Cpus |-> 4]
    /\ tbl = [c \in Cpus |-> KernelRoot]
    /\ loaded = [c \in Cpus |-> Zero]
    /\ result = [c \in Cpus |-> 0]
    /\ ops = [c \in Cpus |-> 0]

-----------------------------------------------------------------------------
(* Pure helpers.                                                           *)

\* pmap_get_level_index: the slice of va that indexes a level-`level` table.
LevelIndex(level, v) == v[level]

\* pmap_prot_to_pte: present and no-execute, NX cleared by PROT_EXEC,
\* RW set by PROT_WRITE, US by PROT_USER.
ProtToPte(p) ==
    ({"P", "NX"} \ {"NX" : x \in p \cap {"exec"}})
        \cup {"RW" : x \in p \cap {"write"}}
        \cup {"US" : x \in p \cap {"user"}}

\* The uint64_t of pmap_prot_to_pte stored into `uint32_t flags' in
\* pmap_map: every flag above bit 31 is lost, and PTE_NX is bit 63.
Low32(fl) == fl \ {"NX"}

\* The value pmap_map hands to pmap_modify_tbl: pa | flags.
MapValue(pa, p) == [addr |-> pa, flags |-> Low32(ProtToPte(p))]

\* The page walk of the hardware: the leaf entry that translates v in the
\* space rooted at r, or Zero when a level on the way is not present.
RECURSIVE WalkFrom(_, _, _)
WalkFrom(f, level, v) ==
    LET e == mem[f][LevelIndex(level, v)] IN
    IF level = 1 THEN e
    ELSE IF Present(e) THEN WalkFrom(e.addr, level - 1, v) ELSE Zero

Translate(r, v) == WalkFrom(r, 4, v)

\* pmap_read_vas: the root currently in CR3 of core c.
ReadVas(c) == cr3[c]

-----------------------------------------------------------------------------
(* Starting a call.  Callers pass a live address space.                    *)

Begin(c, o) ==
    /\ ~panicked
    /\ pc[c] = "idle"
    /\ ops[c] < MaxOps
    /\ op' = [op EXCEPT ![c] = o]
    /\ ops' = [ops EXCEPT ![c] = @ + 1]

\* The per-space discipline spec 5 asks of callers (the vas.lock the code
\* never takes): no other core is inside a mapping call on space r.
SpaceFree(c, r) ==
    ~CallerLocks \/ \A d \in Cpus \ {c} : pc[d] = "idle" \/ vas[d] # r

StartWalk(c, r, v) ==
    /\ pc' = [pc EXCEPT ![c] = "extract"]
    /\ vas' = [vas EXCEPT ![c] = r]
    /\ va' = [va EXCEPT ![c] = v]
    /\ lvl' = [lvl EXCEPT ![c] = 4]
    /\ tbl' = [tbl EXCEPT ![c] = r]

\* pmap_map: flags = pmap_prot_to_pte(prot), then pmap_modify_tbl(pa | flags).
PmapMap(c, r, v, pa, p) ==
    /\ Begin(c, "map")
    /\ r \in vases
    /\ SpaceFree(c, r)
    /\ StartWalk(c, r, v)
    /\ arg' = [arg EXCEPT ![c] = MapValue(pa, p)]
    /\ prot' = [prot EXCEPT ![c] = p]
    /\ UNCHANGED <<mem, free, vases, cr3, panicked, loaded, result>>

\* pmap_unmap: pmap_modify_tbl(0), an allocating walk like pmap_map's.
PmapUnmap(c, r, v) ==
    /\ Begin(c, "unmap")
    /\ r \in vases
    /\ SpaceFree(c, r)
    /\ StartWalk(c, r, v)
    /\ arg' = [arg EXCEPT ![c] = Zero]
    /\ UNCHANGED <<mem, free, vases, cr3, panicked, prot, loaded, result>>

\* pmap_set_cache: a non-allocating walk, then the update of the leaf.
PmapSetCache(c, r, v, type) ==
    /\ Begin(c, "setcache")
    /\ r \in vases
    /\ SpaceFree(c, r)
    /\ StartWalk(c, r, v)
    /\ arg' = [arg EXCEPT ![c] = type]
    /\ UNCHANGED <<mem, free, vases, cr3, panicked, prot, loaded, result>>

-----------------------------------------------------------------------------
(* The walk: pmap_get_tbl calls pmap_extract for levels 4, 3 and 2.        *)

\* The allocating walk of pmap_modify_tbl, or the non-allocating one of
\* pmap_set_cache.
Allocating(c) == op[c] \in {"map", "unmap"}

\* Variant of AfterLevel that walks one level too deep.
AfterLevelTooDeep(level) == IF level = 1 THEN "leaf" ELSE "extract"

\* pmap_get_tbl extracts levels 4, 3 and 2, then the leaf table is reached.
AfterLevel(level) == IF level = 2 THEN "leaf" ELSE "extract"

\* pmap_extract, the test of pmap[idx] & PTE_P.  A present entry leads to
\* the next level.  An absent one ends a non-allocating walk (pmap_get_tbl
\* returns 1) or goes on to allocate a table.
Extract(c) ==
    LET e == mem[tbl[c]][LevelIndex(lvl[c], va[c])] IN
    /\ ~panicked
    /\ pc[c] = "extract"
    /\ \/ /\ Present(e)
          /\ tbl' = [tbl EXCEPT ![c] = e.addr]
          /\ lvl' = [lvl EXCEPT ![c] = @ - 1]
          /\ pc' = [pc EXCEPT ![c] = AfterLevel(lvl[c])]
          /\ UNCHANGED result
       \/ /\ ~Present(e)
          /\ ~Allocating(c)
          /\ pc' = [pc EXCEPT ![c] = "idle"]
          /\ result' = [result EXCEPT ![c] = 1]
          /\ UNCHANGED <<lvl, tbl>>
       \/ /\ ~Present(e)
          /\ Allocating(c)
          /\ pc' = [pc EXCEPT ![c] = "alloc"]
          /\ UNCHANGED <<lvl, tbl, result>>
    /\ UNCHANGED <<mem, free, vases, cr3, panicked, call, loaded, ops>>

\* vm_alloc_pageframe(1) returned 0: __assert(level_alloc != 0) halts.
OutOfFrames(c) ==
    /\ free = {}
    /\ panicked' = TRUE
    /\ UNCHANGED <<mem, free, pc, lvl, tbl>>

\* A frame was handed out: memset it to zero and store it into pmap[idx]
\* with P | RW | US, whatever pmap[idx] holds by now.
AllocTable(c) ==
    /\ free # {}
    /\ LET f == Min(free) IN
         /\ mem' = [mem EXCEPT
                      ![f] = ZeroTable,
                      ![tbl[c]][LevelIndex(lvl[c], va[c])] =
                          [addr |-> f, flags |-> {"P", "RW", "US"}]]
         /\ free' = free \ {f}
         /\ tbl' = [tbl EXCEPT ![c] = f]
    /\ lvl' = [lvl EXCEPT ![c] = @ - 1]
    /\ pc' = [pc EXCEPT ![c] = AfterLevel(lvl[c])]
    /\ UNCHANGED panicked

\* Variant of ExtractAlloc that waits for a free frame instead of halting.
ExtractAllocWait(c) ==
    /\ ~panicked
    /\ pc[c] = "alloc"
    /\ AllocTable(c)
    /\ UNCHANGED <<vases, cr3, call, loaded, result, ops>>

\* The rest of pmap_extract: vm_alloc_pageframe(1), the __assert, the
\* memset and the store.
ExtractAlloc(c) ==
    /\ ~panicked
    /\ pc[c] = "alloc"
    /\ OutOfFrames(c) \/ AllocTable(c)
    /\ UNCHANGED <<vases, cr3, call, loaded, result, ops>>

-----------------------------------------------------------------------------
(* The leaf.                                                               *)

\* pmap_modify_tbl: tbl[pmap_get_level_index(1, va)] = val; pmap_flush(va);
\* return 0.  pmap_set_cache: reject an unknown type (return 1), or read
\* the leaf entry it will update.
Leaf(c) ==
    LET i == LevelIndex(1, va[c]) IN
    /\ ~panicked
    /\ pc[c] = "leaf"
    /\ \/ /\ Allocating(c)
          /\ mem' = [mem EXCEPT ![tbl[c]][i] = arg[c]]
          /\ pc' = [pc EXCEPT ![c] = "idle"]
          /\ result' = [result EXCEPT ![c] = 0]
          /\ UNCHANGED loaded
       \/ /\ ~Allocating(c)
          /\ arg[c] = CacheBad
          /\ pc' = [pc EXCEPT ![c] = "idle"]
          /\ result' = [result EXCEPT ![c] = 1]
          /\ UNCHANGED <<mem, loaded>>
       \/ /\ ~Allocating(c)
          /\ arg[c] \in {CacheUC, CacheWT}
          /\ loaded' = [loaded EXCEPT ![c] = mem[tbl[c]][i]]
          /\ pc' = [pc EXCEPT ![c] = "store"]
          /\ UNCHANGED <<mem, result>>
    /\ UNCHANGED <<free, vases, cr3, panicked, call, lvl, tbl, ops>>

\* The cache bits pmap_set_cache gives an entry: VM_CACHE_UC sets PTE_PCD
\* and clears PTE_PWT, VM_CACHE_WT the other way round.  The present bit
\* is not looked at.
CachePolicy(type, e) ==
    IF type = CacheUC
    THEN [e EXCEPT !.flags = (@ \cup {"PCD"}) \ {"PWT"}]
    ELSE [e EXCEPT !.flags = (@ \cup {"PWT"}) \ {"PCD"}]

\* The store of the updated entry; pmap_flush(va); return 0.  The two
\* read-modify-write statements on tbl[idx] compile to one load and one
\* store, so a write of another core in between is overwritten.
SetCacheStore(c) ==
    /\ ~panicked
    /\ pc[c] = "store"
    /\ mem' = [mem EXCEPT ![tbl[c]][LevelIndex(1, va[c])] =
                              CachePolicy(arg[c], loaded[c])]
    /\ pc' = [pc EXCEPT ![c] = "idle"]
    /\ result' = [result EXCEPT ![c] = 0]
    /\ UNCHANGED <<free, vases, cr3, panicked, call, walk, ops>>

-----------------------------------------------------------------------------
(* Address spaces.                                                         *)

\* Variant of NewRoot that copies all 512 root entries.
NewRootCopyAll(src) == src

\* The loop of pmap_create_vas: entries 256..511 copied from src, 0..255
\* zeroed.
NewRoot(src) == [i \in Idx |-> IF i \in UpperIdx THEN src[i] ELSE Zero]

\* pmap_create_vas: pmap_read_vas, a root frame (return -1 if there is
\* none), filled from the root in CR3.
PmapCreateVas(c) ==
    /\ Begin(c, "create")
    /\ \/ /\ free = {}
          /\ result' = [result EXCEPT ![c] = -1]
          /\ UNCHANGED <<mem, free, vases>>
       \/ /\ free # {}
          /\ LET f == Min(free) IN
               /\ mem' = [mem EXCEPT ![f] = NewRoot(mem[ReadVas(c)])]
               /\ free' = free \ {f}
               /\ vases' = vases \cup {f}
          /\ result' = [result EXCEPT ![c] = 0]
    /\ UNCHANGED <<cr3, panicked, pc, vas, va, arg, prot, walk>>

\* pmap_switch_vas: mov vas.cr3_flags | vas.top_level to CR3.
PmapSwitchVas(c, r) ==
    /\ Begin(c, "switch")
    /\ r \in vases
    /\ cr3' = [cr3 EXCEPT ![c] = r]
    /\ UNCHANGED <<mem, free, vases, panicked, pc, vas, va, arg, prot, walk,
                   result>>

\* pmap_free_vas: vm_free_pageframe(vas.top_level, 1) and nothing else;
\* the tables below the root stay allocated.  Callers free a space that
\* is not loaded on any core and that no call is using.
PmapFreeVas(c, r) ==
    /\ Begin(c, "free")
    /\ r \in vases \ {KernelRoot}
    /\ \A d \in Cpus : cr3[d] # r /\ (pc[d] # "idle" => vas[d] # r)
    /\ free' = free \cup {r}
    /\ vases' = vases \ {r}
    /\ result' = [result EXCEPT ![c] = 0]
    /\ UNCHANGED <<mem, cr3, panicked, pc, vas, va, arg, prot, walk>>

-----------------------------------------------------------------------------
Next ==
    \/ \E c \in Cpus, r \in Frames, v \in VAs :
          \/ \E pa \in PAs, p \in Prots : PmapMap(c, r, v, pa, p)
          \/ PmapUnmap(c, r, v)
          \/ \E type \in CacheTypes : PmapSetCache(c, r, v, type)
    \/ \E c \in Cpus :
          \/ Extract(c) \/ ExtractAlloc(c) \/ Leaf(c) \/ SetCacheStore(c)
          \/ PmapCreateVas(c)
          \/ \E r \in Frames : PmapSwitchVas(c, r) \/ PmapFreeVas(c, r)

Spec == Init /\ [][Next]_vars

\* A mapping call runs to completion on its core and never suspends (spec
\* 5): each core keeps taking the steps of the call it is in.
Fairness ==
    \A c \in Cpus :
        WF_vars(Extract(c) \/ ExtractAlloc(c) \/ Leaf(c) \/ SetCacheStore(c))

FairSpec == Spec /\ Fairness

-----------------------------------------------------------------------------
(* Refinement of PmapAbstract on the lower half.                           *)

LowerVAs == {v \in VAs : LevelIndex(4, v) \notin UpperIdx}

\* What the hardware translates va to in each live space; nothing in a
\* frame that is not a live root.
AbsTrans ==
    [r \in Frames |-> [v \in LowerVAs |->
        IF r \in vases /\ Present(Translate(r, v)) THEN Translate(r, v)
        ELSE NotMapped]]

\* A mapping call on a lower-half VA is visible from its first step to its
\* return; other calls are not visible.
AbsCall ==
    [c \in Cpus |->
        IF pc[c] = "idle" \/ va[c] \notin LowerVAs THEN Idle
        ELSE [op |-> op[c], vas |-> vas[c], va |-> va[c], arg |-> arg[c]]]

Abs == INSTANCE PmapAbstract
         WITH Roots <- Frames, trans <- AbsTrans, spaces <- vases,
              call <- AbsCall

\* The walk-and-write sequences of pmap_map, pmap_unmap and pmap_set_cache
\* behave as atomic updates of their own VA in their own space, and
\* pmap_create_vas yields a space with an empty lower half.
AbsSpec == Abs!Spec

\* pmap_map without PROT_EXEC installs a no-execute mapping (spec 4.2 and
\* the scenario of spec 8: "no-execute set").
MapHonoursNoExec ==
    [][\A c \in Cpus :
         (pc[c] = "leaf" /\ op[c] = "map" /\ "exec" \notin prot[c])
             => "NX" \in mem'[tbl[c]][LevelIndex(1, va[c])].flags]_vars

\* pmap_set_cache returns 0 only when the leaf entry of va is present
\* (spec 4.2: mapping-not-found "if any intermediate level or the leaf is
\* absent").
SetCacheReportsMissing ==
    [][\A c \in Cpus :
         (op[c] = "setcache" /\ pc[c] \in {"leaf", "store"}
            /\ pc'[c] = "idle" /\ result'[c] = 0)
             => Present(mem[tbl[c]][LevelIndex(1, va[c])])]_vars

\* pmap_extract installs a new table only into an entry that is still
\* absent: no table another core installed between the PTE_P test (line
\* 152) and the store (line 171) is overwritten and orphaned.
InstallIntoAbsent ==
    [][\A c \in Cpus :
         (pc[c] = "alloc" /\ pc'[c] # "alloc")
             => "P" \notin mem[tbl[c]][LevelIndex(lvl[c], va[c])].flags]_vars

\* The frames of the tables reachable from the table in frame f at `level'.
RECURSIVE TablesBelow(_, _)
TablesBelow(f, level) ==
    {f} \cup IF level = 1 THEN {}
              ELSE UNION {TablesBelow(mem[f][i].addr, level - 1) :
                            i \in {j \in Idx : Present(mem[f][j])}}

\* Every frame the allocator has handed out is a table of some live
\* address space: pmap_free_vas returns the tables of a space together
\* with its root (spec 4.3 and 9: "no physical memory held by a dead
\* address space's private tables remains allocated"; the TODO above
\* pmap_free_vas).
NoLeakedTables ==
    Frames \ free \subseteq UNION {TablesBelow(r, 4) : r \in vases}


\* Every pmap_map, pmap_unmap and pmap_set_cache call returns to its
\* caller, unless an allocating walk ran out of frames and the __assert
\* of pmap_extract halted the machine (the TODO at line 162).
CallsReturn ==
    \A c \in Cpus : pc[c] # "idle" ~> (pc[c] = "idle" \/ panicked)
=============================================================================
