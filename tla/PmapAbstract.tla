---------------------------- MODULE PmapAbstract ----------------------------
(***************************************************************************)
(* What the mapping operations of pmap.c promise for the private (lower)   *)
(* half of each address space: an address space is a function from         *)
(* virtual addresses to translations; pmap_map, pmap_unmap and             *)
(* pmap_set_cache each take effect atomically at one instant between their *)
(* call and their return, and change the translation of their own VA in   *)
(* their own address space only; pmap_create_vas yields a space whose      *)
(* lower half maps nothing; pmap_free_vas ends a space.                    *)
(*                                                                         *)
(* An operation is visible here from its call (Invoke) to the step that   *)
(* applies it and returns (Apply), so concurrent calls may overlap.        *)
(***************************************************************************)
EXTENDS Naturals

CONSTANTS
    Cpus,       \* the cores calling into pmap
    Roots,      \* physical frames that can be the root of an address space
    KernelRoot, \* the root of the kernel's own space, live from boot
    LowerVAs,   \* virtual addresses of the lower half
    Entry,      \* leaf entry values
    CacheUC,    \* VM_CACHE_UC
    CacheWT,    \* VM_CACHE_WT
    CacheBad,   \* a cache type pmap_set_cache does not know
    NotMapped,  \* the translation of a VA whose walk finds no present entry
    Idle        \* no visible call in progress on a core

VARIABLES
    trans,      \* trans[r][va]: the translation of va in the space rooted at r
    spaces,     \* the roots of live address spaces
    call        \* call[c]: the call core c is executing, or Idle

vars == <<trans, spaces, call>>

Translation == Entry \cup {NotMapped}

Call == [op: {"map", "unmap", "setcache"}, vas: Roots, va: LowerVAs,
         arg: Entry \cup {CacheUC, CacheWT, CacheBad}]

Empty == [va \in LowerVAs |-> NotMapped]

TypeOK ==
    /\ trans \in [Roots -> [LowerVAs -> Translation]]
    /\ spaces \subseteq Roots
    /\ call \in [Cpus -> Call \cup {Idle}]

\* The translation after a call, given the one before it.  pmap_set_cache
\* changes the cache bits of a present entry and nothing else.
Effect(cl, old) ==
    CASE cl.op = "map"   -> cl.arg
      [] cl.op = "unmap" -> NotMapped
      [] old = NotMapped \/ cl.arg = CacheBad -> old
      [] cl.arg = CacheUC -> [old EXCEPT !.flags = (@ \cup {"PCD"}) \ {"PWT"}]
      [] cl.arg = CacheWT -> [old EXCEPT !.flags = (@ \cup {"PWT"}) \ {"PCD"}]

Init ==
    /\ trans = [r \in Roots |-> Empty]
    /\ spaces = {KernelRoot}
    /\ call = [c \in Cpus |-> Idle]

\* A call starts on an idle core, on a live space.
Invoke(c) ==
    /\ call[c] = Idle
    /\ call'[c] \in Call
    /\ call'[c].vas \in spaces
    /\ call' = [call EXCEPT ![c] = call'[c]]
    /\ UNCHANGED <<trans, spaces>>

\* The call takes effect and returns.
Apply(c) ==
    /\ call[c] # Idle
    /\ LET cl == call[c] IN
         trans' = [trans EXCEPT ![cl.vas][cl.va] = Effect(cl, @)]
    /\ call' = [call EXCEPT ![c] = Idle]
    /\ UNCHANGED spaces

\* pmap_create_vas: a new space, empty below the kernel half.
Create(r) ==
    /\ r \notin spaces
    /\ trans[r] = Empty
    /\ spaces' = spaces \cup {r}
    /\ UNCHANGED <<trans, call>>

\* pmap_free_vas: the space ends.
Destroy(r) ==
    /\ r \in spaces \ {KernelRoot}
    /\ spaces' = spaces \ {r}
    /\ trans' = [trans EXCEPT ![r] = Empty]
    /\ UNCHANGED call

Next ==
    \/ \E c \in Cpus : Invoke(c) \/ Apply(c)
    \/ \E r \in Roots : Create(r) \/ Destroy(r)

Spec == Init /\ [][Next]_vars

=============================================================================
