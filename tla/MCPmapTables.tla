---------------------------- MODULE MCPmapTables ----------------------------
(* Instantiation of PmapTables for TLC: indices 0 and 1 at every level,     *)
(* root index 1 standing for the kernel half 256..511.                      *)
EXTENDS PmapTables

\* Two lower-half VAs that share every table down to the leaf table, and
\* one kernel-half VA.
MCVAs == {<<0, 0, 0, 0>>, <<1, 0, 0, 0>>, <<0, 0, 0, 1>>}

\* The lower-half VAs alone.
MCLowerVAs == {<<0, 0, 0, 0>>, <<1, 0, 0, 0>>}

\* Two kernel-half VAs that share the level-3 table and differ below it.
MCUpperVAs == {<<0, 0, 0, 1>>, <<0, 0, 1, 1>>}

\* Protections with and without PROT_WRITE / PROT_EXEC.
MCProts == {{"write"}, {"exec"}}

\* One protection.
MCWriteProt == {{"write"}}
=============================================================================
