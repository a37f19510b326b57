--------------------------- MODULE MCTlbShootdown ---------------------------
(* Instantiation of TlbShootdown for TLC: the cfg files give the constants  *)
(* (cores, requesters, VAs and leaf values as model values).                *)
EXTENDS TlbShootdown
=============================================================================
