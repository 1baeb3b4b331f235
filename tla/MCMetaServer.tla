----------------------------- MODULE MCMetaServer -----------------------------
(* Instances of MetaServer for TLC. *)
EXTENDS MetaServer, TLC

Symmetry == Permutations(Conns)
================================================================================
