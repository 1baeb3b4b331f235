-------------------------- MODULE MCVersionedWrapper --------------------------
(* Instances of VersionedWrapper for TLC. *)
EXTENDS VersionedWrapper, TLC

Symmetry == Permutations(Clients)
================================================================================
