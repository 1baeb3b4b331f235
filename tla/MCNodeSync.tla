------------------------------ MODULE MCNodeSync ------------------------------
(* Instances of NodeSync for TLC. *)
EXTENDS NodeSync, TLC

MountSymmetry == Permutations(Mounts)
AttrSymmetry  == Permutations(Attrs)
Symmetry      == MountSymmetry \cup AttrSymmetry

\* Without faults the entry goes up to MaxVersion; after one, what an update
\* beyond FaultVersion does is checked, and nothing that follows it.
FaultVersion  == 1
FaultBound    == losses > 0 => store.version <= FaultVersion
================================================================================
