------------------------------ MODULE MCDirTree ------------------------------
EXTENDS DirTree, TLC

Symmetry == Permutations(Fresh) \cup Permutations(Mounts)
================================================================================
