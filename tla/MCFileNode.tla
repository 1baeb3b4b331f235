------------------------------ MODULE MCFileNode ------------------------------
(* Instances of FileNode for TLC. *)
EXTENDS FileNode, TLC
================================================================================
