------------------------------ MODULE MCBlobPath ------------------------------
(* Instances of BlobPath for TLC. *)
EXTENDS BlobPath, TLC
================================================================================
