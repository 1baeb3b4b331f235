----------------------------- MODULE MCNodeLocks -----------------------------
EXTENDS NodeLocks
================================================================================
