------------------------------- MODULE Versions -------------------------------
(***************************************************************************)
(* The version check of storage.VersionedWrapper as pure operators.  An    *)
(* entry is what the delegate store holds for a key: absent, or a value    *)
(* prefixed by its uint64 version.                                         *)
(***************************************************************************)
EXTENDS Naturals

CONSTANT Word   \* number of values of the version word; 2^64 in the code

ASSUME WordAssumption == Word \in Nat /\ Word > 1

Absent(entry) == ~entry.present

\* binary.BigEndian.Uint64(curr[0:8]) + 1, which wraps to 0 past the last word.
ExpectedVersion(entry) == (entry.version + 1) % Word

\* The condition under which VersionedWrapper.Put returns ErrStalePut.
StaleOffByOne(entry, version) ==
    ~Absent(entry) /\ version + 1 < ExpectedVersion(entry)
Stale(entry, version) == ~Absent(entry) /\ version < ExpectedVersion(entry)

\* What Put stores: the version, then the value.
NewEntrySwapped(version, value) ==
    [present |-> TRUE, version |-> value, value |-> version]
NewEntry(version, value) ==
    [present |-> TRUE, version |-> version, value |-> value]
================================================================================
