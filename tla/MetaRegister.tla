---------------------------- MODULE MetaRegister ----------------------------
(***************************************************************************)
(* What the metadata server promises its mounts about one metadata key: a  *)
(* register of attributes updated one version at a time, from which no     *)
(* update ever removes what an earlier one put there, and an update that   *)
(* was acknowledged to the caller has already taken effect.                *)
(***************************************************************************)
EXTENDS Naturals

CONSTANT Attrs      \* names of extended attributes

VARIABLES version,  \* version of the current value, 0 before the first update
          value,    \* the attributes it holds
          acked     \* attributes whose update was reported as successful

vars == <<version, value, acked>>

Init ==
    /\ version = 0
    /\ value = {}
    /\ acked = {}

\* One more version, with at most one attribute more.
Update ==
    /\ version' = version + 1
    /\ \/ value' = value
       \/ \E a \in Attrs : value' = value \cup {a}
    /\ UNCHANGED acked

\* A caller is told its update succeeded.
Acknowledge ==
    /\ \E a \in value : acked' = acked \cup {a}
    /\ UNCHANGED <<version, value>>

Next == Update \/ Acknowledge

Spec == Init /\ [][Next]_vars

=============================================================================
