----------------------------- MODULE MCClientConn -----------------------------
(* Instances of ClientConn for TLC.  The keys and the value and version of  *)
(* the get's answer are as long as the format allows; the put's value and   *)
(* the get's key begin like the header of a message, the latter with a      *)
(* length at the limit, as random keys may.                                 *)
EXTENDS ClientConn

Cells(n) == [i \in 1..n |-> i % 3]

MCMessages == {NewGetMessage(1, <<KindPut, 0, Word - 1>> \o Cells(Word - 4)),
               NewPutMessage(2, Cells(Word - 2), <<1, 0, 1, 0, 2>>, 2)}
MCReplies  == {NewPutMessage(2, <<2>>, Cells(Word - 1 - VersionCells), Word^VersionCells - 1)}

\* Metadata that is longer than a length can say, as that of a large directory.
MCLongMessages == {NewPutMessage(2, <<1>>, Cells(Word), 2)}

\* The messages are ones the theorems of ClientConnProofs speak of.
ASSUME InstanceAssumption == \A m \in MCMessages \cup MCReplies : Encodable(m)
================================================================================
