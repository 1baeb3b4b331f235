------------------------------- MODULE BlobPath -------------------------------
(***************************************************************************)
(* The way of a blob from a mount to the blob server: Paired over a fast   *)
(* and a slow Store.  The fast one is the mount's cache directory; the     *)
(* slow one is RemoteStore, an HTTP client of the blob server and its own  *)
(* store.  The commands use DiskStore on both sides; Paired takes any      *)
(* Store, so either side may also be an InMemorySTore, as in the tests.    *)
(*                                                                         *)
(* A blob is named by its key.                                             *)
(* Paired.Put is not in the repository; it is modelled from the comment on *)
(* Paired and from the channel wbc that writeback reads: store in the fast *)
(* store, then queue for the slow one.                                     *)
(***************************************************************************)
EXTENDS Naturals, SequencesExt

CONSTANTS
    Keys,        \* blobs
    Callers,     \* calls of a mount that save content
    FastKinds,   \* what the fast store may be: "memory", "disk"
    SlowKinds,   \* what the blob server's store may be
    Capacity,    \* capacity of wbc, 42 in the code
    MaxFailures, \* bound: HTTP requests that fail, disk writes that fail
    NoKey

ASSUME PathAssumption ==
    /\ FastKinds \cup SlowKinds \subseteq {"memory", "disk"}
    /\ Capacity \in Nat \ {0}
    /\ MaxFailures \in Nat
    /\ NoKey \notin Keys

VARIABLES
    kind,       \* kind of store, by side
    fast, slow, \* what the stores hold for a key
    dirs,       \* keys whose directory <dir>/<first byte> exists, by side
    callers,    \* the key a caller waits to queue, or NoKey
    queue,      \* wbc
    writing,    \* the key writeback1 is at, or NoKey
    acked,      \* history: keys for which Put returned nil
    granted,    \* history: keys for which the slow store's Put returned nil
    failures

vars == <<kind, fast, slow, dirs, callers, queue, writing, acked, granted, failures>>

File == {"absent", "partial", "whole"}
Nothing == [k \in Keys |-> "absent"]

TypeOK ==
    /\ kind \in [fast : FastKinds, slow : SlowKinds]
    /\ fast \in [Keys -> File] /\ slow \in [Keys -> File]
    /\ dirs \in [{"fast", "slow"} -> SUBSET Keys]
    /\ callers \in [Callers -> Keys \cup {NoKey}]
    /\ queue \in Seq(Keys) /\ Len(queue) <= Capacity
    /\ writing \in Keys \cup {NoKey}
    /\ acked \subseteq Keys /\ granted \subseteq Keys
    /\ failures \in 0..MaxFailures

\* DiskStore never gets to make a directory: the ones that exist are those the
\* cache or data directory came with.
Init ==
    /\ kind \in [fast : FastKinds, slow : SlowKinds]
    /\ fast = Nothing /\ slow = Nothing
    /\ dirs \in [{"fast", "slow"} -> SUBSET Keys]
    /\ callers = [c \in Callers |-> NoKey]
    /\ queue = <<>>
    /\ writing = NoKey
    /\ acked = {} /\ granted = {}
    /\ failures = 0

--------------------------------------------------------------------------------
(* Stores. *)

\* InMemorySTore.Put.
MemoryPut(f, k) ==
    {[file |-> [f EXCEPT ![k] = "whole"], err |-> FALSE, failed |-> FALSE]}

\* DiskStore.Put.  The write fails without the directory, with nothing stored;
\* else on a full disk, with a truncated file; failing returns nil.  A write
\* that succeeds returns an error, so MkdirAll is never reached.
DiskPut(f, k, made) ==
    IF k \notin made THEN {[file |-> f, err |-> FALSE, failed |-> FALSE]}
    ELSE {[file |-> [f EXCEPT ![k] = "whole"], err |-> TRUE, failed |-> FALSE],
          [file |-> [f EXCEPT ![k] = "partial"], err |-> FALSE, failed |-> TRUE]}

StorePut(store, f, k, made) ==
    IF store = "memory" THEN MemoryPut(f, k) ELSE DiskPut(f, k, made)

\* RemoteStore.Put, when the request and its answer get through: the blob
\* server's handler puts the body, and an error there is an error here.
RemotePut(k) == StorePut(kind.slow, slow, k, dirs["slow"])

Counted(out) ==
    /\ out.failed => failures < MaxFailures
    /\ failures' = IF out.failed THEN failures + 1 ELSE failures

--------------------------------------------------------------------------------
(* Calls. *)

\* What Get finds.  It returns after the fast store's Get in either case, with
\* the error or with the value, so the slow store is not asked.
Get(k) == fast[k]

\* The first half of Put: the fast store.  An error is returned to the caller.
Put(c, k) ==
    /\ callers[c] = NoKey
    /\ \E out \in StorePut(kind.fast, fast, k, dirs["fast"]) :
        /\ Counted(out)
        /\ fast' = out.file
        /\ callers' = IF out.err THEN callers ELSE [callers EXCEPT ![c] = k]
    /\ UNCHANGED <<kind, slow, dirs, queue, writing, acked, granted>>

\* The second half: wbc <- kv, which blocks while the channel is full.
EnqueueUnbounded(c) ==
    /\ callers[c] # NoKey
    /\ queue' = Append(queue, callers[c])
    /\ acked' = acked \cup {callers[c]}
    /\ callers' = [callers EXCEPT ![c] = NoKey]
    /\ UNCHANGED <<kind, fast, slow, dirs, writing, granted, failures>>
Enqueue(c) ==
    /\ callers[c] # NoKey
    /\ Len(queue) < Capacity
    /\ queue' = Append(queue, callers[c])
    /\ acked' = acked \cup {callers[c]}
    /\ callers' = [callers EXCEPT ![c] = NoKey]
    /\ UNCHANGED <<kind, fast, slow, dirs, writing, granted, failures>>

--------------------------------------------------------------------------------
(* The writeback goroutine. *)

Writeback ==
    /\ writing = NoKey
    /\ queue # <<>>
    /\ writing' = Head(queue)
    /\ queue' = Tail(queue)
    /\ UNCHANGED <<kind, fast, slow, dirs, callers, acked, granted, failures>>

\* One round of writeback1.  An error means another round.
Writeback1Stuck ==
    /\ writing # NoKey
    /\ \E out \in RemotePut(writing) :
        /\ Counted(out)
        /\ slow' = out.file
        /\ granted' = IF out.err THEN granted ELSE granted \cup {writing}
    /\ UNCHANGED <<kind, fast, dirs, callers, queue, writing, acked>>
Writeback1GivesUp ==
    /\ writing # NoKey
    /\ writing' = NoKey
    /\ UNCHANGED <<kind, fast, slow, dirs, callers, queue, acked, granted, failures>>
Writeback1 ==
    /\ writing # NoKey
    /\ \E out \in RemotePut(writing) :
        /\ Counted(out)
        /\ slow' = out.file
        /\ writing' = IF out.err THEN writing ELSE NoKey
        /\ granted' = IF out.err THEN granted ELSE granted \cup {writing}
    /\ UNCHANGED <<kind, fast, dirs, callers, queue, acked>>

\* The request does not reach the server, or its answer does not come back.
Writeback1Fails ==
    /\ writing # NoKey
    /\ failures < MaxFailures
    /\ failures' = failures + 1
    /\ \/ slow' = slow
       \/ \E out \in RemotePut(writing) :
            slow' = out.file
    /\ UNCHANGED <<kind, fast, dirs, callers, queue, writing, acked, granted>>

\* Another mount's Paired puts a blob on the same blob server.
ForeignPut(k) ==
    /\ \E out \in RemotePut(k) :
        /\ Counted(out)
        /\ slow' = out.file
    /\ UNCHANGED <<kind, fast, dirs, callers, queue, writing, acked, granted>>

Next ==
    \/ \E c \in Callers, k \in Keys : Put(c, k)
    \/ \E c \in Callers : Enqueue(c)
    \/ Writeback
    \/ Writeback1
    \/ Writeback1Fails
    \/ \E k \in Keys : ForeignPut(k)

Spec == Init /\ [][Next]_vars

\* The writeback goroutine runs, and a caller whose send can proceed proceeds.
Fairness ==
    /\ WF_vars(Writeback)
    /\ WF_vars(Writeback1)
    /\ \A c \in Callers : SF_vars(Enqueue(c))

FairSpec == Spec /\ Fairness

--------------------------------------------------------------------------------
(* Properties. *)

\* writeback1 goes on with no blob before the slow store's Put returned nil for it:
\* what Put has acknowledged was granted by the slow store or is still on its way
\* there, whatever requests fail, answers are lost and blobs are put twice.
AckedNotForgotten ==
    \A k \in acked : k \in granted \/ k \in ToSet(queue) \/ writing = k

\* writeback1 is at a blob that the slow store has, and for which its Put has
\* returned an error all the same.
Stuck == kind.slow = "disk" /\ writing # NoKey /\ slow[writing] = "whole"

\* The writeback goroutine serves every blob it was given, however often requests
\* fail and however many callers fill the queue, until it comes to a blob that the
\* blob server's DiskStore stores: only that can hold it up for ever.
AckedIsTaken ==
    \A k \in Keys : k \in acked ~> (k \in granted \/ Stuck)

\* Likewise for a call that saves content: it returns, the queue drains.
PutReturnsUnlessStuck ==
    \A c \in Callers : callers[c] # NoKey ~> (callers[c] = NoKey \/ Stuck)

\* "syncing that to the slow store in the background": a blob whose Put returned
\* nil is on the slow store, or still on its way there.
AckedKept ==
    \A k \in acked : slow[k] = "whole" \/ k \in ToSet(queue) \/ writing = k

\* "syncing that to the slow store in the background": the slow store does not
\* keep a Put from returning for ever.
PutReturns ==
    \A c \in Callers : callers[c] # NoKey ~> callers[c] = NoKey

\* "make sure content is never overwritten": what the blob server has whole
\* stays so, however often the same blob is put again.
NeverOverwritten ==
    [][\A k \in Keys : slow[k] = "whole" => slow'[k] = "whole"]_vars

\* "gets from the fast store if possible, otherwise from the slow store": a blob
\* that the blob server has is found.
GetFallsBack == \A k \in Keys : slow[k] = "whole" => Get(k) # "absent"
================================================================================
