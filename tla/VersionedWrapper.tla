--------------------------- MODULE VersionedWrapper ---------------------------
(***************************************************************************)
(* storage.VersionedWrapper for one key: concurrent Puts and Gets, each    *)
(* one call or two on the delegate Store with the wrapper's mutex held.    *)
(* The delegate is an InMemorySTore, whose calls never fail, or a          *)
(* BitcaskStore, whose calls may; a value is the client that wrote it.     *)
(***************************************************************************)
EXTENDS Versions

CONSTANTS
    Clients,     \* goroutines handleInput that call the wrapper
    NoClient,
    Failing,     \* calls of the delegate that may fail: {} for InMemorySTore
    Offered,     \* versions that clients try to put
    MaxFailures  \* bound: calls on the delegate that fail

ASSUME WrapperAssumption ==
    /\ Failing \subseteq {"get", "put"}
    /\ Offered \subseteq 0..(Word - 1)
    /\ MaxFailures \in Nat
    /\ NoClient \notin Clients

VARIABLES
    entry,    \* what the delegate holds for the key
    mutex,    \* the client that holds the mutex, or NoClient
    call,     \* call[c]: the call c is in and its version
    replies,  \* history: the replies to Puts
    failures,
    panicked  \* a goroutine of the process has panicked

vars == <<entry, mutex, call, replies, failures, panicked>>

Versionz == 0..(Word - 1)
Values   == Clients \cup {NoClient}
Entry    == [present : BOOLEAN, version : Versionz, value : Values]
NoEntry  == [present |-> FALSE, version |-> 0, value |-> NoClient]

Idle == [op |-> "none", at |-> "none", version |-> 0]
Reply == [client : Clients, version : Versionz, ok : BOOLEAN]

TypeOK ==
    /\ entry \in Entry
    /\ mutex \in Clients \cup {NoClient}
    /\ call \in [Clients -> [op : {"none", "put", "get"},
                             at : {"none", "lock", "get", "put"},
                             version : Versionz]]
    /\ replies \subseteq Reply
    /\ failures \in 0..MaxFailures
    /\ panicked \in BOOLEAN

Init ==
    /\ entry = NoEntry
    /\ mutex = NoClient
    /\ call = [c \in Clients |-> Idle]
    /\ replies = {}
    /\ failures = 0
    /\ panicked = FALSE

Start(c, op, version) ==
    /\ ~panicked
    /\ call[c] = Idle
    /\ call' = [call EXCEPT ![c] = [op |-> op, at |-> "lock", version |-> version]]
    /\ UNCHANGED <<entry, mutex, replies, failures, panicked>>

LockIgnored(c) ==
    /\ ~panicked
    /\ call[c].at = "lock"
    /\ mutex' = c
    /\ call' = [call EXCEPT ![c].at = "get"]
    /\ UNCHANGED <<entry, replies, failures, panicked>>
Lock(c) ==
    /\ ~panicked
    /\ call[c].at = "lock"
    /\ mutex = NoClient
    /\ mutex' = c
    /\ call' = [call EXCEPT ![c].at = "get"]
    /\ UNCHANGED <<entry, replies, failures, panicked>>

\* What delegate.Get returns: an entry that is absent (ErrNotFound, and curr is
\* nil) or present.  BitcaskStore.Get turns any other error of the database
\* into a nil value and no error, which reads as absent too.
Read ==
    {[curr |-> entry, nilValue |-> FALSE]}
    \cup IF "get" \in Failing /\ failures < MaxFailures
         THEN {[curr |-> NoEntry, nilValue |-> TRUE]} ELSE {}

CountedRead(r) == failures' = failures + (IF r.nilValue THEN 1 ELSE 0)

Return(c) ==
    /\ call' = [call EXCEPT ![c] = Idle]
    /\ mutex' = NoClient

Replied(c, ok) ==
    replies' = replies \cup {[client |-> c, version |-> call[c].version, ok |-> ok]}

\* Put, up to the version check.
PutCheck(c) ==
    /\ ~panicked
    /\ call[c].op = "put" /\ call[c].at = "get"
    /\ \E r \in Read :
        /\ CountedRead(r)
        /\ \/ /\ Stale(r.curr, call[c].version)
              /\ Return(c)
              /\ Replied(c, FALSE)
           \/ /\ ~Stale(r.curr, call[c].version)
              /\ call' = [call EXCEPT ![c].at = "put"]
              /\ UNCHANGED <<mutex, replies>>
    /\ UNCHANGED <<entry, panicked>>

\* The rest of Put.
PutWrite(c) ==
    /\ ~panicked
    /\ call[c].at = "put"
    /\ entry' = NewEntry(call[c].version, c)
    /\ Return(c)
    /\ Replied(c, TRUE)
    /\ UNCHANGED <<failures, panicked>>

\* delegate.Put fails, with nothing stored.
PutFails(c) ==
    /\ ~panicked
    /\ call[c].at = "put"
    /\ "put" \in Failing
    /\ failures < MaxFailures
    /\ failures' = failures + 1
    /\ Return(c)
    /\ Replied(c, FALSE)
    /\ UNCHANGED <<entry, panicked>>

\* Get; slicing a nil value panics.
Get(c) ==
    /\ ~panicked
    /\ call[c].op = "get" /\ call[c].at = "get"
    /\ \E r \in Read :
        /\ CountedRead(r)
        /\ panicked' = r.nilValue
    /\ Return(c)
    /\ UNCHANGED <<entry, replies>>

Next ==
    \E c \in Clients :
        \/ \E version \in Offered : Start(c, "put", version)
        \/ Start(c, "get", 0)
        \/ Lock(c)
        \/ PutCheck(c)
        \/ PutWrite(c)
        \/ PutFails(c)
        \/ Get(c)

Spec == Init /\ [][Next]_vars

--------------------------------------------------------------------------------
(* Properties. *)

\* Of the Puts that clients race to make with the same version, one wins: the
\* check and the write are one critical section.
OneWinner ==
    \A r, q \in replies :
        (r.ok /\ q.ok /\ r.version = q.version) => r.client = q.client

\* The version of the key only rises, so that InvalidateCache may compare the
\* version it is told of with its own: no put that was checked before another
\* one was stored takes the version back.
VersionsRise ==
    [][entry' # entry => (Absent(entry) \/ entry'.version > entry.version)]_vars

\* "Put should return ErrStalePut if the current version is not the version
\* passed as argument minus one", says VersionedStore: a put that is accepted
\* takes the version up by one.
VersionsByOne ==
    [][entry' # entry => (Absent(entry) \/ entry'.version = entry.version + 1)]_vars
================================================================================
