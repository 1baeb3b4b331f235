------------------------------ MODULE NodeLocks ------------------------------
(***************************************************************************)
(* The locks that the calls on a mount take: mu of the nodes and mu of the *)
(* factory.  Both are go-deadlock mutexes, which remember for every lock   *)
(* asked for while another is held which came first, and end the process   *)
(* when a goroutine asks for two locks in the opposite order, or has       *)
(* waited 30 s for one.                                                    *)
(*                                                                         *)
(* A call is the sequence of its Lock and Unlock steps.  The kernel keeps  *)
(* calls that change the same directory apart, and renames between         *)
(* directories too.                                                        *)
(***************************************************************************)
EXTENDS Naturals, Sequences, FiniteSets

CONSTANTS Procs,    \* goroutines: FUSE requests and the change listener
          Tops,     \* directories that exist from the start
          Others,   \* nodes made by Create or Mkdir
          Factory,  \* the lock of the node factory
          NoProc

ASSUME LockAssumption ==
    /\ Tops # {} /\ Tops \cap Others = {}
    /\ Factory \notin Tops \cup Others
    /\ {"new", "top", "gone"} \cap (Tops \cup Others) = {}
    /\ NoProc \notin Procs

VARIABLES
    parent,   \* parent[n]: the directory of n, or "new", "top", "gone"
    call,     \* call[p]: the call p is in
    owner,    \* owner[l]: who holds lock l
    waiting,  \* who has asked for its next lock
    order,    \* pairs <<a, b>>: b was asked for while a was held
    exited,   \* what made go-deadlock end the process, if anything
    crossed   \* history: a Rename between two directories has been made

vars == <<parent, call, owner, waiting, order, exited, crossed>>

Nodes == Tops \cup Others
Locks == Nodes \cup {Factory}
Place == Nodes \cup {"new", "top", "gone"}
Step  == {"lock", "unlock"} \X Locks

\* held are the locks the call has taken so far; node goes to place when it
\* returns; dirs are locked by the kernel meanwhile.
Call == [steps : Seq(Step), held : SUBSET Locks, dirs : SUBSET Nodes, node : Nodes, place : Place]

Root    == CHOOSE d \in Tops : TRUE
NoCall  == [steps |-> <<>>, held |-> {}, dirs |-> {}, node |-> Root, place |-> "top"]

TypeOK ==
    /\ parent \in [Nodes -> Place]
    /\ call \in [Procs -> Call]
    /\ owner \in [Locks -> Procs \cup {NoProc}]
    /\ waiting \subseteq Procs
    /\ order \subseteq Locks \X Locks
    /\ exited \in {"no", "inversion", "timeout"} /\ crossed \in BOOLEAN

Init ==
    /\ parent = [n \in Nodes |-> IF n \in Tops THEN "top" ELSE "new"]
    /\ call = [p \in Procs |-> NoCall]
    /\ owner = [l \in Locks |-> NoProc]
    /\ waiting = {}
    /\ order = {}
    /\ exited = "no"
    /\ crossed = FALSE

Idle(p) == call[p].steps = <<>>
Held(p) == call[p].held

Present  == {n \in Nodes : parent[n] \in Nodes \cup {"top"}}
Empty(n) == \A c \in Nodes : parent[c] # n

\* n and the directories it is in.
Above(n) ==
    LET up[k \in 0..Cardinality(Nodes)] ==
            IF k = 0 THEN {n} ELSE up[k - 1] \cup {parent[d] : d \in up[k - 1] \cap Nodes}
    IN  up[Cardinality(Nodes)]

\* q moves a node from one directory to another.
Crossing(q) ==
    /\ call[q].dirs # {}
    /\ {parent[call[q].node], call[q].place} \subseteq Nodes
    /\ parent[call[q].node] # call[q].place

--------------------------------------------------------------------------------
(* The lock steps of each call, in the order of the code. *)

Lock(l)   == <<"lock", l>>
Unlock(l) == <<"unlock", l>>

\* addKnown and getKnown.
Known == <<Lock(Factory), Unlock(Factory)>>

\* Create, Mkdir, Symlink: allocateNode registers the child, which is then
\* locked until the parent has been saved.
CreateSteps(d, n) == <<Lock(d)>> \o Known \o <<Lock(n), Unlock(n), Unlock(d)>>

UnlinkSteps(d) == <<Lock(d), Unlock(d)>>

RmdirLeaking(d, n) == <<Lock(d), Lock(n), Unlock(d)>>
RmdirSteps(d, n)   == <<Lock(d), Lock(n), Unlock(n), Unlock(d)>>

\* Rename: the old parent, the child, and the new parent if it is another one.
RenameSteps(d, n, e) ==
    IF d = e THEN <<Lock(d), Lock(n), Unlock(n), Unlock(d)>>
    ELSE <<Lock(d), Lock(n), Lock(e), Unlock(e), Unlock(n), Unlock(d)>>

\* Getattr, Open, Opendir, Lookup: loading a directory registers its children.
ReloadSteps(n) == <<Lock(n)>> \o Known \o <<Unlock(n)>>

\* InvalidateCache has left the factory's lock when it takes the node's.
InvalidateUnchecked(n) == Known \o <<Lock("nil"), Unlock("nil")>>
InvalidateHolding(n) == <<Lock(Factory), Lock(n), Unlock(n), Unlock(Factory)>>
InvalidateSteps(n)   == Known \o <<Lock(n), Unlock(n)>>

--------------------------------------------------------------------------------
(* Starting a call. *)

Start(p, steps, dirs, node, place) ==
    /\ Idle(p)
    /\ exited = "no"
    /\ \A q \in Procs : call[q].dirs \cap dirs = {}
    /\ call' = [call EXCEPT ![p] = [steps |-> steps, held |-> {}, dirs |-> dirs,
                                    node |-> node, place |-> place]]
    /\ UNCHANGED <<parent, owner, waiting, order, exited>>

Create(p, d, n) ==
    /\ d \in Present
    /\ parent[n] = "new"
    /\ \A q \in Procs : call[q].node # n
    /\ Start(p, CreateSteps(d, n), {d}, n, d)
    /\ UNCHANGED crossed

Unlink(p, n) ==
    /\ parent[n] \in Nodes
    /\ Empty(n)
    /\ Start(p, UnlinkSteps(parent[n]), {parent[n], n}, n, "gone")
    /\ UNCHANGED crossed

\* The kernel locks the directory to be removed as well.
Rmdir(p, n) ==
    /\ parent[n] \in Nodes
    /\ Start(p, RmdirSteps(parent[n], n), {parent[n], n}, n,
             IF Empty(n) THEN "gone" ELSE parent[n])
    /\ UNCHANGED crossed

\* No directory is moved below itself, and one rename between directories
\* runs at a time.
Rename(p, n, e) ==
    /\ parent[n] \in Nodes
    /\ e \in Present
    /\ n \notin Above(e)
    /\ e # parent[n] => \A q \in Procs : ~Crossing(q)
    /\ Start(p, RenameSteps(parent[n], n, e), {parent[n], e}, n, e)
    /\ crossed' = (crossed \/ e # parent[n])

Reload(p, n) ==
    /\ n \in Present
    /\ Start(p, ReloadSteps(n), {}, n, parent[n])
    /\ UNCHANGED crossed

InvalidateCache(p, n) ==
    /\ parent[n] # "new"
    /\ Start(p, InvalidateSteps(n), {}, n, parent[n])
    /\ UNCHANGED crossed

--------------------------------------------------------------------------------
(* Running it. *)

\* A call whose last step is done returns; one that changes the tree has
\* named directories.
Advance(p, held) ==
    LET k == call[p]
        last == Len(k.steps) = 1
    IN  /\ call' = [call EXCEPT ![p] =
                IF last THEN NoCall
                ELSE [k EXCEPT !.steps = Tail(k.steps), !.held = held]]
        /\ parent' = IF last /\ k.dirs # {}
                     THEN [parent EXCEPT ![k.node] = k.place] ELSE parent

At(p, op) == exited = "no" /\ ~Idle(p) /\ Head(call[p].steps)[1] = op
Target(p) == Head(call[p].steps)[2]

\* The next lock comes before one that is held, or is held already.
Inverted(p) == \E h \in Held(p) : <<Target(p), h>> \in order \cup {<<h, h>>}

\* preLock: the order is checked and recorded before the goroutine waits.
PreLock(p) ==
    /\ At(p, "lock") /\ p \notin waiting
    /\ ~Inverted(p)
    /\ order' = order \cup {<<h, Target(p)>> : h \in Held(p)}
    /\ waiting' = waiting \cup {p}
    /\ UNCHANGED <<parent, call, owner, exited, crossed>>

DoLock(p) ==
    /\ At(p, "lock") /\ p \in waiting
    /\ owner[Target(p)] = NoProc
    /\ owner' = [owner EXCEPT ![Target(p)] = p]
    /\ waiting' = waiting \ {p}
    /\ Advance(p, Held(p) \cup {Target(p)})
    /\ UNCHANGED <<order, exited, crossed>>

DoUnlock(p) ==
    /\ At(p, "unlock")
    /\ owner' = [owner EXCEPT ![Target(p)] = NoProc]
    /\ Advance(p, Held(p) \ {Target(p)})
    /\ UNCHANGED <<waiting, order, exited, crossed>>

\* OnPotentialDeadlock: the process exits, and the mount with it.
Exit(p) ==
    /\ At(p, "lock") /\ p \notin waiting
    /\ Inverted(p)
    /\ exited' = "inversion"
    /\ UNCHANGED <<parent, call, owner, waiting, order, crossed>>

\* The same when the lock is still held by another goroutine after 30 s; node.mu
\* is held over requests to the servers, which may take that long.
LockTimeout(p) ==
    /\ At(p, "lock") /\ p \in waiting
    /\ owner[Target(p)] # NoProc
    /\ exited' = "timeout"
    /\ UNCHANGED <<parent, call, owner, waiting, order, crossed>>

Next ==
    \E p \in Procs :
        \/ \E n \in Nodes :
              \/ \E d \in Nodes : Create(p, d, n) \/ Rename(p, n, d)
              \/ Unlink(p, n) \/ Rmdir(p, n)
              \/ Reload(p, n) \/ InvalidateCache(p, n)
        \/ PreLock(p) \/ DoLock(p)
        \/ DoUnlock(p)
        \/ Exit(p) \/ LockTimeout(p)

Spec == Init /\ [][Next]_vars

\* A goroutine runs on, and a Go mutex does not starve who waits for it.
FairSpec ==
    /\ Spec
    /\ \A p \in Procs : /\ WF_vars(PreLock(p)) /\ SF_vars(DoLock(p))
                         /\ WF_vars(DoUnlock(p)) /\ WF_vars(Exit(p))

--------------------------------------------------------------------------------
(* Properties. *)

\* As long as nothing is moved from one directory to another, no call asks for
\* two locks against the order of an earlier one: parents come before their
\* children and the factory last, so go-deadlock's check of the order does not
\* end the mount.  (A wait of 30 s still does.)
OrderKept == exited = "inversion" => crossed

\* Every call returns, unless the process exits: no set of calls, however they
\* interleave, waits in a circle, and no call leaves a lock behind.
CallsReturn == \A p \in Procs : ~Idle(p) ~> (Idle(p) \/ exited # "no")
================================================================================
