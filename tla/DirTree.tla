------------------------------- MODULE DirTree -------------------------------
(***************************************************************************)
(* Directories and their entries.  The metadata server holds one entry per *)
(* key; a mount holds a CryptNode object per node it has met, with a map   *)
(* from names to child objects, and go-fuse holds a second such map, the   *)
(* tree the kernel sees.  Calls that change two or three nodes save them   *)
(* one by one, each save a put of its own on the server.                   *)
(*                                                                         *)
(* An object is <<k, n>>: the n-th one a mount has made for key k.  The    *)
(* store is the register of MetaRegister per key: NodeSync is about how it *)
(* is reached.  The kernel looks a name up, then makes the call on it.     *)
(* Every sync() of these calls is of a node marked shouldSaveMetadata; a   *)
(* mark that a failure leaves is acted on later, as by Setattr below.      *)
(*                                                                         *)
(* Environment names what happens in an instance:                          *)
(*   "rmdir", "rename"  users make these calls                             *)
(*   "replace"          rename onto a directory that is not empty          *)
(*   "fail"             saves fail         "late" ... yet are applied      *)
(*   "window"           a directory is reloaded between lookup and call    *)
(*   "crash"            the mount process is killed and started again      *)
(***************************************************************************)
EXTENDS Naturals, Sequences, FiniteSets, FiniteSetsExt

CONSTANTS Mounts,
          Dirs,        \* keys of directories that exist from the start
          Fresh,       \* keys allocateNode may draw
          Names,
          NoKey,       \* no entry under a name
          NoNode,      \* a nil *CryptNode
          MaxObjects,  \* bound: objects a mount makes for one key
          MaxCalls,    \* bound: calls that change directories
          Environment

ASSUME DirAssumption ==
    /\ Dirs \cap Fresh = {}
    /\ NoKey \notin Dirs \cup Fresh
    /\ NoNode \notin (Dirs \cup Fresh) \X Nat
    /\ MaxObjects \in Nat \ {0} /\ MaxCalls \in Nat
    /\ Names # {} /\ IsFiniteSet(Names) /\ IsFiniteSet(Dirs) /\ IsFiniteSet(Fresh)

VARIABLES
    store,    \* store[k]: the server's entry for key k
    nodes,    \* nodes[m][i]: object i of mount m
    known,    \* known[m][k]: CryptNodeFactory.known
    call,     \* call[m]: the call mount m is in
    pending,  \* pending[m]: notifications that m has not handled
    drawn,    \* history: keys allocateNode has returned
    alive,    \* history: nodes users have made and not removed
    halfway,  \* history: a Rename has failed, which has no rollback
    calls     \* calls made so far

history == <<drawn, alive, halfway, calls>>
vars    == <<store, nodes, known, call, pending, history>>

Keys    == Dirs \cup Fresh
Ids     == Keys \X (1..MaxObjects)
IdOrNil == Ids \cup {NoNode}

\* Version 0 means that the server has no entry.  "file" is also a symlink.
Entry == [version : Nat, mode : {"file", "dir"}, children : [Names -> Keys \cup {NoKey}]]

\* children is node.Children; inodes, the children of the node in go-fuse.
Node == [key : Keys, version : Nat, mode : {"unused", "notLoaded", "file", "dir"},
         children : [Names -> IdOrNil], inodes : [Names -> IdOrNil],
         shouldReload : BOOLEAN]

\* victim is the key the call means to remove, saves what is left to sync().
Creating == {"Create", "Mkdir"}      \* Symlink makes a "file" as Create does
Removing == {"Unlink", "Rmdir"}
Call == [kind : Creating \cup Removing \cup {"none", "Rename", "Setattr"},
         dir : IdOrNil, name : Names, to : IdOrNil, newName : Names,
         child : IdOrNil, victim : Keys \cup {NoKey}, saves : Seq(Ids)]

TypeOK ==
    /\ store \in [Keys -> Entry]
    /\ nodes \in [Mounts -> [Ids -> Node]]
    /\ known \in [Mounts -> [Keys -> IdOrNil]]
    /\ call \in [Mounts -> Call]
    /\ pending \in [Mounts -> SUBSET [key : Keys, version : Nat]]
    /\ alive \subseteq drawn /\ drawn \subseteq Fresh
    /\ halfway \in BOOLEAN
    /\ calls \in 0..MaxCalls

Nil    == [x \in Names |-> NoNode]
NoName == CHOOSE x \in Names : TRUE
NoCall == [kind |-> "none", dir |-> NoNode, name |-> NoName, to |-> NoNode,
           newName |-> NoName, child |-> NoNode, victim |-> NoKey, saves |-> <<>>]

--------------------------------------------------------------------------------
(* Objects and loading.  s is the state of one mount: nodes and known. *)

State(m) == [nodes |-> nodes[m], known |-> known[m]]

Unused(s, k) == {n \in 1..MaxObjects : s.nodes[<<k, n>>].mode = "unused"}
NewId(s, k)  == IF Unused(s, k) = {} THEN NoNode ELSE <<k, Min(Unused(s, k))>>

\* The bound MaxObjects: every key keeps an object that is not in use.
Roomy(s) == \A k \in Keys : Unused(s, k) # {}

Update(m, s) ==
    /\ Roomy(s)
    /\ nodes' = [nodes EXCEPT ![m] = s.nodes]
    /\ known' = [known EXCEPT ![m] = s.known]

\* addKnown: the first object of a key stays its object.
AddKnown(s, k, i) == [s EXCEPT !.known[k] = IF @ = NoNode THEN i ELSE @]

\* ExistingNode: an object for a key met in a directory, to be loaded lazily.
ExistingNode(s, k) ==
    AddKnown([s EXCEPT !.nodes[NewId(s, k)].mode = "notLoaded"], k, NewId(s, k))

StoredChild(s, i, x) == store[s.nodes[i].key].children[x]

\* unserialize: entry x of the directory loaded into object i.
LoadEntry(s, i, x) ==
    LET k == StoredChild(s, i, x)
    IN  IF k = NoKey THEN s
        ELSE [ExistingNode(s, k) EXCEPT !.nodes[i].children[x] = NewId(s, k)]

\* version, mode and the like, as LoadMetadata and reloadIfNeeded assign them.
WithAttributes(s, i) ==
    [s EXCEPT !.nodes[i].version = store[s.nodes[i].key].version,
              !.nodes[i].mode = store[s.nodes[i].key].mode]

LoadMetadata(s, i) ==
    FoldSet(LAMBDA x, t : LoadEntry(t, i, x), WithAttributes(s, i), Names)

\* reloadIfNeeded: what becomes of entry x.  An entry whose key has changed
\* keeps its object, while the factory knows the one that was just read.  (The
\* object of a file that is given the key of a directory has no map for the
\* entries, so that its own reload panics; the process is then gone as in
\* Crash, and there is no step for it here.)
ReloadEntry(s, i, x) ==
    LET k == StoredChild(s, i, x)
        prev == s.nodes[i].children[x]
    IN  CASE k = NoKey -> [s EXCEPT !.nodes[i].children[x] = NoNode,
                                    !.nodes[i].inodes[x] = NoNode]
          [] k # NoKey /\ prev = NoNode -> LoadEntry(s, i, x)
          [] k # NoKey /\ prev # NoNode ->
                IF s.nodes[prev].key = k THEN s
                ELSE [IF s.known[k] = NoNode THEN ExistingNode(s, k) ELSE s EXCEPT
                        !.nodes[prev].key = k, !.nodes[prev].shouldReload = TRUE]

Reloaded(s, i) ==
    IF s.nodes[i].shouldReload
    THEN FoldSet(LAMBDA x, t : ReloadEntry(t, i, x),
                 [WithAttributes(s, i) EXCEPT !.nodes[i].shouldReload = FALSE], Names)
    ELSE s

\* ensureChildLoaded; AddChild does not replace an inode.
EnsureChildLoaded(s, i, x) ==
    LET c == s.nodes[i].children[x] IN
    IF c # NoNode /\ s.nodes[c].mode = "notLoaded"
    THEN [LoadMetadata(s, c) EXCEPT !.nodes[i].inodes[x] = IF @ = NoNode THEN c ELSE @]
    ELSE s

\* Lookup; go-fuse enters the node that it returns in its tree.
Lookup(s, i, x) ==
    LET t == EnsureChildLoaded(Reloaded(s, i), i, x)
        c == t.nodes[i].children[x]
    IN  IF c = NoNode THEN t ELSE [t EXCEPT !.nodes[i].inodes[x] = c]

Root(d) == <<d, 1>>

\* A mount that has just started and looked up the first directories.
Started ==
    LET blank(k) == [key |-> k, version |-> 0, mode |-> "unused", children |-> Nil,
                     inodes |-> Nil, shouldReload |-> FALSE]
    IN  FoldSet(LAMBDA d, s : LoadMetadata(AddKnown(s, d, Root(d)), Root(d)),
                [nodes |-> [i \in Ids |-> blank(i[1])],
                 known |-> [k \in Keys |-> NoNode]], Dirs)

Init ==
    /\ store = [k \in Keys |-> [version |-> IF k \in Dirs THEN 1 ELSE 0,
                                mode |-> "dir", children |-> [x \in Names |-> NoKey]]]
    /\ nodes = [m \in Mounts |-> Started.nodes]
    /\ known = [m \in Mounts |-> Started.known]
    /\ call = [m \in Mounts |-> NoCall]
    /\ pending = [m \in Mounts |-> {}]
    /\ drawn = {} /\ alive = {} /\ halfway = FALSE /\ calls = 0

--------------------------------------------------------------------------------
(* Which nodes a call can be about, and which locks it holds. *)

\* What is reached from start in at most n steps.
Closure(start, Succ(_), n) ==
    LET reach[k \in 0..n] ==
            IF k = 0 THEN start
            ELSE reach[k - 1] \cup UNION {Succ(e) : e \in reach[k - 1]}
    IN  reach[n]

Below(s, start) ==
    Closure(start, LAMBDA i : {s.nodes[i].inodes[x] : x \in Names} \ {NoNode},
            Cardinality(Fresh))

Tree(m)     == Below(State(m), {Root(d) : d \in Dirs})
TreeDirs(m) == {i \in Tree(m) : nodes[m][i].mode = "dir"}

Idle(m)   == call[m].kind = "none"
Saving(m) == call[m].saves # <<>>

\* Unlink does not lock the child.
Locked(m) ==
    IF ~Saving(m) THEN {}
    ELSE {call[m].dir, call[m].to} \cup (IF call[m].kind = "Unlink" THEN {} ELSE {call[m].child})

--------------------------------------------------------------------------------
(* The kernel looks up the names of a call: s is the mount after that. *)

Begin(m, s, c) ==
    /\ Idle(m)
    /\ calls < MaxCalls
    /\ Update(m, s)
    /\ call' = [call EXCEPT ![m] = c]
    /\ calls' = calls + 1
    /\ UNCHANGED <<store, pending, drawn, alive, halfway>>

\* Create, Mkdir and Symlink: the name must not exist.
LookupForCreate(m, kind, i, x) ==
    LET s == Lookup(State(m), i, x) IN
    /\ s.nodes[i].children[x] = NoNode
    /\ Begin(m, s, [NoCall EXCEPT !.kind = kind, !.dir = i, !.name = x])

\* Unlink and Rmdir: the name must be a file, or a directory.
LookupForRemove(m, kind, i, x) ==
    LET s == Lookup(State(m), i, x)
        c == s.nodes[i].inodes[x]
    IN  /\ kind = "Rmdir" => "rmdir" \in Environment
        /\ c # NoNode
        /\ s.nodes[c].mode = IF kind = "Rmdir" THEN "dir" ELSE "file"
        /\ Begin(m, s, [NoCall EXCEPT !.kind = kind, !.dir = i, !.name = x,
                                      !.victim = s.nodes[c].key])

\* The kernel refuses to replace a node by one of the other kind, and to move
\* a directory below itself.
LookupForRename(m, i, x, j, y) ==
    LET s == Lookup(Lookup(State(m), i, x), j, y)
        c == s.nodes[i].inodes[x]
        old == s.nodes[j].inodes[y]
    IN  /\ "rename" \in Environment
        /\ c # NoNode /\ c # old
        /\ j \notin Below(s, {c})
        /\ old # NoNode => /\ s.nodes[c].mode = s.nodes[old].mode
                           /\ s.nodes[old].children # Nil => "replace" \in Environment
        /\ Begin(m, s, [NoCall EXCEPT !.kind = "Rename", !.dir = i, !.name = x,
                            !.to = j, !.newName = y,
                            !.victim = IF old = NoNode THEN NoKey ELSE s.nodes[old].key])

--------------------------------------------------------------------------------
(* The calls, up to their first save. *)

Looked(m, kind) == call[m].kind = kind /\ ~Saving(m)

Run(m, ns, child, saves) ==
    /\ nodes' = [nodes EXCEPT ![m] = ns]
    /\ call' = [call EXCEPT ![m].child = child, ![m].saves = saves]
    /\ UNCHANGED <<store, pending, alive, halfway, calls>>

ChildModeUnset(kind) == "notLoaded"
ChildMode(kind) == IF kind = "Mkdir" THEN "dir" ELSE "file"

ParentFirst(child, parent) == <<parent, child>>
ChildFirst(child, parent)  == <<child, parent>>

\* createLockedChild and what follows it.
MakeChild(m, k) ==
    LET i == call[m].dir
        x == call[m].name
        c == NewId(State(m), k)
    IN  /\ \E kind \in Creating : Looked(m, kind)
        /\ k \in Fresh \ drawn
        /\ c # NoNode
        /\ drawn' = drawn \cup {k}
        /\ known' = [known EXCEPT ![m] = AddKnown(State(m), k, c).known]
        /\ Run(m, [nodes[m] EXCEPT ![c].mode = ChildMode(call[m].kind),
                                   ![i].children[x] = c,
                                   ![i].inodes[x] = IF @ = NoNode THEN c ELSE @],
               c, ChildFirst(c, i))

Return(m) == call' = [call EXCEPT ![m] = NoCall]

\* allocateNode has no key to give: EIO.
MakeChildFails(m) ==
    /\ \E kind \in Creating : Looked(m, kind)
    /\ Fresh = drawn
    /\ Return(m)
    /\ UNCHANGED <<store, nodes, known, pending, history>>

Remove(m) ==
    LET i == call[m].dir
        x == call[m].name
    IN  Run(m, [nodes[m] EXCEPT ![i].children[x] = NoNode], nodes[m][i].children[x], <<i>>)

Unlink(m) ==
    /\ Looked(m, "Unlink")
    /\ Remove(m)
    /\ UNCHANGED <<known, drawn>>

Rmdir(m) ==
    LET c == nodes[m][call[m].dir].children[call[m].name]
    IN  /\ Looked(m, "Rmdir")
        /\ IF c = NoNode \/ nodes[m][c].children # Nil
           THEN /\ Return(m)      \* ENOENT or ENOTEMPTY
                /\ UNCHANGED <<store, nodes, pending, alive, halfway, calls>>
           ELSE Remove(m)
        /\ UNCHANGED <<known, drawn>>

OldFirst(child, new, old) == <<child, old, new>>
NewFirst(child, new, old) ==
    IF new = old THEN <<child, new>> ELSE <<child, new, old>>

\* Rename moves the child that go-fuse has under the name.  Without one it
\* dereferences nil, for which there is no step.
Rename(m) ==
    LET i == call[m].dir
        j == call[m].to
        c == nodes[m][i].inodes[call[m].name]
    IN  /\ Looked(m, "Rename")
        /\ c # NoNode
        /\ Run(m, [nodes[m] EXCEPT ![j].children[call[m].newName] = c,
                                   ![i].children[call[m].name] = NoNode],
               c, NewFirst(c, j, i))
        /\ UNCHANGED <<known, drawn>>

\* Setattr and the like: a node is saved without a change of its entries.
Setattr(m, i) ==
    Begin(m, State(m), [NoCall EXCEPT !.kind = "Setattr", !.dir = i, !.saves = <<i>>])

--------------------------------------------------------------------------------
(* sync() of the next node of a call. *)

Saved(m) == Head(call[m].saves)

\* What serialize writes: the keys of the children.
Serialized(m, i) ==
    [version |-> nodes[m][i].version + 1, mode |-> nodes[m][i].mode,
     children |-> [x \in Names |-> IF nodes[m][i].children[x] = NoNode THEN NoKey
                                   ELSE nodes[m][nodes[m][i].children[x]].key]]

NeverStale(m, i) == FALSE
IsStale(m, i) == nodes[m][i].version + 1 <= store[nodes[m][i].key].version

\* The server stores the node and tells the other mounts.
Publish(m, i) ==
    LET k == nodes[m][i].key
        e == Serialized(m, i)
    IN  /\ store' = [store EXCEPT ![k] = e]
        /\ pending' = [d \in Mounts |-> IF d = m THEN pending[d]
                          ELSE pending[d] \cup {[key |-> k, version |-> e.version]}]

\* go-fuse's part of a call that returns 0.
Applied(m, ns) ==
    LET c == call[m] IN
    CASE c.kind \in Creating -> [ns EXCEPT ![c.dir].inodes[c.name] = c.child]
      [] c.kind \in Removing -> [ns EXCEPT ![c.dir].inodes[c.name] = NoNode]
      [] c.kind = "Rename"   -> [ns EXCEPT ![c.dir].inodes[c.name] = NoNode,
                                           ![c.to].inodes[c.newName] = c.child]
      [] OTHER -> ns

\* The rollback of a call that failed; Rename has none.
RolledBackCreate(m, ns) ==
    LET c == call[m] IN
    IF c.kind \in Creating
    THEN [ns EXCEPT ![c.dir].inodes[c.name] = NoNode,
                    ![c.dir].children[c.name] = NoNode] ELSE ns
RolledBack(m, ns) ==
    LET c == call[m] IN
    CASE c.kind \in Creating -> [ns EXCEPT ![c.dir].inodes[c.name] = NoNode,
                                           ![c.dir].children[c.name] = NoNode]
      [] c.kind \in Removing -> [ns EXCEPT ![c.dir].children[c.name] = c.child]
      [] OTHER -> ns

\* History: what users have made, and removed, when this save is stored.  A new
\* node has the key that was drawn for its object.
Made(m) ==
    IF call[m].kind \in Creating THEN {call[m].child[1]} ELSE {}
Removed(m) ==
    IF \/ call[m].kind \in Removing
       \/ call[m].kind = "Rename" /\ Saved(m) = call[m].to
    THEN {call[m].victim} ELSE {}

Succeed(m, ns) ==
    IF Len(call[m].saves) > 1
    THEN /\ nodes' = [nodes EXCEPT ![m] = ns]
         /\ call' = [call EXCEPT ![m].saves = Tail(@)]
         /\ alive' = alive \ Removed(m)
    ELSE /\ nodes' = [nodes EXCEPT ![m] = Applied(m, ns)]
         /\ Return(m)
         /\ alive' = (alive \cup Made(m)) \ Removed(m)

Sync(m) ==
    LET i == Saved(m) IN
    /\ Saving(m)
    /\ ~IsStale(m, i)
    /\ Publish(m, i)
    /\ Succeed(m, [nodes[m] EXCEPT ![i].version = @ + 1])
    /\ UNCHANGED <<known, drawn, halfway, calls>>

Fail(m, ns) ==
    /\ nodes' = [nodes EXCEPT ![m] = RolledBack(m, ns)]
    /\ halfway' = (halfway \/ call[m].kind = "Rename")
    /\ Return(m)
    /\ UNCHANGED <<known, drawn, calls>>

SyncStale(m) ==
    /\ Saving(m)
    /\ IsStale(m, Saved(m))
    /\ Fail(m, [nodes[m] EXCEPT ![Saved(m)].shouldReload = TRUE])
    /\ UNCHANGED <<store, pending, alive>>

\* Any other error, after which the put may still be applied ("late").
SyncFails(m) ==
    /\ Saving(m)
    /\ "fail" \in Environment
    /\ \E late \in {"never"} \cup ({"late"} \cap Environment) :
        IF late = "late" /\ ~IsStale(m, Saved(m))
        THEN Publish(m, Saved(m)) /\ alive' = alive \ Removed(m)
        ELSE UNCHANGED <<store, pending, alive>>
    /\ Fail(m, nodes[m])

--------------------------------------------------------------------------------
(* Reloading, notifications and faults. *)

\* Getattr and Open reload a node that is marked, Opendir also loads the
\* children: s is the mount after that.
Refresh(m, i, s) ==
    /\ i \notin Locked(m)
    /\ Idle(m) \/ "window" \in Environment
    /\ Update(m, s)
    /\ UNCHANGED <<store, call, pending, history>>

Getattr(m, i) == Refresh(m, i, Reloaded(State(m), i))

Opendir(m, i) ==
    Refresh(m, i, FoldSet(LAMBDA x, s : EnsureChildLoaded(s, i, x),
                          Reloaded(State(m), i), Names))

NewerByTwo(n, node) == n.version > node.version + 1
Newer(n, node)      == n.version > node.version

InvalidateCache(m, n) ==
    LET i == known[m][n.key] IN
    /\ i \notin Locked(m)
    /\ pending' = [pending EXCEPT ![m] = @ \ {n}]
    /\ nodes' = IF i = NoNode THEN nodes
                ELSE [nodes EXCEPT ![m][i].shouldReload = @ \/ Newer(n, nodes[m][i])]
    /\ UNCHANGED <<store, known, call, history>>

Crash(m) ==
    /\ "crash" \in Environment
    /\ Update(m, Started)
    /\ Return(m)
    /\ pending' = [pending EXCEPT ![m] = {}]
    /\ UNCHANGED <<store, history>>

Next ==
    \E m \in Mounts :
        \/ \E i \in TreeDirs(m), x \in Names :
              \/ \E kind \in Creating : LookupForCreate(m, kind, i, x)
              \/ \E kind \in Removing : LookupForRemove(m, kind, i, x)
              \/ \E j \in TreeDirs(m), y \in Names : LookupForRename(m, i, x, j, y)
        \/ \E k \in Fresh : MakeChild(m, k)
        \/ MakeChildFails(m)
        \/ Unlink(m)
        \/ Rmdir(m)
        \/ Rename(m)
        \/ Sync(m)
        \/ SyncStale(m)
        \/ SyncFails(m)
        \/ \E i \in Tree(m) : Setattr(m, i) \/ Getattr(m, i)
        \/ \E i \in TreeDirs(m) : Opendir(m, i)
        \/ \E n \in pending[m] : InvalidateCache(m, n)
        \/ Crash(m)

Spec == Init /\ [][Next]_vars

--------------------------------------------------------------------------------
(* Properties. *)

StoredBelow ==
    Closure(Dirs, LAMBDA k : {store[k].children[x] : x \in Names} \ {NoKey},
            Cardinality(Fresh))

\* A file or directory that a user has made, and nobody has removed or
\* replaced, is found on the metadata server from the first directories down:
\* Rename saves the new parent before the old one, a call that cannot save
\* both puts the entry back, and a directory is saved only from its latest
\* version, so that neither a crash nor another mount's save drops an entry.
\* It does not hold of everything the code does: the cases it is not checked
\* for are "replace", "late", "rmdir" and, with two mounts, "window".
NeverLost == ~halfway => alive \subseteq StoredBelow

\* Every entry of a stored directory names a node that is stored too: a child
\* is saved before the directory that lists it.
NoDanglingEntry ==
    \A d \in Keys, x \in Names :
        store[d].children[x] # NoKey => store[store[d].children[x]].version > 0

\* Between calls, what the kernel reaches under a name is what the directory
\* would save under it, also after a call that failed and was rolled back.
TreeIsSaved ==
    \A m \in Mounts : (Idle(m) /\ ~halfway) =>
        \A i \in TreeDirs(m), x \in Names :
            nodes[m][i].inodes[x] \in {NoNode, nodes[m][i].children[x]}

\* When no call is under way and every notification has been handled, a node
\* the kernel can reach is up to date or marked for reload, unless a reload
\* has given its object another key.
TreeKeepsUp ==
    (\A m \in Mounts : Idle(m) /\ pending[m] = {}) =>
        \A m \in Mounts : \A i \in Tree(m) :
            LET n == nodes[m][i] IN
            (n.key = i[1] /\ n.mode # "notLoaded") =>
                n.shouldReload \/ n.version = store[n.key].version

\* The same of every object the kernel can reach.  pkg/node/nodefcatory.go says
\* that "InvalidateCache invalidates a cached node", and pkg/message/message.go
\* that accepted puts are fanned out so that clients "can keep up to date"; but
\* an object whose key a reload has changed is known to the factory by the old
\* key only.
EveryNodeKeepsUp ==
    (\A m \in Mounts : Idle(m) /\ pending[m] = {}) =>
        \A m \in Mounts : \A i \in Tree(m) :
            LET n == nodes[m][i] IN
            n.mode # "notLoaded" => n.shouldReload \/ n.version = store[n.key].version
================================================================================
