------------------------------- MODULE NodeSync -------------------------------
(***************************************************************************)
(* One metadata key shared by several mounts.  Every mount caches the node *)
(* (pkg/node), writes it back through its RemoteVersionedStore, and is     *)
(* told of the other mounts' writes by the metadata server's fan-out.      *)
(*                                                                         *)
(* The metadata of the node is abstracted to the set of its extended       *)
(* attributes; Setxattr stands for every operation that changes metadata,  *)
(* calls sync and, when that fails, puts back all it changed.  Setattr of  *)
(* a size is not among them, since it keeps the new Time; see FileNode.    *)
(*                                                                         *)
(* A FUSE call holds node.mu until it returns, so at most one is under way *)
(* per mount, in op[m].  Messages travel in sets, not queues: a call that  *)
(* timed out leaves its request behind on a connection the client may have *)
(* replaced since, and the fan-out runs in a goroutine per accepted put,   *)
(* so neither requests nor notifications keep the order they were made in. *)
(***************************************************************************)
EXTENDS Versions, FiniteSets

CONSTANTS
    Mounts,        \* the mount processes
    Attrs,         \* names of extended attributes
    Tags,          \* request tags a mount can have in flight (65535 in the code)
    MaxVersion,    \* bound: no mount starts an update past this version
    MaxLosses,     \* bound: connections lost and processes restarted
    ListenerInLoop \* the receive loop itself runs the change listener

ASSUME BoundAssumption ==
    /\ MaxVersion \in Nat
    /\ MaxVersion + 1 < Word
    /\ MaxLosses \in Nat

ASSUME TagAssumption == 0 \notin Tags   \* tag 0 marks a broadcast

ASSUME ListenerAssumption == ListenerInLoop \in BOOLEAN

VARIABLES
    store,      \* the server's entry for the key
    log,        \* history: log[v] is the value accepted as version v
    node,       \* node[m]: the CryptNode cached by mount m
    op,         \* op[m]: the call that mount m is in
    local,      \* local[m]: what m's RemoteVersionedStore knows without asking
    conn,       \* conn[m]: number of the connection m uses now
    requests,   \* requests the server has not read yet
    broadcasts, \* goroutines "go sc.server.broadcast(...)" not yet run
    inbox,      \* messages on their way to a mount
    listening,  \* listening[m]: notifications waiting in m's change listener
    acked,      \* history: attributes whose Setxattr returned 0
    losses,     \* connections lost and processes restarted so far
    timedOut    \* whether some request has timed out

vars == <<store, log, node, op, local, conn, requests, broadcasts, inbox,
          listening, acked, losses, timedOut>>

serverVars == <<store, log, broadcasts>>
faultVars  == <<conn, losses, timedOut>>

--------------------------------------------------------------------------------

Versionz == 0..MaxVersion
Values   == SUBSET Attrs
Entry    == [present : BOOLEAN, version : Versionz, value : Values]

NoEntry  == [present |-> FALSE, version |-> 0, value |-> {}]

\* The fields of CryptNode that decide what is saved and reloaded.
Node == [version : Versionz, xattrs : Values,
         shouldSaveMetadata : BOOLEAN, shouldReloadMetadata : BOOLEAN]

FreshNode == [version |-> 0, xattrs |-> {},
              shouldSaveMetadata |-> FALSE, shouldReloadMetadata |-> FALSE]

\* "down": no process; "idle": mounted, node.mu free; the others wait for the
\* answer to request tag.  undo is what a failing call restores, edit what a
\* successful one has added.
Op == [kind : {"down", "idle", "mount", "reload", "put"},
       tag : Tags \cup {0}, undo : Values, edit : Values]

Down == [kind |-> "down", tag |-> 0, undo |-> {}, edit |-> {}]
Idle == [kind |-> "idle", tag |-> 0, undo |-> {}, edit |-> {}]

Request == [kind : {"get", "put"}, from : Mounts, conn : 0..MaxLosses,
            tag : Tags, version : Versionz, value : Values]

Broadcast == [from : Mounts, conn : 0..MaxLosses,
              version : Versionz, value : Values]

Message == [kind : {"put", "stale", "notfound"}, to : Mounts,
            tag : Tags \cup {0}, version : Versionz, value : Values]

TypeOK ==
    /\ store \in Entry
    /\ log \in [Versionz -> Values]
    /\ node \in [Mounts -> Node]
    /\ op \in [Mounts -> Op]
    /\ local \in [Mounts -> Entry]
    /\ conn \in [Mounts -> 0..MaxLosses]
    /\ requests \subseteq Request
    /\ broadcasts \subseteq Broadcast
    /\ inbox \subseteq Message
    /\ listening \in [Mounts -> SUBSET Message]
    /\ acked \subseteq Attrs
    /\ losses \in 0..MaxLosses
    /\ timedOut \in BOOLEAN

Init ==
    /\ store = NoEntry
    /\ log = [v \in Versionz |-> {}]
    /\ node = [m \in Mounts |-> FreshNode]
    /\ op = [m \in Mounts |-> Down]
    /\ local = [m \in Mounts |-> NoEntry]
    /\ conn = [m \in Mounts |-> 0]
    /\ requests = {}
    /\ broadcasts = {}
    /\ inbox = {}
    /\ listening = [m \in Mounts |-> {}]
    /\ acked = {}
    /\ losses = 0
    /\ timedOut = FALSE

--------------------------------------------------------------------------------
(* Requests of a mount. *)

\* A tag that correlates exactly one request or response of m.
FreeTags(m) ==
    Tags \ ({r.tag : r \in {q \in requests : q.from = m}}
            \cup {i.tag : i \in {j \in inbox : j.to = m}})

SendGet(m, t) ==
    requests' = requests \cup
        {[kind |-> "get", from |-> m, conn |-> conn[m], tag |-> t,
          version |-> 0, value |-> {}]}

SendPut(m, t, version, value) ==
    requests' = requests \cup
        {[kind |-> "put", from |-> m, conn |-> conn[m], tag |-> t,
          version |-> version, value |-> value]}

\* cmd/mount.go: the root node is registered, then its metadata is asked for.
Mount(m) ==
    /\ op[m].kind = "down"
    /\ \E t \in FreeTags(m) :
        /\ SendGet(m, t)
        /\ op' = [op EXCEPT ![m] = [Down EXCEPT !.kind = "mount", !.tag = t]]
    /\ UNCHANGED <<node, local, inbox, listening, acked>>
    /\ UNCHANGED serverVars
    /\ UNCHANGED faultVars

\* What sync() does with shouldSaveMetadata set: send the node as version + 1.
\* The call then waits, still holding node.mu.
StartSync(m, xattrs) ==
    /\ node[m].version < MaxVersion
    /\ node' = [node EXCEPT ![m].xattrs = xattrs, ![m].shouldSaveMetadata = TRUE]
    /\ \E t \in FreeTags(m) :
        /\ SendPut(m, t, node[m].version + 1, xattrs)
        /\ op' = [op EXCEPT ![m] =
                    [kind |-> "put", tag |-> t, undo |-> node[m].xattrs,
                     edit |-> xattrs \ node[m].xattrs]]
    /\ UNCHANGED <<local, inbox, listening, acked>>
    /\ UNCHANGED serverVars
    /\ UNCHANGED faultVars

Flags == {"none", "XATTR_CREATE", "XATTR_REPLACE"}

\* XATTR_CREATE on an attribute that exists is EEXIST; XATTR_REPLACE of one
\* that does not is ENODATA.  Both return before anything is changed.
Refused(m, a, flags) ==
    \/ flags = "XATTR_CREATE" /\ a \in node[m].xattrs
    \/ flags = "XATTR_REPLACE" /\ a \notin node[m].xattrs

Setxattr(m, a, flags) ==
    /\ op[m].kind = "idle"
    /\ ~Refused(m, a, flags)
    /\ StartSync(m, node[m].xattrs \cup {a})

\* Flush, Fsync and Release write the node again when an earlier save failed.
Flush(m) ==
    /\ op[m].kind = "idle"
    /\ node[m].shouldSaveMetadata
    /\ StartSync(m, node[m].xattrs)

\* reloadIfNeeded overwrites the cached node with what was loaded.
Reloaded(version, xattrs) ==
    [version |-> version, xattrs |-> xattrs,
     shouldSaveMetadata |-> FALSE, shouldReloadMetadata |-> FALSE]

\* A call that changes nothing: Getattr of a node not marked for reload, or a
\* Setxattr that its flags refuse.
ReturnAtOnce(m) ==
    /\ op[m].kind = "idle"
    /\ node[m].shouldReloadMetadata
          => \E a \in Attrs, flags \in Flags : Refused(m, a, flags)
    /\ UNCHANGED vars

\* Getattr, Lookup, Open and Opendir reload a node marked for it.  The store
\* answers from what it already knows of the key, else it asks the server.
Reload(m) ==
    /\ op[m].kind = "idle"
    /\ node[m].shouldReloadMetadata
    /\ \/ /\ local[m].present
          /\ node' = [node EXCEPT ![m] = Reloaded(local[m].version, local[m].value)]
          /\ UNCHANGED <<op, requests>>
       \/ /\ Absent(local[m])
          /\ \E t \in FreeTags(m) :
                /\ SendGet(m, t)
                /\ op' = [op EXCEPT ![m] = [Idle EXCEPT !.kind = "reload", !.tag = t]]
          /\ UNCHANGED node
    /\ UNCHANGED <<local, inbox, listening, acked>>
    /\ UNCHANGED serverVars
    /\ UNCHANGED faultVars

--------------------------------------------------------------------------------
(* The metadata server. *)

\* ApplyMessage: the answer to a request, given the entry of its key.
ApplyMessage(entry, r) ==
    LET answer(kind, version, value) ==
            [kind |-> kind, to |-> r.from, tag |-> r.tag,
             version |-> version, value |-> value]
    IN  IF r.kind = "get"
        THEN IF Absent(entry) THEN answer("notfound", 0, {})
             ELSE answer("put", entry.version, entry.value)
        ELSE IF Stale(entry, r.version) THEN answer("stale", 0, {})
             ELSE answer("put", r.version, r.value)

\* serverConn.handleInput for one message: apply it, answer on the connection
\* it came from, and start the fan-out of an accepted put.
HandleInput(r) ==
    LET output == ApplyMessage(store, r)
        accepted == r.kind = "put" /\ output.kind = "put"
    IN  /\ requests' = requests \ {r}
        /\ store' = IF accepted THEN NewEntry(r.version, r.value) ELSE store
        /\ log' = IF accepted THEN [log EXCEPT ![r.version] = r.value] ELSE log
        /\ inbox' = IF r.conn = conn[r.from] /\ op[r.from].kind # "down"
                    THEN inbox \cup {output} ELSE inbox
        /\ broadcasts' = IF accepted
                         THEN broadcasts \cup {[from |-> r.from, conn |-> r.conn,
                                version |-> r.version, value |-> r.value]}
                         ELSE broadcasts
        /\ UNCHANGED <<node, op, local, listening, acked>>
        /\ UNCHANGED faultVars

\* Server.broadcast: every connection but the one the put came from.  A sender
\* that has reconnected since is no longer excluded.
Fanout(b) ==
    /\ broadcasts' = broadcasts \ {b}
    /\ inbox' = inbox \cup
        {[kind |-> "put", to |-> m, tag |-> 0,
          version |-> b.version, value |-> b.value] :
              m \in {d \in Mounts : op[d].kind # "down"
                                    /\ <<d, conn[d]>> # <<b.from, b.conn>>}}
    /\ UNCHANGED <<store, log, node, op, local, requests, listening, acked>>
    /\ UNCHANGED faultVars

--------------------------------------------------------------------------------
(* Answers and notifications arriving at a mount (RemoteVersionedStore). *)

CanReceive(m) == ListenerInLoop => listening[m] = {}

\* The local knowledge of a key never moves to an older version.
Learn(known, i) ==
    IF i.version < known.version THEN known ELSE NewEntry(i.version, i.value)

\* After a put error the local knowledge is known to be stale.
Doubt(known) == [known EXCEPT !.present = FALSE]

\* A failed save: the call undoes its change and returns EIO.  The node stays
\* marked for saving.
NotRolledBack(m, stale) ==
    [node[m] EXCEPT !.shouldReloadMetadata = @ \/ stale]
RolledBack(m, stale) ==
    [node[m] EXCEPT !.xattrs = op[m].undo, !.shouldReloadMetadata = @ \/ stale]

\* A save that was accepted: saveMetadata counts the version, sync clears the
\* mark.
SavedTwice(m) ==
    [node[m] EXCEPT !.version = @ + 2, !.shouldSaveMetadata = FALSE]
Saved(m) ==
    [node[m] EXCEPT !.version = @ + 1, !.shouldSaveMetadata = FALSE]

\* The answer to the request the mount is waiting for.
Answered(m, i) ==
    \/ /\ op[m].kind = "put" /\ i.kind = "put"
       /\ node' = [node EXCEPT ![m] = Saved(m)]
       /\ local' = [local EXCEPT ![m] = Learn(@, i)]
       /\ op' = [op EXCEPT ![m] = Idle]
       /\ acked' = acked \cup op[m].edit
    \/ /\ op[m].kind = "put" /\ i.kind # "put"
       /\ node' = [node EXCEPT ![m] = RolledBack(m, i.kind = "stale")]
       /\ local' = [local EXCEPT ![m] = Doubt(@)]
       /\ op' = [op EXCEPT ![m] = Idle]
       /\ UNCHANGED acked
    \/ /\ op[m].kind = "reload" /\ i.kind = "put"
       /\ node' = [node EXCEPT ![m] = Reloaded(i.version, i.value)]
       /\ local' = [local EXCEPT ![m] = Learn(@, i)]
       /\ op' = [op EXCEPT ![m] = Idle]
       /\ UNCHANGED acked
    \/ /\ op[m].kind = "mount" /\ i.kind = "put"
       /\ node' = [node EXCEPT ![m].version = i.version, ![m].xattrs = i.value]
       /\ local' = [local EXCEPT ![m] = Learn(@, i)]
       /\ op' = [op EXCEPT ![m] = Idle]
       /\ UNCHANGED acked
    \/ /\ op[m].kind \in {"mount", "reload"} /\ i.kind # "put"
       \* mounting an empty file system; for a reload, EIO
       /\ op' = [op EXCEPT ![m] = Idle]
       /\ UNCHANGED <<node, local, acked>>

Receive(i) ==
    LET m == i.to IN
    /\ op[m].kind # "down"
    /\ CanReceive(m)
    /\ inbox' = inbox \ {i}
    /\ \/ /\ i.tag = 0
          /\ local' = [local EXCEPT ![m] = Learn(@, i)]
          /\ listening' = [listening EXCEPT ![m] = @ \cup {i}]
          /\ UNCHANGED <<node, op, acked>>
       \/ /\ i.tag # 0 /\ i.tag = op[m].tag
          /\ Answered(m, i)
          /\ UNCHANGED listening
       \/ /\ i.tag # 0 /\ i.tag # op[m].tag  \* nobody waits for it any more
          /\ UNCHANGED <<node, op, local, listening, acked>>
    /\ UNCHANGED requests
    /\ UNCHANGED serverVars
    /\ UNCHANGED faultVars

\* InvalidateCache takes node.mu, which every waiting call holds except the
\* loading of the root at mount time.
InvalidateUnlocked(m, i) ==
    /\ op[m].kind # "down"
    /\ listening' = [listening EXCEPT ![m] = @ \ {i}]
    /\ node' = [node EXCEPT ![m].shouldReloadMetadata =
                    @ \/ i.version > node[m].version]
    /\ UNCHANGED <<op, local, requests, inbox, acked>>
    /\ UNCHANGED serverVars
    /\ UNCHANGED faultVars
InvalidateCache(m, i) ==
    /\ op[m].kind \in {"idle", "mount"}
    /\ listening' = [listening EXCEPT ![m] = @ \ {i}]
    /\ node' = [node EXCEPT ![m].shouldReloadMetadata =
                    @ \/ i.version > node[m].version]
    /\ UNCHANGED <<op, local, requests, inbox, acked>>
    /\ UNCHANGED serverVars
    /\ UNCHANGED faultVars

--------------------------------------------------------------------------------
(* Faults. *)

\* The process of m is gone, and with it all it knew and was being told.
Exit(m) ==
    /\ op' = [op EXCEPT ![m] = Down]
    /\ node' = [node EXCEPT ![m] = FreshNode]
    /\ local' = [local EXCEPT ![m] = NoEntry]
    /\ listening' = [listening EXCEPT ![m] = {}]
    /\ inbox' = {i \in inbox : i.to # m}
    /\ UNCHANGED <<requests, acked>>
    /\ UNCHANGED serverVars

\* The request timeout: an error other than ErrStalePut, so EIO without a mark
\* for reload.
Timeout(m) ==
    /\ op[m].kind \in {"put", "reload"}
    /\ timedOut' = TRUE
    /\ op' = [op EXCEPT ![m] = Idle]
    /\ node' = IF op[m].kind = "put"
               THEN [node EXCEPT ![m] = RolledBack(m, FALSE)] ELSE node
    /\ UNCHANGED <<local, requests, inbox, listening, acked, conn, losses>>
    /\ UNCHANGED serverVars

\* A mount that cannot load its root exits.
MountTimeout(m) ==
    /\ op[m].kind = "mount"
    /\ timedOut' = TRUE
    /\ Exit(m)
    /\ UNCHANGED <<conn, losses>>

\* The connection of m breaks.  What was on its way to m is lost; requests are
\* lost unless the server has them buffered already.
LoseConnection(m) ==
    /\ losses < MaxLosses
    /\ losses' = losses + 1
    /\ conn' = [conn EXCEPT ![m] = @ + 1]
    /\ inbox' = {i \in inbox : i.to # m}
    /\ \E lost \in SUBSET {r \in requests : r.from = m} :
          requests' = requests \ lost
    /\ UNCHANGED <<node, op, local, listening, acked, timedOut>>
    /\ UNCHANGED serverVars

\* The mount process is killed.
Crash(m) ==
    /\ op[m].kind # "down"
    /\ losses < MaxLosses
    /\ losses' = losses + 1
    /\ conn' = [conn EXCEPT ![m] = @ + 1]
    /\ Exit(m)
    /\ UNCHANGED timedOut

\* The server restarts on the same durable store: every connection breaks and
\* the goroutines that had not run are gone.
VolatileRestart ==
    /\ losses < MaxLosses
    /\ losses' = losses + 1
    /\ conn' = [m \in Mounts |-> conn[m] + 1]
    /\ inbox' = {}
    /\ requests' = {}
    /\ broadcasts' = {}
    /\ store' = NoEntry
    /\ UNCHANGED <<log, node, op, local, listening, acked, timedOut>>
ServerRestart ==
    /\ losses < MaxLosses
    /\ losses' = losses + 1
    /\ conn' = [m \in Mounts |-> conn[m] + 1]
    /\ inbox' = {}
    /\ requests' = {}
    /\ broadcasts' = {}
    /\ UNCHANGED <<store, log, node, op, local, listening, acked, timedOut>>

--------------------------------------------------------------------------------

Next ==
    \/ \E m \in Mounts :
        \/ Mount(m)
        \/ \E a \in Attrs, flags \in Flags : Setxattr(m, a, flags)
        \/ ReturnAtOnce(m)
        \/ Flush(m)
        \/ Reload(m)
        \/ \E i \in listening[m] : InvalidateCache(m, i)
        \/ Timeout(m)
        \/ MountTimeout(m)
        \/ LoseConnection(m)
        \/ Crash(m)
    \/ \E r \in requests : HandleInput(r)
    \/ \E b \in broadcasts : Fanout(b)
    \/ \E i \in inbox : Receive(i)
    \/ ServerRestart

Spec == Init /\ [][Next]_vars

\* The server reads what it is sent, goroutines are scheduled, messages on a
\* connection that stays up arrive, and a request timeout expires.
Fairness ==
    /\ WF_vars(\E r \in requests : HandleInput(r))
    /\ WF_vars(\E b \in broadcasts : Fanout(b))
    /\ \A m \in Mounts :
        /\ WF_vars(\E i \in inbox : i.to = m /\ Receive(i))
        /\ WF_vars(\E i \in listening[m] : InvalidateCache(m, i))
        /\ WF_vars(Timeout(m))
        /\ WF_vars(MountTimeout(m))

FairSpec == Spec /\ Fairness

--------------------------------------------------------------------------------
(* The inductive invariant behind CachedIsPublished and RegisterSpec. *)

\* A version and value that are, or once were, the entry of the key.
Published(version, value) ==
    version \in 0..store.version /\ value = log[version]

\* The log is the history of the entry, and no version drops an attribute.
History ==
    /\ log[0] = {}
    /\ Published(store.version, store.value)
    /\ store.present <=> store.version > 0
    /\ \A v \in 0..store.version :
          \A w \in 0..store.version : v <= w => log[v] \subseteq log[w]

\* What is on its way, waits for a listener or is known locally was published.
Knowledge ==
    /\ \A m \in Mounts : Published(local[m].version, local[m].value)
    /\ \A i \in inbox : i.kind = "put" => Published(i.version, i.value)
    /\ \A b \in broadcasts : Published(b.version, b.value)
    /\ \A m \in Mounts :
          \A i \in listening[m] : Published(i.version, i.value)

\* At most one attribute more.
Extends(value, base) == \E added \in Values :
    value = base \cup added /\ (added = {} \/ \E a \in Attrs : added = {a})

\* A put in flight was made from some published version, maybe not the last.
Puts ==
    \A r \in requests : r.kind = "put" =>
        /\ r.version \in 1..(store.version + 1)
        /\ Extends(r.value, log[r.version - 1])

\* The cached node of m, and the one a waiting put is trying to publish.
CacheOK(m) ==
    /\ node[m].version \in 0..store.version
    /\ op[m].kind # "put" => node[m].xattrs = log[node[m].version]
    /\ op[m].kind = "put" =>
          /\ op[m].undo = log[node[m].version]
          /\ node[m].xattrs = op[m].undo \cup op[m].edit
          /\ op[m].edit = {} \/ \E a \in Attrs : op[m].edit = {a}
          /\ node[m].version < MaxVersion

\* A tag of m finds the request and the answer it was given to, and no other.
TagOK(m) ==
    /\ op[m].kind \in {"down", "idle"} <=> op[m].tag = 0
    /\ op[m].kind = "put" =>
        /\ \A r \in requests : (r.from = m /\ r.tag = op[m].tag) =>
              /\ r.kind = "put"
              /\ r.version = node[m].version + 1
              /\ r.value = node[m].xattrs
        /\ \A i \in inbox :
              (i.to = m /\ i.tag = op[m].tag /\ i.kind = "put") =>
              /\ i.version = node[m].version + 1
              /\ i.value = node[m].xattrs

\* Notifications are puts, and connections are counted by the losses.
Delivered ==
    /\ \A i \in inbox : i.tag = 0 => i.kind = "put"
    /\ \A m \in Mounts : conn[m] <= losses

\* Everything that is cached, on its way or waiting descends from the history
\* of the key, and tags tie answers to the puts they answer.
Inv ==
    /\ TypeOK
    /\ History
    /\ Knowledge
    /\ Puts
    /\ \A m \in Mounts : CacheOK(m) /\ TagOK(m)
    /\ Delivered

--------------------------------------------------------------------------------
(* Properties. *)

\* Whatever fails, is lost or comes late, the entry of the key only ever goes
\* through updates that keep what earlier ones wrote, and Setxattr returns 0
\* only for an attribute that is in the store: saveMetadata's version + 1, the
\* check in VersionedWrapper.Put and the rollbacks implement MetaRegister.
Register == INSTANCE MetaRegister
                WITH version <- store.version, value <- store.value

RegisterSpec == Register!Spec

\* Between two calls the attributes a mount shows are exactly those of the
\* version its node carries: an update that failed leaves nothing behind in
\* the cache, and a reload never mixes two versions.
CachedIsPublished ==
    \A m \in Mounts :
        op[m].kind \in {"idle", "reload"} => node[m].xattrs = log[node[m].version]

Quiet ==
    /\ requests = {} /\ inbox = {} /\ broadcasts = {}
    /\ \A m \in Mounts : listening[m] = {} /\ op[m].kind \in {"down", "idle"}

UpToDate(m) ==
    \/ op[m].kind = "down"
    \/ node[m].shouldReloadMetadata
    \/ node[m].version = store.version

\* Once everything sent has arrived, no mount holds an old version without
\* knowing it: neither a notification overtaking an answer nor one that waits
\* for node.mu while the call that holds it reloads is lost.
QuiescentCoherent ==
    (Quiet /\ ~timedOut /\ losses = 0) => \A m \in Mounts : UpToDate(m)

\* pkg/message/message.go says of accepted puts that "the server also fans out
\* accepted put messages to all clients that are connected, so they can keep up
\* to date"; so with no connection lost, every mount is up to date or knows it
\* is not once everything has arrived, timeouts or not.
ConnectedKeepUpToDate ==
    (Quiet /\ losses = 0) => \A m \in Mounts : UpToDate(m)

\* A mount that was told of a newer version ends up with it or marked for
\* reload, or gone: a notification that has arrived is acted upon.
NotificationsHandled ==
    \A m \in Mounts :
        \A v \in Versionz :
            (\E i \in listening[m] : i.version = v)
                ~> (\/ op[m].kind = "down"
                    \/ node[m].shouldReloadMetadata
                    \/ node[m].version >= v)
================================================================================
