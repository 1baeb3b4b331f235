# A TLA+ verification of CryptFS

CryptFS is a FUSE file system whose metadata lives in a versioned key-value
server and whose file contents live in a content-addressed blob server. This
directory holds TLA+ models of the parts of it that carry state, TLC
configurations that check them on small instances, and TLAPS proofs about all
of them for instances of any size. Source paths are relative to the repository root.

## 1. The system

| component | state | operations | interacts with |
|---|---|---|---|
| `CryptNode` (`pkg/node/node.go`, `metadata.go`) | per node: `version`, `xattrs`, mode, times, `contentKey`, `content`, `Children`, three flags `shouldSaveMetadata`, `shouldSaveContent`, `shouldReloadMetadata`, a lock `mu` | the FUSE calls; `sync`, `reloadIfNeeded`, `ensureContentLoaded` | metadata store and blob store, with `mu` held over the network |
| `CryptNodeFactory` (`nodefcatory.go`) | map of known nodes | `allocateNode`, `ExistingNode`, `InvalidateCache` | called back by the metadata client for every notification |
| `RemoteVersionedStore` (used, not in the repository) | local copies, requests in flight by tag | `Put`, `Get`, receive loop, request timeout | `Client`, change listener |
| `Client` (`pkg/network/client`) | one cached connection | `Send`, `Receive`, reconnect | metadata server |
| metadata server (`pkg/network/server`) | `conns`, ids, `authorized`, `s.mu` | `Serve`, `handleInput`, `broadcast`, `removeConn`, `Shutdown` | `VersionedWrapper`, every client |
| `VersionedWrapper` (`pkg/storage/store.go`) | one mutex | `Put` with a version check, `Get` | a `Store`: memory or bitcask |
| `Paired`, `DiskStore`, `InMemorySTore`, `RemoteStore`, blob server (`pkg/storage`, `cmd/blob.go`) | two stores, a queue of 42 blobs | `Put`, `Get`, `writeback` | HTTP |
| directory tree (`Create`, `Mkdir`, `Symlink`, `Rename`, `Unlink`, `Rmdir`) | `Children` of several nodes | changes of two or three nodes, one save each | the same stores |
| wire format (`pkg/message`, `pkg/bits`), serialization | buffers | encode, decode | |

What is hard here, and hard to test: calls hold a node's lock while they wait
for the network; requests that timed out for their caller are applied all the
same; every accepted put is fanned out by a goroutine of its own, so
notifications arrive in any order; every save is two independent writes (blob,
metadata) with a different rollback in each caller; the writeback queue is
bounded and retries for ever; a broadcast writes to all clients with the
server's only lock held; a change of the tree is two or three saves without a
transaction, made from a cached copy of directories that other mounts change
too; the locks of a mount come from go-deadlock, which ends the process when
two are ever taken in opposite orders or one is waited for too long; goroutines share a connection that any of
them may replace, and decoders keep their buffers from one message and one
connection to the next. `PROJECT.json` lists these hazards line by line.

What makes the parts correct:

* metadata: no accepted update undoes another one; a success that was reported
  is stored; caches show only what was published; a mount that is behind gets to
  know it.
* content: metadata names only blobs that exist; a flush that returned 0 has
  published the writes; readers see the last writes.
* blob path: an acknowledged blob reaches the blob server and is found; calls
  return.
* server: the list of connections is exact, the fan-out complete, nothing
  crosses the password gate, `Shutdown` and `Serve` return.
* versioned store: one winner per version, versions only rise.
* directory tree: what a user made and nobody removed is found on the server,
  wherever a call fails or the process dies; entries name nodes that exist; the
  tree the kernel sees and the one that is saved agree; reachable nodes keep up
  with other mounts.
* locks: no order of calls ends the mount, and every call returns.
* connections: each end decodes exactly what the other wrote; nobody waits on a
  connection that has been replaced.

## 2. The modules

| module | models |
|---|---|
| `Versions` | the version check of `VersionedWrapper.Put` as operators; used by the next three |
| `NodeSync` | one metadata key, several mounts, the server, and the messages between them |
| `MetaRegister` | what `NodeSync` promises: a register updated one version at a time that loses nothing |
| `FileNode` | content, blob and metadata of one regular file in one mount |
| `BlobPath` | `Paired` over a fast store and a blob server |
| `MetaServer` | the goroutines of the metadata server |
| `VersionedWrapper` | concurrent `Put` and `Get` on the wrapper and its delegate |
| `DirTree` | directories, entries and node objects in one or more mounts; every save of a call a step of its own |
| `NodeLocks` | the locks calls on a mount take, in their order, under go-deadlock |
| `Wire` | `Encoder`, `Decoder` and `bits` as operators on cells |
| `ClientConn` | goroutines of a `Client` on shared connections that carry `Wire`'s cells |
| `NodeSyncProofs`, `FileNodeProofs`, `BlobPathProofs`, `MetaServerProofs`, `VersionedWrapperProofs`, `NodeLocksProofs`, `DirTreeProofs`, `ClientConnProofs` | TLAPS proofs about the module named; the last one also about `Wire` |
| `MC*` | instances for TLC (symmetry sets, messages) |

### NodeSync

`store` is the server's entry, `log` its history; `node[m]` is the `CryptNode`
that mount `m` caches, `op[m]` the call it is in (a call holds `node.mu` until
it returns, so there is at most one), `local[m]` what its
`RemoteVersionedStore` knows, `listening[m]` the notifications waiting for
`node.mu` in `InvalidateCache`. `Setxattr` stands for the operations that change
the metadata of one node, call `sync` and put everything back when it fails
(`Setattr` of a size does not: it keeps the new time, and is in `FileNode`);
`Flush` saves again what an
earlier failure left marked; `Reload` is `reloadIfNeeded`; `HandleInput` is one
turn of `handleInput` with `ApplyMessage`; `Fanout` is a broadcast goroutine.
`Timeout`, `LoseConnection`, `Crash` and `ServerRestart` are the faults.
Messages are sets: a request that timed out may travel on a connection that has
been replaced, and broadcasts run in goroutines of their own, so no order holds.

`RemoteVersionedStore` is not in the repository. What is assumed of it: a
response is matched by its tag; tags in flight are not reused; it never goes
back to an older version it was told of; after a put error it asks the server
again; a request that is not answered ends in an error, and that the error
comes is an assumption, not a result. `ListenerInLoop`
covers both ways in which it may run the change listener, inside or outside its
receive loop.

### FileNode

`Write`, `Flush` (also for `Fsync` and `Release`), `SetattrSize` and `Setattr`,
the two steps of `sync` (`PutBlob*`, `PutMetadata*`) and its callers' rollbacks,
`Refresh` (`Open`, `Getattr`), `Lookup` by the parent in two steps, updates by
other mounts, and crashes. `content` and `spare` are a Go slice and the rest of
its backing array, which `resize` may expose. The bytes of a blob are its own
key. The constant `Environment` names the faults of an instance. `latest`,
`refused`, `writes` and `disturbed` are history: what users of the mount have
written, less what a failed call has given up; the content that a `Setattr` could
not save; whether the writes were reported as saved; and how often something of
`Environment` got in the way (restarts and attribute changes do not count).
A blob counts as accepted when `Blobs.Put` returns nil; what that is worth is
`BlobPath`'s subject.

### BlobPath

`Put` and `Enqueue` are the two halves of `Paired.Put`, which the repository
lacks: they are modelled from the comment on `Paired` and the channel that
`writeback` reads. `DiskPut` has the inverted tests of `DiskStore.Put`;
`MemoryPut` is `InMemorySTore.Put`. `Writeback1` is one round of the retry loop
with the blob server's handler in it, `Writeback1Fails` a round whose request or
answer is lost, `ForeignPut` the put of another mount. `Get` is what `Paired.Get`
finds. The kinds of the two stores are chosen at the start; the blob server has
the kind `"disk"` in the program (`cmd/blob.go:56`), and `"memory"` stands for a
store that reports what it does. `acked` and `granted` are history: the blobs
whose `Paired.Put` has returned nil, and those whose slow `Put` has.

### MetaServer

`Serve` is three steps (`Accept`, `WrapConn`, `Register`), `handleInput` is
`HandleInput`, `SendAnswer`, `Detach` and `RemoveConn`, a broadcast takes `s.mu`
(`BroadcastLock`), serves one connection per step and releases it. A write waits
while `WriteBuffer` messages are unread. `s.mu` comes from go-deadlock, which
ends the process when a goroutine has waited 30 seconds: `DeadlockTimeout`.

### VersionedWrapper

The check and the write of `Put` are two steps with the mutex held; the delegate
may fail, and `BitcaskStore.Get` hides that.

### DirTree

`store` is the server's entry for each key: version, mode, and the keys of the
children. `nodes[m]` are the `CryptNode` objects of mount `m`, each `<<key, n>>`,
since a mount may make several for one key; `children` is `Children`, `inodes`
the second map from names that go-fuse keeps and the kernel sees, `known[m]` the
factory's map. A call is a lookup by the kernel (`LookupFor...`), the body of the
handler up to its first save (`MakeChild`, `Unlink`, `Rmdir`, `Rename`), and one
`Sync`, `SyncStale` or `SyncFails` per save, with the rollback of a failed one.
Between the lookup and the call a directory may be reloaded (`"window"`); between
saves the process may die. `Getattr` and `Opendir` reload what is marked,
`InvalidateCache` marks. The store is a register per key: how it is reached, with
its timeouts and messages, is `NodeSync`'s subject. `Locked` are the nodes
whose `mu` a call holds while it saves; `Unlink` does not lock the child. `alive` is history: what
users have made and neither removed nor replaced. A reload whose get fails
changes nothing and is left out. `Rename` calls `Operations()` on the child that
go-fuse has under the name; when a reload has removed it after the kernel's
lookup, that is a nil dereference; and when a reload has given the object of a
file the key of a directory, its own reload writes to a nil map (`node.go:232`).
Both end the process, as `Crash` does, and the model has no steps for them.
`MaxObjects` bounds the objects of a key: `Update` is not enabled when a key
would have none left to make (`Roomy`).

### NodeLocks

A call is a sequence of lock and unlock steps, as the code takes `mu` of the
directory, of the child, of the new parent and of the factory. go-deadlock
(v0.3.5) records, before a goroutine waits for a lock, which locks it holds
(`PreLock`), and ends the process when two are asked for in the opposite order
later, whether or not anybody waits: `order`, `Exit`. It also ends the process when
a goroutine has waited 30 seconds, and `node.mu` is held over requests to the
servers: `LockTimeout`, possible whenever a lock that is waited for is held. The
kernel does not let two calls change the same
directory at once, nor two renames between directories run at once. `parent` is
the tree: nodes are made, moved and removed, so that locks change their relation.

### Wire and ClientConn

A connection carries cells; a tag or a length, two bytes in the code, is one cell
and counts modulo `Word`, so that messages near the limit fit in an instance.
`Decode` follows `Decoder.Decode` with its buffer and offset: `read` makes room,
fills the buffer from its start and, after an error, does nothing more, while
the getters go on with what is there. `Put64` and `Get64` are recursive functions
over the cells of a version. `Encodable` says which messages the format can carry.

In `ClientConn`, `proc[p]` is where a goroutine is in `doWithConn`, `cur` is
`c.conn`, `decoder` the one decoder of the client, and `conn[c]` the two ends of a
connection with what is under way. `Write` is one step because the encoder's lock
is held over it; `WriteFails` leaves a prefix of the message on the connection;
`LinkDown` cuts both directions anywhere. `CloseBoth` closes the connection that
failed and the one in use. The server's end is the loop of `handleInput` reduced
to decoding and answering; `MetaServer` has the rest of it. When that loop ends
the server does not close the connection, and neither does the model. A client that
closes with answers unread resets the connection, so the server may lose any end of
what was sent (`ServerDone`). `sent`, `got`, `answered` and `received` are history,
per connection, which is what `WholeMessages` compares; `panicked` says that an index
or a slice of a decoder was out of range, after which the process is gone.

## 3. Runs

Passing runs:

| run | shows | distinct states |
|---|---|---|
| `nodesync_updates` | two mounts, two attributes, two updates, timeouts, and up to two lost connections, crashes or server restarts anywhere before the second update (`FaultBound`): `TypeOK`, the inductive `Inv`, `CachedIsPublished`, `QuiescentCoherent`, `RegisterSpec` | 676,000 |
| `filenode_content` | two faults in a behaviour, of every kind, and crashes: `TypeOK`, `PublishedWasAccepted`; and before the first one `FlushedIsPublished`, `ViewIsLatest` | 6,200,000 |
| `blobpath_writeback` | stores of either kind on both sides, failing writes, lost answers, puts of other mounts: `TypeOK`, `AckedNotForgotten`, `AckedIsTaken`, `PutReturnsUnlessStuck` | 111,000 |
| `metaserver_conns` | password required, stalled clients, refused requests, shutdown: `TypeOK`, `AuthGate`, `Registered` | 1,880,000 |
| `metaserver_fanout` | a sender, a connection that fails and one behind it in the list: `FanoutComplete` | 1,150,000 |
| `versioned_races` | three clients race, delegate puts fail: `TypeOK`, `OneWinner`, `VersionsRise` | 59,000 |
| `dirtree_crash` | one mount, every call on two directories, failing saves, reloads in between, crashes: `TypeOK`, `NeverLost`, `NoDanglingEntry`, `TreeIsSaved` | 27,000 |
| `dirtree_shared` | two mounts create, unlink and save in one directory, failing saves: `NeverLost`, `TreeKeepsUp` | 196,000 |
| `nodelocks_order` | two calls at a time on a tree of three nodes: `TypeOK`, `OrderKept`, `CallsReturn` | 161,000 |
| `clientconn_streams` | two senders, a receiver, two connections, a failure anywhere: `TypeOK`, `WholeMessages`, `WholeNeverPanics`, `StaleReaderFreed` | 99,000 |

Runs that end in a counterexample, each against a sentence of the
repository that `PROJECT.json` quotes under "findings":

| run | violated | what happens |
|---|---|---|
| `nodesync_keep_up` | `ConnectedKeepUpToDate` | a timed-out put is applied later; its sender is left out of the fan-out and stays behind unknowingly (`server.go:161`) |
| `blobpath_blocked` | `PutReturns` | the blob server's `DiskStore.Put` returns an error for a write that succeeded; its writeback is repeated for ever, the queue fills up and calls no longer return (`disk.go:27`), though the slow store is to be synced "in the background" (`paired.go:12`) |

Two more configurations pass and are kept for liveness: `NodeSync_liveness.cfg`
(`NotificationsHandled`, with the listener inside the receive loop and one loss, crash
or restart; 78,000 states) and `MetaServer_liveness.cfg` (`FanoutReaches`, as long as
clients read; 69,000 states).

### Bounds

* Two mounts: a conflict, a stale put and a notification each need a writer and
  another one; a third adds only another notified mount. Two attributes make a
  lost update visible, two updates let a mount be behind by more than one. With
  one tag a mount's next request waits until the last one has been answered or
  lost; requests of one mount that overlap are covered by the proofs only, which
  hold for any set of tags. Up to two faults anywhere in the protocol; after a
  fault the first step that takes the entry beyond version 1 is checked and not
  followed further (`FaultBound`), while the proofs have any number of faults and
  versions. A listener outside the receive loop can do all that one inside
  can, and more.
* Files of up to two bytes and two byte values tell truncation, extension and
  old bytes apart; two disturbances let a failed save meet a remote one, two
  versions let a save follow them.
* A queue of one with two callers and two blobs fills up; two failures.
* Two connections, one message of buffer: a sender and a receiver that stalls,
  closes or is not authorized. `metaserver_fanout` has three, the least in which a
  broadcast fails at one connection and is due to reach another one behind it.
  `MaxID` is as large as the number of connections in the runs.
* In `dirtree_crash`, two directories and two new nodes: a rename has another
  directory to go to and another node to replace. Three calls: make, make inside
  or move, and save again. In `dirtree_shared` four calls let each mount act on
  what the other did. `MaxObjects` is large enough never to be reached.
* In `nodelocks_order`, three nodes give a chain of two directories, the least in
  which a rename meets the order of an earlier call, and two goroutines.
* In `clientconn_streams`, the longest messages the format can carry with
  `Word = 11`, two of them in flight, and one failure at any cell. The get's key
  begins like a put with a length at the limit, so that a decoder which reads on
  after an error panics in this instance (`ClientConn_panic.cfg`).
* `Word`, the number of versions, is beyond reach in the runs of `NodeSync` and
  `MetaServer`, as 2^64 is.

`CHECK_DEADLOCK FALSE` is set where the system may stop: `MetaServer`, for that is
what Shutdown is for, `NodeLocks`, whose process may exit, and `ClientConn`, when
its sends and connections are used up.

### Fairness

Goroutines that can run do run (WF). A goroutine that waits for a Go mutex or to
send on a channel is not overtaken for ever (SF): `sync.Mutex` hands over to
starved waiters and channels serve senders in order. In `NodeSync`, messages on a
connection that stays up arrive and request timeouts expire. Clients of the
metadata server keep reading only where the specification says `ClientFairness`
(`FairSpec`); `StallSpec` of `MetaServer_shutdown.cfg` does not, and says that
go-deadlock's timer fires instead. In `NodeLocks` a goroutine that waits for a
mutex gets it (SF), by Go's starvation mode; go-deadlock's timer may end the
process before that. In `ClientConn` a read of a closed connection returns; this is
weak fairness, written with the state predicate that says when the step is enabled.
Of the server nothing is assumed there, for its answers may block, and a read of a
link that is down but not closed may wait for ever. No fairness is assumed of
clients' requests, of faults or of users. In `NodeSync`, that request timeouts expire is
assumed of the `RemoteVersionedStore`: it is what lets `NotificationsHandled` through
when the receive loop itself waits for `node.mu`.

## 4. What the code does otherwise

The passing runs state what holds. What does not hold, beside the two runs above,
is kept as configurations that end in a counterexample:

| configuration, with its `MC` module | violated | what happens, and what the repository says |
|---|---|---|
| `FileNode_resize.cfg` | `PublishedBlobExists` | the key of a blob that could not be saved stays in the node after a failed `Setattr`; a later failed `Flush` rolls back to it and the next save publishes it (`metadata.go:107`). The code says "// Rollback." (`node.go:607`), its tests "rolls back to smaller buffer" (`node_test.go:315`) |
| `FileNode_setattr.cfg` | `SavedIsLatest` | a failed `Setattr` restores the content but not `contentKey`; the next save publishes the size that was rolled back (`node.go:621`), against the same words |
| `FileNode_reload.cfg` | `SavedIsLatest` | a reload between `Write` and `Flush` drops the write and clears `shouldSaveContent`; `Flush` returns 0 (`node.go:200`). "Release would sync writes to mmap-ed files." (`node.go:335`) |
| `BlobPath_lost.cfg` | `AckedKept` | `DiskStore.Put` returns nil for a write that failed; writeback goes on and the blob is nowhere (`disk.go:23`). "syncing that to the slow store" (`paired.go:12`) |
| `BlobPath_overwrite.cfg` | `NeverOverwritten` | putting a stored blob again truncates its file first; a write that then fails leaves less than there was (`disk.go:22`). "to make sure content is never overwritten" (`blobstore.go:11`) |
| `BlobPath_get.cfg` | `GetFallsBack` | `Paired.Get` returns whatever the fast store's `Get` returned and never asks the slow one (`paired.go:37`). "otherwise from the slow store" (`paired.go:14`) |
| `MetaServer_shutdown.cfg` | `ShutdownReturns` | a client stops reading; a broadcast waits for it with `s.mu` held, and `Shutdown` waits for `s.mu`, until go-deadlock ends the process (`server.go:197`). "This method will return immediately" (`server.go:189`) |
| `MetaServer_serve.cfg` | `ServeReturns` | `Serve` has accepted a connection and waits for an id, the channel being empty, when `Shutdown` stops the generator (`tag.go:37`). "The function will return (some time after) shutdown is called." (`server.go:112`) |
| `VersionedWrapper_byone.cfg` | `VersionsByOne` | a put of a version more than one above the current one is accepted (`store.go:89`). "Put should return ErrStalePut if the current version is not the version passed as argument minus one." (`store.go:48`) |
| `VersionedWrapper_readerror.cfg` | `OneWinner` | `BitcaskStore.Get` hides a read error and `Put` skips the version check; two clients make the same version (`bitcask.go:41`), against the same words |
| `DirTree_keepup.cfg` | `EveryNodeKeepsUp` | an object whose key a reload has changed is not the one the factory marks (`node.go:226`, `nodefcatory.go:56`). "InvalidateCache invalidates a cached node" (`nodefcatory.go:77`) |
| `ClientConn_panic.cfg` | `NoPanic` | when the connection ends, `Decode` reads the key of the last message as the header of a put with a length near the limit and panics (`encoding.go:119`); node keys are random bytes. "It will return the first read error encountered in the process" (`encoding.go:108`) |
| `ClientConn_torn.cfg` | `DecodedIsWritten` | a write fails half way; another `Send` that already has the connection writes behind it, before `closeBoth`; the server takes that message for the rest of the first (`encoding.go:57`, `client.go:124`). "it is up to the client to serialize access to the writer as necessary" (`encoding.go:33`) |
| `ClientConn_long.cfg` | `WholeMessages` | a value longer than a length can say is written with a truncated one and the stream is out of step. A value is the metadata of a node: a directory reaches 64 KiB at some 1,500 entries (`encoding.go:126`, `bits.go:42`). "TestMessageWhatYouEncodeIsWhatYouDecode" (`encoding_test.go:11`) |

The passing runs also leave out the following behaviours, of which the repository
says nothing. What TLC shows when they are put back:

| change to a run | violated | what happens |
|---|---|---|
| `filenode_content` without `disturbed = 0`, `"blob"` | `FlushedIsPublished` | after a failed blob put `Flush` sets `content` to nil and leaves `shouldSaveContent`; the `Release` that follows publishes an empty file (`node.go:330`) |
| the same, `"metadata"`, `Sizes = {}` | `ViewIsLatest` | after a failed `Flush` the content is nil until the next `Open`; a `Write` starts from an empty file (`node.go:330`) |
| the same, `"sparse"` | `ViewIsLatest` | extending a truncated file within the slice's capacity brings the old bytes back (`node.go:552`) |
| the same, `"lookup"` | `FlushedIsPublished`, `ViewIsLatest` | `Lookup` by the parent, without the child's lock, overwrites a concurrent `Write` (`node.go:283`) |
| `metaserver_conns`, `MaxID = 1` | `Registered` | ids repeat, after 65535 connections in the code; removing a connection removes another one with its id from the fan-out (`server.go:149`) |
| `versioned_races`, `Failing = {"get"}` | the process panics | `VersionedWrapper.Get` slices the nil value that a hidden read error leaves (`store.go:108`) |
| `dirtree_crash`, `"replace"`, three keys, four calls | `NeverLost` | `Rename` onto a directory that is not empty drops what is in it; there is no `ENOTEMPTY` (`node.go:527`) |
| `dirtree_crash`, `"late"` | `NeverLost` | `Rmdir` times out, is rolled back and applied later; a file made in the directory meanwhile is gone with it (`node.go:159`) |
| `dirtree_crash`, without `~halfway` | `NeverLost` | a save of `Rename` fails and nothing is rolled back; the next save of the old parent publishes it without the file, which no directory lists (`node.go:533`). The test is skipped: "To be able to rollback renaming, we need transactions on the metadataserver." (`node_test.go:262`) |
| `dirtree_shared`, `"rmdir"` | `NeverLost` | `Rmdir` finds its own copy of the directory empty, while another mount has made a file in it (`node.go:154`) |
| `dirtree_shared`, `"window"` | `NeverLost` | a reload between the kernel's lookup and `Create` brings in another mount's file of that name; `Create` replaces it (`node.go:449`) |
| `dirtree_shared`, `"rename"` | `TreeKeepsUp` | the factory knows another object for the key than the one in the tree, and notifications go there (`nodefcatory.go:56`) |
| `nodelocks_order`, `OrderKept` without `crossed` | `OrderKept` | `mkdir d/n; touch d/n/f; mv d/n/f d/`: `Mkdir` took `n` after `d`, `Rename` takes `d` after `n`, and go-deadlock ends the process (`node.go:524`). Nobody need be waiting |

Seen while modelling and not stated as properties: `closeBoth`
with the error of an old connection closes the one in use (`client.go:88`), so two
goroutines can take turns in closing each other's connections; the default address
`tcp://127.0.0.1:8000` is dialled with its prefix (`client.go:61`); a connection
accepted before `Shutdown` and registered after it is served on (`server.go:199`).

## 5. Proofs

Every theorem holds for any values of the constants that satisfy the `ASSUME`s
of the module, which the runs evaluate, and the conditions in the third column.

| module | theorem | condition |
|---|---|---|
| `NodeSyncProofs` | `Invariance` (`Inv`), `TypeCorrectness`, `CachesArePublished` (`CachedIsPublished`), `Refinement` (`RegisterSpec`), `NobodyLeftBehind` (`QuiescentCoherent`) | the versions of an instance do not wrap (`BoundAssumption`) |
| `VersionedWrapperProofs` | `TypeCorrectness` | |
| | `OneWins` (`OneWinner`), `VersionsOnlyRise` (`VersionsRise`) | `Truthful`: reads of the delegate do not fail, versions stay below the last word |
| `FileNodeProofs` | `TypeCorrectness`, `BlobsComeFirst` (`PublishedWasAccepted`), `SavedIsWritten` (`FlushedIsPublished`), `ReadIsWritten` (`ViewIsLatest`) | |
| `MetaServerProofs` | `TypeCorrectness`, `NoValueWithoutPassword` (`AuthGate`), `FanoutReachesAll` (`FanoutComplete`) | |
| | `ListIsExact` (`Registered`) | `FewConns`: no more connections than ids |
| `BlobPathProofs` | `TypeCorrectness`, `NothingForgotten` (`AckedNotForgotten`) | |
| `NodeLocksProofs` | `TypeCorrectness`, `NoInversion` (`OrderKept`) | |
| `DirTreeProofs` | `TypeCorrectness`, `EntriesAreStored` (`NoDanglingEntry`), `TreeAgrees` (`TreeIsSaved`) | |
| `ClientConnProofs` | `TypeCorrectness`, `MessagesAreWhole` (`WholeMessages`), `NeverPanics` (`WholeNeverPanics`) | `EncodableMessages`: tags, lengths and versions fit the format |

The conditions are what breaks the property in the code, and TLC shows how: a
hidden read error (`VersionedWrapper_readerror.cfg`), repeated ids (section 4) and
metadata too long for the format (`ClientConn_long.cfg`). The instance of
`clientconn_streams` satisfies `EncodableMessages` at its limit, which TLC evaluates
(`InstanceAssumption`). With 16 bits, `FewConns` means that the server has accepted at
most 65535 connections since it started. Theorems whose property stops at an event
(`disturbed`, `halfway`, `crossed`, `torn`, a timeout) say no more than the property:
what happens after it is in the counterexamples and in section 4.

### NodeSync

`CachedIsPublished` is not inductive: a rollback restores what the call
remembers, and an answer changes the node by its tag. `Inv` adds that the log is
a history in which no version drops an attribute (`History`); that everything
known locally, on its way or waiting was published (`Knowledge`); that a put in
flight extends the version before its own (`Puts`); what a waiting call will
restore (`CacheOK`); and that a tag finds only the request and answer it was
given to (`TagOK`). The central lemma, `AcceptedIsNext`, says that a put which
passes the version check is the next version and extends the current value:
a put's version is at most one above the current one (`Puts`), and the check
refuses anything lower. From it follow both `History'` and the refinement.

`QuiescentCoherent` says nothing while messages are under way, so its invariant
has to say why they suffice. `Coherent`: as long as nothing was lost or timed out,
a mount has one request or one answer under way (`OneRequest`); its store has the
last version or will be told (`StoreKnows`); and its node has the last version, is
marked, or has the notification, the answer or the refusal still to come
(`NodeKnows`). The two differ, since a reload that was answered already replaces
a marked node by what the answer holds.

### VersionedWrapper

The mutex excludes (`Exclusive`), so the entry a `Put` has checked is the entry it
replaces (`Checked`). `OneWinner` needs in addition that whoever was told of
success is not newer than the entry (`Won`), and that versions stay below the
last word (`Bounded`), for past it the expected version is 0.

### FileNode

`TypeOK` bounds the content; that a resize stays within bounds needs the slice
and the rest of its array together (`Fits`). `PublishedWasAccepted` is about what is
published; `KeysStored` adds the key in the node and the one a call would roll
back to, which are published later. The content that a `Setattr` could not save is
part of the statement, since its key stays in the node and can be published. For `FlushedIsPublished` and `ViewIsLatest`,
`Quiet` says what the flags mean while nothing has disturbed the mount: what is not
marked for saving is on the servers (`UpToDate`), and a node the kernel holds has
its content in memory (`Held`).

### MetaServer

`AuthGate` rests on what handlers are about to send (`Withheld`), `FanoutComplete`
on how far the broadcast has come in the list it copied (`Served`), both on the
order in which a connection is accepted, given an id and registered (`Phases`).
`Registered` needs that ids are not shared: `Numbered` says that the generator, its
channel and the ids given out are one run of numbers, and `FewConns` that the run
does not wrap. Then `removeConn`, which compares ids, removes just one (`Listed`).

### BlobPath

`AckedNotForgotten` is inductive with `TypeOK`: `Paired.Put` acknowledges when
the blob is in the queue, and `writeback1` gives it up only after the slow store's
`Put` returned nil, whatever that store then has (`BlobPath_lost.cfg`).

### NodeLocks

`Orderly`: as long as nothing was moved between directories, every call is at a
known place of its sequence of steps (`Staged`), a node that is being made is
in one call only (`MadeOnce`), and go-deadlock's order goes from parents to
children and never back (`Downward`). `OrderKept` follows; `Downward` alone is
not inductive, since what a lock step adds depends on what the call holds. The order is
recorded before the wait, so a goroutine that waits counts as one that holds.

### DirTree

None of the three properties is inductive: what a save publishes is what the mount
lists, and what a rollback leaves depends on what the call has done. The invariant
(`Inv`) says of every mount that whatever its objects list, in `Children` or in
go-fuse's tree, has been made and is stored (`Entries`), that objects which are not
loaded list nothing (`Blank`), that go-fuse holds only loaded nodes (`Inodes`) and
that the two trees agree (`Agree`). A call under way is excepted: the entry of a
new node is not stored until its first save (`Unsaved`), the entries it has changed
are not yet go-fuse's (`Excepted`), and `CallOK` says what it has changed and what it
has left to save. From there: a save publishes only entries that are stored
(`PublishOK`), except that the first save of `Create` stores the node whose entry the
second one publishes (`AdvancedOK`); a call that ends tells go-fuse just the entries
it has changed (`AppliedOK`); a rollback takes both maps back (`RolledBackOK`), also
when a reload came in between, for the nodes of a call that saves are locked
(`CallGrown`). What other mounts save changes the store only, where nothing stored is
ever unstored (`OthersOK`).

A load makes an object per entry by a fold over the names, of which there may be any
number. `FoldSet` is defined by a function on the subsets of a set that is chosen; the
first lemmas show by induction on finite sets that it exists and that what a step keeps,
the fold keeps. The proof of that needs no operator as a parameter: the induction
is over a set of sets.

### ClientConn

`DecodeAgrees` is about `Decode` alone: fed with a prefix of the encoding of a message,
and whatever its buffer holds, it returns the message and leaves the rest of the input
if the prefix is all of it, and an error otherwise. It rests on what each piece of the
decoder does (`ReadAgrees`, `GetsHeld`, `PutDecoded`) and, for a version of any number
of cells, on `VersionRoundTrip`, an induction over the set of numbers of cells for which it
holds. `StreamInv` says of each direction of a connection that what is under way is
what was written and not yet decoded, cut short at most at its end, where half a
message may follow (`Stream`). Both ends decode prefixes of it, so `WholeMessages`
follows; the exception for the server is a write behind half a message (`torn`).

`WholeNeverPanics` follows from the same two: by `StreamInv` a message that is decoded
is one that was written, and by `DecodeAgrees` the decoder has made room for each
part of it by then, whatever was in its buffer. Nothing of the kind holds after a
failed read (`ClientConn_panic.cfg`).

### Only model-checked

* Liveness, which is under fairness: `NotificationsHandled`, `AckedIsTaken`,
  `PutReturnsUnlessStuck`, `FanoutReaches`, `CallsReturn`, `StaleReaderFreed`.
* `NeverLost` of `DirTree`: that a node is reached on the server from the first
  directories is a path of any length, which each save may cut and join elsewhere;
  its invariant relates every cached copy of every directory to the stored one.
* `TreeKeepsUp` of `DirTree`: it needs, for every object in the tree, who is still to be
  notified of which version, and that the factory marks this object and no other. The
  latter fails where a reload makes a second object for a key (section 4), so a theorem
  would have to say when none is made: a condition on the order of calls of all mounts,
  not on a constant.

## 6. Not modelled

* The byte layout of serialized metadata, and the panics of message accessors.
* `InodeNumbersGenerator`, which has the shape of the id generator in
  `MetaServer`.
* TLS, the choice of addresses, bcrypt and hashing are taken as they are.
* Command line, logging, version, `genhash`, `Statfs`.
* `Getxattr`, `Read` and `Readlink` only read.

## 7. Plan

1. Done: `Versions`, `NodeSync` with `MetaRegister`, `FileNode`, `BlobPath`,
   `MetaServer`, `VersionedWrapper`, `DirTree`, `NodeLocks`, `Wire`, `ClientConn`.
2. Done: proofs of the safety properties of all of them, but for `NeverLost` and
   `TreeKeepsUp` of `DirTree`.
3. Left: these two.
