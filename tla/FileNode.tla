------------------------------- MODULE FileNode -------------------------------
(***************************************************************************)
(* The content of one regular file as a mount caches it: written in memory *)
(* by Write and Setattr, saved by sync() first as a blob and then as the   *)
(* contentKey of the file's metadata, dropped when another mount's update  *)
(* is loaded, and rolled back when saving fails.                           *)
(*                                                                         *)
(* A blob's key is the Blake2b hash of its bytes; the model takes the      *)
(* bytes themselves as key, which is what the hash stands for.             *)
(*                                                                         *)
(* Environment names what happens around the file in an instance:          *)
(*   "sparse"    callers write or extend past the end of the file          *)
(*   "remote"    another mount saves the same file                         *)
(*   "blob"      blob puts of Flush fail                                   *)
(*   "resize"    blob puts of Setattr fail                                 *)
(*   "metadata"  metadata puts fail                                        *)
(*   "late"      metadata puts fail for the caller, yet are applied        *)
(*   "get"       loading fails           "crash"     the process restarts  *)
(*   "lookup"    Lookup by the parent runs during calls on the file        *)
(*   "chmod"     callers set attributes other than the size                *)
(***************************************************************************)
EXTENDS Naturals, Sequences

CONSTANTS Bytes,      \* values of a byte
          Zero,       \* the byte a hole reads as
          MaxLen,     \* bound: length of the file
          MaxVersion, \* bound: versions of its metadata
          Sizes,      \* sizes Setattr is asked for
          NoKey,      \* contentKey of a file that was never saved
          Environment,
          MaxDisturbances \* bound: faults and foreign steps in a behaviour

ASSUME FileAssumption ==
    /\ Zero \in Bytes
    /\ MaxLen \in Nat /\ MaxVersion \in Nat /\ MaxDisturbances \in Nat
    /\ Sizes \subseteq 0..MaxLen

VARIABLES
    meta,    \* the file's entry on the metadata server: version and contentKey
    blobs,   \* what Blobs.Put has accepted; BlobPath is about what becomes of it
    node,    \* the CryptNode of the file
    call,    \* the call under way in sync(), holding node.mu
    known,   \* the kernel holds the node, from a Create or a Lookup
    lookup,  \* a Lookup by the parent, between its check and its assignment
    latest,  \* history: what users of this mount have put in the file
    refused, \* history: content a Setattr could not save as a blob
    writes,  \* history: whether the last writes are "unsaved", were "saved" by
             \* a Flush or Setattr that returned 0, or neither ("none")
    disturbed \* history: how often something of Environment got in the way

vars == <<meta, blobs, node, call, known, lookup, latest, refused, writes, disturbed>>

Contents == UNION {[1..n -> Bytes] : n \in 0..MaxLen}
Keys     == Contents \cup {NoKey}

\* No content has the empty key.
ASSUME KeyAssumption == NoKey \notin Contents

\* content is the slice node.content; spare, the rest of its backing array.
Node == [version : 0..MaxVersion, contentKey : Keys,
         content : Contents, spare : Contents,
         shouldSaveContent : BOOLEAN, shouldSaveMetadata : BOOLEAN,
         shouldReloadMetadata : BOOLEAN]

\* prevKey and hadContent are what Flush rolls back to; prevContent and
\* prevSpare are Setattr's rbcontent, when it resized the file.
Call == [kind : {"none", "flush", "setattr"}, step : {"none", "content", "metadata"},
         prevKey : Keys, hadContent : BOOLEAN, resized : BOOLEAN,
         prevContent : Contents, prevSpare : Contents]

NoCall == [kind |-> "none", step |-> "none", prevKey |-> NoKey,
           hadContent |-> FALSE, resized |-> FALSE,
           prevContent |-> <<>>, prevSpare |-> <<>>]

NoLookup == [active |-> FALSE, overlaps |-> FALSE, value |-> <<>>]

TypeOK ==
    /\ meta \in [version : 0..MaxVersion, contentKey : Keys]
    /\ blobs \subseteq Contents
    /\ node \in Node
    /\ call \in Call
    /\ known \in BOOLEAN
    /\ lookup \in [active : BOOLEAN, overlaps : BOOLEAN, value : Contents]
    /\ latest \in Contents
    /\ refused \subseteq Contents
    /\ writes \in {"none", "unsaved", "saved"}
    /\ disturbed \in 0..MaxDisturbances

\* The content a key gives access to.
Fetch(key) == IF key \in blobs THEN key ELSE <<>>

\* The node as LoadMetadata leaves it: content is loaded on demand.
Loaded(version, contentKey) ==
    [version |-> version, contentKey |-> contentKey,
     content |-> <<>>, spare |-> <<>>, shouldSaveContent |-> FALSE,
     shouldSaveMetadata |-> FALSE, shouldReloadMetadata |-> FALSE]

\* The file as Create leaves it; versions are counted from there.
Init ==
    /\ meta = [version |-> 0, contentKey |-> NoKey]
    /\ blobs = {}
    /\ node = Loaded(0, NoKey)
    /\ call = NoCall
    /\ known = TRUE
    /\ lookup = NoLookup
    /\ latest = <<>>
    /\ refused = {}
    /\ writes = "none"
    /\ disturbed = 0

\* The kernel may call, and node.mu is free.
Free ==
    /\ known
    /\ call = NoCall
    /\ lookup.active => lookup.overlaps

Disturb(what) ==
    /\ what \in Environment
    /\ disturbed < MaxDisturbances
    /\ disturbed' = disturbed + 1

--------------------------------------------------------------------------------
(* Content in memory. *)

\* What POSIX makes of a file whose length is set: a hole reads as zeros.
Resized(c, size) ==
    [i \in 1..size |-> IF i <= Len(c) THEN c[i] ELSE Zero]

\* resize: a new array when the old one is too small, else the same one.
ResizeDropping(n, size) ==
    [n EXCEPT !.content = [i \in 1..size |-> Zero], !.spare = <<>>]
Resize(n, size) ==
    LET cells == n.content \o n.spare
    IN  IF size > Len(cells)
        THEN [n EXCEPT !.content = Resized(@, size), !.spare = <<>>]
        ELSE [n EXCEPT !.content = SubSeq(cells, 1, size),
                       !.spare = SubSeq(cells, size + 1, Len(cells))]

AllowedEnd(end) ==
    \/ end <= Len(node.content) /\ UNCHANGED disturbed
    \/ end > Len(node.content) /\ Disturb("sparse")

\* Write of one byte at offset off (counted from 0).
Write(off, byte) ==
    /\ Free
    /\ off < MaxLen
    /\ AllowedEnd(off)
    /\ LET n == IF off + 1 > Len(node.content) THEN Resize(node, off + 1) ELSE node
           l == IF off + 1 > Len(latest) THEN Resized(latest, off + 1) ELSE latest
       IN  /\ node' = [n EXCEPT !.content[off + 1] = byte,
                                !.shouldSaveContent = TRUE]
           /\ latest' = [l EXCEPT ![off + 1] = byte]
    /\ writes' = "unsaved"
    /\ UNCHANGED <<meta, blobs, call, known, lookup, refused>>

--------------------------------------------------------------------------------
(* Saving. *)

FirstStep(n) == IF n.shouldSaveContent THEN "content" ELSE "metadata"

\* Flush, and Fsync and Release, which call it.
Flush ==
    /\ Free
    /\ node.version < MaxVersion
    /\ IF node.shouldSaveContent \/ node.shouldSaveMetadata
       THEN /\ call' = [NoCall EXCEPT !.kind = "flush", !.step = FirstStep(node),
                            !.prevKey = node.contentKey,
                            !.hadContent = node.shouldSaveContent]
            /\ UNCHANGED writes
       ELSE /\ writes' = IF writes = "unsaved" THEN "saved" ELSE writes
            /\ UNCHANGED call
    /\ UNCHANGED <<meta, blobs, node, known, lookup, latest, disturbed, refused>>

\* Setattr with a size.  Other attributes are abstracted away.
SetattrSize(size) ==
    /\ Free
    /\ node.version < MaxVersion
    /\ AllowedEnd(size)
    /\ node' = [Resize(node, size) EXCEPT !.shouldSaveContent = TRUE,
                                          !.shouldSaveMetadata = TRUE]
    /\ latest' = Resized(latest, size)
    /\ call' = [NoCall EXCEPT !.kind = "setattr", !.step = "content",
                    !.resized = TRUE, !.prevContent = node.content,
                    !.prevSpare = node.spare]
    /\ writes' = "unsaved"
    /\ UNCHANGED <<meta, blobs, known, lookup, refused>>

\* Setattr of times, owner or mode.
Setattr ==
    /\ Free
    /\ "chmod" \in Environment
    /\ node.version < MaxVersion
    /\ node' = [node EXCEPT !.shouldSaveMetadata = TRUE]
    /\ call' = [NoCall EXCEPT !.kind = "setattr", !.step = FirstStep(node)]
    /\ UNCHANGED <<meta, blobs, known, lookup, latest, writes, disturbed, refused>>

\* sync() saved the content: its key is new, and the metadata with it.
PutBlobKeyForgotten ==
    /\ call.step = "content"
    /\ blobs' = blobs \cup {node.content}
    /\ node' = [node EXCEPT !.contentKey = node.content,
                            !.shouldSaveContent = FALSE]
    /\ call' = IF node.shouldSaveMetadata
               THEN [call EXCEPT !.step = "metadata"] ELSE NoCall
    /\ writes' = IF node.shouldSaveMetadata THEN writes ELSE "saved"
    /\ UNCHANGED <<meta, known, lookup, latest, disturbed, refused>>
PutBlob ==
    /\ call.step = "content"
    /\ blobs' = blobs \cup {node.content}
    /\ LET changed == node.contentKey # node.content
           save == node.shouldSaveMetadata \/ changed
       IN  /\ node' = [node EXCEPT !.contentKey = node.content,
                                   !.shouldSaveContent = FALSE,
                                   !.shouldSaveMetadata = save]
           /\ call' = IF save THEN [call EXCEPT !.step = "metadata"] ELSE NoCall
           /\ writes' = IF save THEN writes ELSE "saved"
    /\ UNCHANGED <<meta, known, lookup, latest, disturbed, refused>>

\* The caller's rollback, of a node n as the failed sync() left it.
RolledBack(n) ==
    CASE call.kind = "flush" /\ n.contentKey # call.prevKey ->
            [n EXCEPT !.contentKey = call.prevKey, !.content = <<>>, !.spare = <<>>]
      [] call.kind = "setattr" /\ call.resized ->
            [n EXCEPT !.content = call.prevContent, !.spare = call.prevSpare]
      [] OTHER -> n

\* A call that failed has had no effect: a Flush that had content to save gives
\* up the writes since the last save, a Setattr its new size.
LatestAfterFailure ==
    CASE call.kind = "flush" /\ call.hadContent -> Fetch(call.prevKey)
      [] call.kind = "setattr" /\ call.resized  -> call.prevContent
      [] OTHER -> latest

Fail(n) ==
    /\ node' = RolledBack(n)
    /\ call' = NoCall
    /\ latest' = LatestAfterFailure
    /\ writes' = "none"

BlobMayFail ==
    \/ call.kind = "flush" /\ Disturb("blob")
    \/ call.kind = "setattr" /\ Disturb("resize")

\* The blob is not saved; BlobStoreWrapper.Put returns its key all the same.
PutBlobFailureIgnored ==
    /\ call.step = "content"
    /\ BlobMayFail
    /\ node' = [node EXCEPT !.contentKey = node.content,
                            !.shouldSaveContent = FALSE,
                            !.shouldSaveMetadata = TRUE]
    /\ call' = [call EXCEPT !.step = "metadata"]
    /\ UNCHANGED <<meta, blobs, known, lookup, latest, writes, refused>>
PutBlobFails ==
    /\ call.step = "content"
    /\ BlobMayFail
    /\ Fail([node EXCEPT !.contentKey = node.content])
    /\ refused' = IF call.kind = "setattr" THEN refused \cup {node.content} ELSE refused
    /\ UNCHANGED <<meta, blobs, known, lookup>>

NextMetaTwice == [version |-> node.version + 2, contentKey |-> node.contentKey]
NextMeta == [version |-> node.version + 1, contentKey |-> node.contentKey]

PutMetadata ==
    /\ call.step = "metadata"
    /\ meta.version = node.version
    /\ meta' = NextMeta
    /\ node' = [node EXCEPT !.version = @ + 1, !.shouldSaveMetadata = FALSE]
    /\ call' = NoCall
    /\ writes' = "saved"
    /\ UNCHANGED <<blobs, known, lookup, latest, disturbed, refused>>

PutMetadataStale ==
    /\ call.step = "metadata"
    /\ meta.version > node.version
    /\ Fail([node EXCEPT !.shouldReloadMetadata = TRUE])
    /\ UNCHANGED <<meta, blobs, known, lookup, disturbed, refused>>

PutMetadataFails ==
    /\ call.step = "metadata"
    /\ \/ Disturb("metadata") /\ meta' = meta
       \/ Disturb("late") /\ meta.version = node.version /\ meta' = NextMeta
    /\ Fail(node)
    /\ UNCHANGED <<blobs, known, lookup, refused>>

--------------------------------------------------------------------------------
(* Loading. *)

\* The conditions under which ensureContentLoaded asks the blob store.
NeedsContent(n) ==
    /\ ~n.shouldSaveContent
    /\ n.contentKey # NoKey
    /\ n.content = <<>>

WithContent(n) ==
    IF NeedsContent(n)
    THEN [n EXCEPT !.content = Fetch(n.contentKey), !.spare = <<>>] ELSE n

\* reloadIfNeeded, for a node marked for it.
ReloadedNode ==
    IF node.contentKey # meta.contentKey THEN Loaded(meta.version, meta.contentKey)
    ELSE [node EXCEPT !.version = meta.version, !.shouldSaveContent = FALSE,
                      !.shouldSaveMetadata = FALSE, !.shouldReloadMetadata = FALSE]

\* Getattr and Open: reloadIfNeeded, then ensureContentLoaded.
Refresh ==
    /\ Free
    /\ LET n == IF node.shouldReloadMetadata THEN ReloadedNode ELSE node
       IN  \/ node' = WithContent(n) /\ UNCHANGED disturbed
           \/ Disturb("get") /\ NeedsContent(n) /\ node' = n
    /\ latest' = IF node.shouldReloadMetadata /\ ~node.shouldSaveContent
                 THEN Fetch(meta.contentKey) ELSE latest
    /\ UNCHANGED <<meta, blobs, call, known, lookup, writes, refused>>

\* Lookup by the parent loads the content of the file without its lock, so
\* calls on the file may overlap it.
Lookup ==
    /\ ~lookup.active
    /\ IF NeedsContent(node)
       THEN \E overlaps \in BOOLEAN :
            /\ IF overlaps THEN Disturb("lookup")
                           ELSE call = NoCall /\ UNCHANGED disturbed
            /\ node.contentKey \in blobs
            /\ lookup' = [active |-> TRUE, overlaps |-> overlaps, value |-> node.contentKey]
            /\ UNCHANGED known
       ELSE /\ known' = TRUE
            /\ UNCHANGED <<lookup, disturbed>>
    /\ UNCHANGED <<meta, blobs, node, call, latest, writes, refused>>

LookupReturns ==
    /\ lookup.active
    /\ lookup' = NoLookup
    /\ known' = TRUE
    /\ node' = [node EXCEPT !.content = lookup.value, !.spare = <<>>]
    /\ UNCHANGED <<meta, blobs, call, latest, writes, disturbed, refused>>

--------------------------------------------------------------------------------
(* Other mounts and faults. *)

\* Another mount saves the file: blob first, then metadata.
RemoteSave(content) ==
    /\ Disturb("remote")
    /\ meta.version < MaxVersion
    /\ blobs' = blobs \cup {content}
    /\ meta' = [version |-> meta.version + 1, contentKey |-> content]
    /\ writes' = IF writes = "saved" THEN "none" ELSE writes
    /\ UNCHANGED <<node, call, known, lookup, latest, refused>>

\* The notification of a newer version, under node.mu.
InvalidateCache ==
    /\ call = NoCall
    /\ meta.version > node.version
    /\ node' = [node EXCEPT !.shouldReloadMetadata = TRUE]
    /\ UNCHANGED <<meta, blobs, call, known, lookup, latest, writes, disturbed, refused>>

Crash ==
    /\ "crash" \in Environment
    /\ node' = Loaded(meta.version, meta.contentKey)
    /\ call' = NoCall
    /\ known' = FALSE
    /\ lookup' = NoLookup
    /\ latest' = Fetch(meta.contentKey)
    /\ UNCHANGED <<meta, blobs, writes, disturbed, refused>>

Next ==
    \/ \E off \in 0..MaxLen, byte \in Bytes : Write(off, byte)
    \/ Flush
    \/ \E size \in Sizes : SetattrSize(size)
    \/ Setattr
    \/ PutBlob
    \/ PutBlobFails
    \/ PutMetadata
    \/ PutMetadataStale
    \/ PutMetadataFails
    \/ Refresh
    \/ Lookup
    \/ LookupReturns
    \/ \E content \in Contents : RemoteSave(content)
    \/ InvalidateCache
    \/ Crash

Spec == Init /\ [][Next]_vars

--------------------------------------------------------------------------------
(* Properties. *)

\* Metadata names only content that the blob store has accepted, whatever fails
\* and wherever the process dies, but for content of which a Setattr has reported
\* that it could not be saved: sync() saves the content before the metadata that
\* refers to it and gives up when that fails, and Flush goes back to the key before.
PublishedWasAccepted ==
    meta.contentKey # NoKey => meta.contentKey \in blobs \cup refused

\* A Setattr whose content could not be saved has no effect, as its "Rollback"
\* and the tests "rolls back to smaller buffer" and "to larger buffer" say: the
\* key of that content is not published later.
PublishedBlobExists ==
    meta.contentKey # NoKey => meta.contentKey \in blobs

\* After a Flush or Setattr that returned 0, the file on the servers is what
\* the users of the mount wrote, as long as nothing else got in the way.
FlushedIsPublished ==
    (disturbed = 0 /\ writes = "saved") => Fetch(meta.contentKey) = latest

\* After a Flush or Setattr that returned 0, the file on the servers is what
\* the users of the mount wrote, less what a call that failed has rolled back,
\* whatever happened before.
SavedIsLatest == writes = "saved" => Fetch(meta.contentKey) = latest

\* Between calls, a reader that opens the file sees what was last written to
\* it on this mount, also after a restart, as long as nothing got in the way.
ViewIsLatest == (disturbed = 0 /\ Free /\ ~lookup.active) => WithContent(node).content = latest

================================================================================
