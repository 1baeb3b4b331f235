---------------------------- MODULE NodeSyncProofs ----------------------------
(***************************************************************************)
(* Proofs about NodeSync for any number of mounts, attributes and tags,    *)
(* and any bounds: Inv is inductive, so that caches show only what was     *)
(* published, and the protocol implements MetaRegister; and, as long as    *)
(* nothing is lost or times out, no mount is left behind.                  *)
(*                                                                         *)
(* There is one lemma per action.  The heart of the argument is            *)
(* AcceptedIsNext: a put that the version check lets through was made from *)
(* the very version it replaces, however long it was under way.            *)
(***************************************************************************)
EXTENDS NodeSync, TLAPS

\* The records that Init and the actions put into variables have their types.
LEMMA ConstantsTyped ==
    /\ NoEntry \in Entry
    /\ FreshNode \in Node
    /\ Down \in Op
    /\ Idle \in Op
    /\ {} \in Values
    /\ 0 \in Versionz
<1> USE BoundAssumption DEF Values, Versionz
<1>1. NoEntry \in Entry
  BY DEF NoEntry, Entry
<1>2. FreshNode \in Node
  BY DEF FreshNode, Node
<1>3. Down \in Op /\ Idle \in Op
  BY DEF Down, Idle, Op
<1> QED
  BY <1>1, <1>2, <1>3

\* Before any mount runs, nothing is published, cached or on its way.
LEMMA InitInv == Init => Inv
<1> SUFFICES ASSUME Init PROVE Inv
  OBVIOUS
<1> USE BoundAssumption, TagAssumption
<1>1. TypeOK
  <2>1. store \in Entry /\ node \in [Mounts -> Node] /\ op \in [Mounts -> Op]
    BY ConstantsTyped DEF Init
  <2>2. log \in [Versionz -> Values] /\ local \in [Mounts -> Entry]
    BY ConstantsTyped DEF Init
  <2>3. /\ conn \in [Mounts -> 0..MaxLosses]
        /\ listening \in [Mounts -> SUBSET Message]
        /\ losses \in 0..MaxLosses
    BY DEF Init
  <2> QED
    BY <2>1, <2>2, <2>3 DEF Init, TypeOK
<1>2. History
  BY DEF Init, History, Published, NoEntry, Versionz
<1>3. Knowledge
  BY DEF Init, Knowledge, Published, NoEntry, Versionz
<1>4. Puts /\ Delivered
  BY DEF Init, Puts, Delivered
<1>5. ASSUME NEW m \in Mounts PROVE CacheOK(m) /\ TagOK(m)
  BY DEF Init, CacheOK, TagOK, NoEntry, FreshNode, Versionz, Down
<1> QED
  BY <1>1, <1>2, <1>3, <1>4, <1>5 DEF Inv

\* A mount that a step does not concern keeps its part of the invariant.
LEMMA OtherMount ==
    ASSUME Inv, NEW n \in Mounts,
           store' = store, log' = log,
           op'[n] = op[n], node'[n].version = node[n].version,
           node'[n].xattrs = node[n].xattrs,
           \A r \in requests' : r.from = n => r \in requests,
           \A i \in inbox' : i.to = n => i \in inbox
    PROVE  CacheOK(n)' /\ TagOK(n)'
BY DEF Inv, CacheOK, TagOK

\* A step that leaves the entry and its history alone unpublishes nothing.
LEMMA SameHistory ==
    ASSUME Inv, store' = store, log' = log
    PROVE  /\ History'
           /\ \A v, x : Published(v, x) => Published(v, x)'
BY DEF Inv, History, Published

\* Sending a get.
LEMMA GetSent ==
    ASSUME Inv, NEW m \in Mounts, NEW t \in Tags, SendGet(m, t)
    PROVE  /\ requests' \subseteq Request
           /\ \A r \in requests' : r.kind = "put" => r \in requests
           /\ \A r \in requests' : r.from # m => r \in requests
<1> DEFINE r == [kind |-> "get", from |-> m, conn |-> conn[m], tag |-> t,
                 version |-> 0, value |-> {}]
<1>1. r \in Request
  BY ConstantsTyped DEF Inv, TypeOK, Request
<1>2. requests' = requests \cup {r} /\ r.kind = "get" /\ r.from = m
  BY DEF SendGet
<1> HIDE DEF r
<1> QED
  BY <1>1, <1>2 DEF Inv, TypeOK

\* Mounting only asks for the root's metadata (cmd/mount.go).
LEMMA MountInv ==
    ASSUME Inv, NEW m \in Mounts, Mount(m) PROVE Inv'
<1> USE BoundAssumption, TagAssumption
<1>0. PICK t \in Tags :
        /\ SendGet(m, t)
        /\ op' = [op EXCEPT ![m] = [Down EXCEPT !.kind = "mount", !.tag = t]]
  BY DEF Mount, FreeTags
<1>u. UNCHANGED <<node, local, inbox, listening, acked, store, log, broadcasts,
                  conn, losses, timedOut>>
  BY DEF Mount, serverVars, faultVars
<1>g. /\ requests' \subseteq Request
      /\ \A r \in requests' : r.kind = "put" => r \in requests
      /\ \A r \in requests' : r.from # m => r \in requests
  BY <1>0, GetSent
<1>1. TypeOK'
  <2>2. op' \in [Mounts -> Op]
    BY <1>0, ConstantsTyped DEF Inv, TypeOK, Down, Op
  <2> QED
    BY <1>u, <1>g, <2>2 DEF Inv, TypeOK
<1>2. History' /\ Knowledge'
  BY <1>u, SameHistory DEF Inv, Knowledge
<1>3. Puts' /\ Delivered'
  BY <1>u, <1>g DEF Inv, Puts, Extends, Delivered
<1>4. ASSUME NEW n \in Mounts PROVE CacheOK(n)' /\ TagOK(n)'
  <2>1. CASE n # m
    BY <1>0, <1>u, <1>g, <2>1, OtherMount DEF Inv, TypeOK
  <2>2. CASE n = m
    <3>1. op'[m].kind = "mount" /\ op'[m].tag = t
      BY <1>0 DEF Inv, TypeOK, Down
    <3> QED
      BY <1>u, <2>2, <3>1 DEF Inv, TypeOK, CacheOK, TagOK, Mount
  <2> QED
    BY <2>1, <2>2
<1> QED
  BY <1>1, <1>2, <1>3, <1>4 DEF Inv

\* Sending a put made from the cached version.
LEMMA StartSyncInv ==
    ASSUME Inv, NEW m \in Mounts, NEW xattrs, StartSync(m, xattrs),
           op[m].kind = "idle",
           NEW added \in Values, xattrs = node[m].xattrs \cup added,
           added = {} \/ \E a \in Attrs : added = {a}
    PROVE  Inv'
<1> USE BoundAssumption, TagAssumption
<1>0. PICK t \in FreeTags(m) :
        /\ SendPut(m, t, node[m].version + 1, xattrs)
        /\ op' = [op EXCEPT ![m] =
                    [kind |-> "put", tag |-> t, undo |-> node[m].xattrs,
                     edit |-> xattrs \ node[m].xattrs]]
  BY DEF StartSync
<1>t. t \in Tags /\ t # 0
  BY DEF FreeTags
<1>f. /\ \A q \in requests : q.from = m => q.tag # t
      /\ \A i \in inbox : i.to = m => i.tag # t
  BY DEF FreeTags
<1>u. UNCHANGED <<local, inbox, listening, acked, store, log, broadcasts,
                  conn, losses, timedOut>>
  BY DEF StartSync, serverVars, faultVars
<1>n. /\ node[m] \in Node
      /\ node[m].version \in 0..store.version
      /\ node[m].version < MaxVersion
      /\ node[m].xattrs = log[node[m].version]
      /\ xattrs \in Values
      /\ xattrs \ node[m].xattrs \in Values
  BY DEF StartSync, Inv, TypeOK, Node, CacheOK, Values
<1>x. /\ node' = [node EXCEPT ![m].xattrs = xattrs, ![m].shouldSaveMetadata = TRUE]
  BY DEF StartSync
<1> DEFINE r == [kind |-> "put", from |-> m, conn |-> conn[m], tag |-> t,
                 version |-> node[m].version + 1, value |-> xattrs]
<1>r. /\ r \in Request /\ requests' = requests \cup {r}
      /\ r.kind = "put" /\ r.from = m /\ r.tag = t
      /\ r.version = node[m].version + 1 /\ r.value = xattrs
  BY <1>0, <1>t, <1>n DEF SendPut, Inv, TypeOK, Request, Node, Versionz
<1> HIDE DEF r
<1>p. /\ node'[m].xattrs = xattrs
      /\ node'[m].version = node[m].version
      /\ \A n \in Mounts : n # m => node'[n] = node[n]
      /\ op'[m].kind = "put" /\ op'[m].tag = t
      /\ op'[m].undo = node[m].xattrs /\ op'[m].edit = xattrs \ node[m].xattrs
      /\ \A n \in Mounts : n # m => op'[n] = op[n]
  BY <1>0, <1>x, <1>n DEF Inv, TypeOK, Node
<1>1. TypeOK'
  <2>1. op' \in [Mounts -> Op]
    <3>1. [kind |-> "put", tag |-> t, undo |-> node[m].xattrs,
            edit |-> xattrs \ node[m].xattrs] \in Op
      BY <1>t, <1>n DEF Op, Node
    <3> QED
      BY <3>1, <1>0 DEF Inv, TypeOK
  <2>2. node' \in [Mounts -> Node]
    BY <1>x, <1>n DEF Inv, TypeOK, Node
  <2>3. requests' \subseteq Request
    BY <1>r DEF Inv, TypeOK
  <2> QED
    BY <1>u, <2>1, <2>2, <2>3 DEF Inv, TypeOK
<1>2. History' /\ Knowledge'
  BY <1>u, SameHistory DEF Inv, Knowledge
<1>3. Puts' /\ Delivered'
  <2>1. r.version \in 1..(store.version + 1)
    BY <1>r, <1>n DEF Inv, TypeOK, Entry, Versionz
  <2>2. r.version - 1 = node[m].version
    BY <1>r, <1>n DEF Node, Versionz
  <2>3. Extends(r.value, log[r.version - 1])
    BY <1>r, <1>n, <2>2 DEF Extends
  <2> QED
    BY <1>u, <1>r, <2>1, <2>3 DEF Inv, Puts, Extends, Delivered
<1>4. ASSUME NEW n \in Mounts PROVE CacheOK(n)' /\ TagOK(n)'
  <2>1. CASE n # m
    BY <1>u, <1>r, <1>p, <2>1, OtherMount
  <2>2. CASE n = m
    <3>1. CacheOK(m)'
      <4>1. op'[m].edit = {} \/ \E a \in Attrs : op'[m].edit = {a}
        BY <1>p
      <4> QED
        BY <1>u, <1>p, <1>n, <4>1 DEF CacheOK
    <3>2. TagOK(m)'
      BY <1>u, <1>p, <1>r, <1>f, <1>t DEF TagOK
    <3> QED
      BY <3>1, <3>2, <2>2
  <2> QED
    BY <2>1, <2>2
<1> QED
  BY <1>1, <1>2, <1>3, <1>4 DEF Inv

\* Setxattr adds one attribute to the cached ones and sends the result.
LEMMA SetxattrInv ==
    ASSUME Inv, NEW m \in Mounts, NEW a \in Attrs, NEW flags \in Flags,
           Setxattr(m, a, flags)
    PROVE  Inv'
<1>1. {a} \in Values
  BY DEF Values
<1> QED
  BY <1>1, StartSyncInv DEF Setxattr

\* Flush sends the cached attributes again, with nothing added.
LEMMA FlushInv ==
    ASSUME Inv, NEW m \in Mounts, Flush(m)
    PROVE  Inv'
<1>1. {} \in Values /\ node[m].xattrs = node[m].xattrs \cup {}
  BY DEF Values
<1> QED
  BY <1>1, StartSyncInv DEF Flush

\* reloadIfNeeded replaces the cached node by a published one, or asks for it.
LEMMA ReloadInv ==
    ASSUME Inv, NEW m \in Mounts, Reload(m)
    PROVE  Inv'
<1> USE BoundAssumption, TagAssumption
<1>u. UNCHANGED <<local, inbox, listening, acked, store, log, broadcasts,
                  conn, losses, timedOut>>
  BY DEF Reload, serverVars, faultVars
<1>2. History' /\ Knowledge'
  BY <1>u, SameHistory DEF Inv, Knowledge
<1>a. CASE /\ node' = [node EXCEPT ![m] = Reloaded(local[m].version, local[m].value)]
           /\ UNCHANGED <<op, requests>>
  <2>1. TypeOK'
    <3>1. Reloaded(local[m].version, local[m].value) \in Node
      BY DEF Inv, TypeOK, Entry, Node, Reloaded
    <3> QED
      BY <1>a, <1>u, <3>1 DEF Inv, TypeOK
  <2>3. Puts' /\ Delivered'
    BY <1>a, <1>u DEF Inv, Puts, Extends, Delivered
  <2>4. ASSUME NEW n \in Mounts PROVE CacheOK(n)' /\ TagOK(n)'
    <3>1. CASE n # m
      BY <1>a, <1>u, <3>1, OtherMount DEF Inv, TypeOK
    <3>2. CASE n = m
      <4>1. /\ node'[m].version = local[m].version
            /\ node'[m].xattrs = local[m].value
            /\ op'[m] = op[m] /\ op[m].kind = "idle"
        BY <1>a DEF Inv, TypeOK, Reloaded, Reload
      <4>2. Published(local[m].version, local[m].value)
        BY DEF Inv, Knowledge
      <4> QED
        BY <1>a, <1>u, <3>2, <4>1, <4>2 DEF Inv, CacheOK, TagOK, Published
    <3> QED
      BY <3>1, <3>2
  <2> QED
    BY <1>2, <2>1, <2>3, <2>4 DEF Inv
<1>b. CASE /\ \E t \in FreeTags(m) :
                /\ SendGet(m, t)
                /\ op' = [op EXCEPT ![m] = [Idle EXCEPT !.kind = "reload", !.tag = t]]
           /\ UNCHANGED node
  <2>0. PICK t \in Tags :
          /\ SendGet(m, t)
          /\ op' = [op EXCEPT ![m] = [Idle EXCEPT !.kind = "reload", !.tag = t]]
    BY <1>b DEF FreeTags
  <2>g. /\ requests' \subseteq Request
        /\ \A r \in requests' : r.kind = "put" => r \in requests
        /\ \A r \in requests' : r.from # m => r \in requests
    BY <2>0, GetSent
  <2>1. TypeOK'
    <3>2. op' \in [Mounts -> Op]
      BY <2>0, ConstantsTyped DEF Inv, TypeOK, Idle, Op
    <3> QED
      BY <1>b, <1>u, <2>g, <3>2 DEF Inv, TypeOK
  <2>3. Puts' /\ Delivered'
    BY <1>u, <2>g DEF Inv, Puts, Extends, Delivered
  <2>4. ASSUME NEW n \in Mounts PROVE CacheOK(n)' /\ TagOK(n)'
    <3>1. CASE n # m
      BY <1>b, <1>u, <2>0, <2>g, <3>1, OtherMount DEF Inv, TypeOK
    <3>2. CASE n = m
      <4>1. op'[m].kind = "reload" /\ op'[m].tag = t
        BY <2>0 DEF Inv, TypeOK, Idle
      <4> QED
        BY <1>b, <1>u, <3>2, <4>1 DEF Inv, TypeOK, CacheOK, TagOK, Reload
    <3> QED
      BY <3>1, <3>2
  <2> QED
    BY <1>2, <2>1, <2>3, <2>4 DEF Inv
<1> QED
  BY <1>a, <1>b DEF Reload

\* What a request is answered with.
LEMMA AnswerTyped ==
    ASSUME Inv, NEW r \in requests
    PROVE  LET output == ApplyMessage(store, r) IN
           /\ output \in Message
           /\ output.to = r.from /\ output.tag = r.tag /\ output.tag # 0
           /\ output.kind = "put" /\ r.kind = "put" =>
                 /\ output.version = r.version /\ output.value = r.value
                 /\ ~Stale(store, r.version)
           /\ output.kind = "put" /\ r.kind # "put" =>
                 /\ output.version = store.version /\ output.value = store.value
<1>0. /\ r \in Request /\ store \in Entry /\ r.tag # 0
      /\ r.from \in Mounts /\ r.tag \in Tags
      /\ r.version \in Versionz /\ r.value \in Values
      /\ store.version \in Versionz /\ store.value \in Values
  BY TagAssumption DEF Inv, TypeOK, Request, Entry
<1>1. CASE r.kind = "get"
  BY <1>0, <1>1, ConstantsTyped DEF ApplyMessage, Message
<1>2. CASE r.kind = "put"
  BY <1>0, <1>2, ConstantsTyped DEF ApplyMessage, Message
<1> QED
  BY <1>0, <1>1, <1>2 DEF Request

\* A put that is accepted is the next version.
LEMMA AcceptedIsNext ==
    ASSUME Inv, NEW r \in requests, r.kind = "put", ~Stale(store, r.version)
    PROVE  /\ r.version = store.version + 1
           /\ Extends(r.value, store.value)
<1>0. /\ store.version \in Nat /\ store.version <= MaxVersion
      /\ r.version \in 1..(store.version + 1)
      /\ Extends(r.value, log[r.version - 1])
      /\ store.present <=> store.version > 0
      /\ store.value = log[store.version]
  BY BoundAssumption
     DEF Inv, TypeOK, Puts, Entry, Versionz, History, Published
<1>1. r.version = store.version + 1
  <2>1. CASE store.version = 0
    BY <1>0, <2>1
  <2>2. CASE store.version > 0
    <3>1. ExpectedVersion(store) = store.version + 1
      BY <1>0, BoundAssumption, WordAssumption DEF ExpectedVersion
    <3> QED
      BY <1>0, <2>2, <3>1 DEF Stale, Absent
  <2> QED
    BY <1>0, <2>1, <2>2
<1>2. r.version - 1 = store.version
  BY <1>0, <1>1
<1> QED
  BY <1>0, <1>1, <1>2

\* The server's handling of a request: an accepted put extends the history by
\* one version that keeps the attributes of the one before.
LEMMA HandleInputInv ==
    ASSUME Inv, NEW r \in requests, HandleInput(r)
    PROVE  Inv'
<1> USE BoundAssumption, TagAssumption
<1> DEFINE output == ApplyMessage(store, r)
           accepted == r.kind = "put" /\ output.kind = "put"
<1>o. /\ output \in Message
      /\ output.to = r.from /\ output.tag = r.tag /\ output.tag # 0
      /\ accepted => /\ output.version = r.version /\ output.value = r.value
                     /\ ~Stale(store, r.version)
      /\ output.kind = "put" /\ r.kind # "put" =>
            /\ output.version = store.version /\ output.value = store.value
  BY AnswerTyped
<1>u. UNCHANGED <<node, op, local, listening, acked, conn, losses, timedOut>>
  BY DEF HandleInput, faultVars
<1>q. /\ requests' = requests \ {r}
      /\ inbox' = inbox \/ inbox' = inbox \cup {output}
  BY DEF HandleInput
<1>s. /\ accepted => /\ store' = NewEntry(r.version, r.value)
                     /\ log' = [log EXCEPT ![r.version] = r.value]
                     /\ broadcasts' = broadcasts \cup
                            {[from |-> r.from, conn |-> r.conn,
                              version |-> r.version, value |-> r.value]}
      /\ ~accepted => store' = store /\ log' = log /\ broadcasts' = broadcasts
  BY DEF HandleInput
<1>r. /\ r \in Request /\ r.version \in Versionz /\ r.value \in Values
      /\ r.from \in Mounts /\ r.conn \in 0..MaxLosses
      /\ store.version \in Versionz
  BY DEF Inv, TypeOK, Request, Entry
<1>k. r.kind # "put" /\ output.kind = "put" =>
        Published(output.version, output.value)
  BY <1>o DEF Inv, History
<1> HIDE DEF output
<1>v. /\ store'.version \in Nat /\ store'.version >= store.version
      /\ accepted => store'.version = store.version + 1
                     /\ store'.value = r.value /\ store'.present
                     /\ r.version = store.version + 1
                     /\ log'[r.version] = r.value
                     /\ Extends(r.value, store.value)
      /\ \A v \in 0..store.version : log'[v] = log[v]
  <2>1. CASE accepted
    <3>1. r.version = store.version + 1 /\ Extends(r.value, store.value)
      BY <1>o, <2>1, AcceptedIsNext
    <3> QED
      BY <1>r, <1>s, <2>1, <3>1 DEF NewEntry, Versionz, Inv, TypeOK
  <2>2. CASE ~accepted
    BY <1>r, <1>s, <2>2 DEF Versionz
  <2> QED
    BY <2>1, <2>2
<1>p. /\ \A v, x : Published(v, x) => Published(v, x)'
      /\ accepted => Published(r.version, r.value)'
  BY <1>r, <1>v DEF Published, Versionz
<1>1. TypeOK'
  <2>1. store' \in Entry /\ log' \in [Versionz -> Values]
    <3>1. NewEntry(r.version, r.value) \in Entry
      BY <1>r DEF Entry, NewEntry
    <3> QED
      BY <1>r, <1>s, <3>1 DEF Inv, TypeOK
  <2>2. broadcasts' \subseteq Broadcast
    <3>1. [from |-> r.from, conn |-> r.conn, version |-> r.version,
           value |-> r.value] \in Broadcast
      BY <1>r DEF Broadcast
    <3> QED
      BY <1>s, <3>1 DEF Inv, TypeOK
  <2> QED
    BY <1>o, <1>u, <1>q, <2>1, <2>2 DEF Inv, TypeOK
<1>2. History'
  <2>1. CASE ~accepted
    BY <1>s, <2>1, SameHistory
  <2>2. CASE accepted
    <3>1. log'[0] = {} /\ (store'.present <=> store'.version > 0)
      BY <1>r, <1>v, <2>2 DEF Inv, History, Versionz
    <3>2. Published(store.version, store.value)'
      BY <1>p, <1>v, <2>2
    <3>3. ASSUME NEW v \in 0..store'.version, NEW w \in 0..store'.version, v <= w
          PROVE  log'[v] \subseteq log'[w]
      <4>1. CASE w <= store.version
        BY <1>r, <1>v, <3>3, <4>1 DEF Inv, History, Versionz
      <4>2. CASE v = w
        BY <4>2
      <4>3. CASE w = store.version + 1 /\ v <= store.version
        <5>1. log[v] \subseteq log[store.version]
          BY <1>r, <4>3 DEF Inv, History, Versionz
        <5>2. log[store.version] = store.value
          BY DEF Inv, History, Published
        <5>3. store.value \subseteq r.value
          BY <1>v, <2>2 DEF Extends
        <5>4. log'[v] = log[v] /\ log'[w] = r.value
          BY <1>r, <1>v, <2>2, <4>3 DEF Versionz
        <5> QED
          BY <5>1, <5>2, <5>3, <5>4
      <4> QED
        BY <1>r, <1>v, <2>2, <3>3, <4>1, <4>2, <4>3 DEF Versionz
    <3> QED
      BY <3>1, <3>2, <3>3 DEF History
  <2> QED
    BY <2>1, <2>2
<1>3. Knowledge'
  <2>1. \A n \in Mounts : Published(local[n].version, local[n].value)'
    BY <1>p, <1>u DEF Inv, Knowledge
  <2>2. \A i \in inbox' : i.kind = "put" => Published(i.version, i.value)'
    BY <1>o, <1>p, <1>q, <1>k DEF Inv, Knowledge
  <2>3. \A b \in broadcasts' : Published(b.version, b.value)'
    BY <1>p, <1>s DEF Inv, Knowledge
  <2>4. \A n \in Mounts :
            \A i \in listening'[n] : Published(i.version, i.value)'
    BY <1>p, <1>u DEF Inv, Knowledge
  <2> QED
    BY <1>u, <2>1, <2>2, <2>3, <2>4 DEF Knowledge
<1>4. Puts'
  <2> SUFFICES ASSUME NEW q \in requests', q.kind = "put"
               PROVE  /\ q.version \in 1..(store'.version + 1)
                      /\ Extends(q.value, log'[q.version - 1])
    BY DEF Puts, Extends
  <2>1. /\ q.version \in 1..(store.version + 1)
        /\ Extends(q.value, log[q.version - 1])
    BY <1>q DEF Inv, Puts
  <2>2. log'[q.version - 1] = log[q.version - 1]
    BY <1>r, <1>v, <2>1 DEF Versionz
  <2> QED
    BY <1>r, <1>v, <2>1, <2>2 DEF Versionz
<1>5. ASSUME NEW n \in Mounts PROVE CacheOK(n)' /\ TagOK(n)'
  <2>1. CacheOK(n)'
    <3>1. CacheOK(n) /\ node[n].version \in 0..store.version
      BY DEF Inv, CacheOK
    <3>2. log'[node[n].version] = log[node[n].version]
      BY <1>v, <3>1
    <3>3. node[n].version \in 0..store'.version
      BY <1>r, <1>v, <3>1 DEF Versionz
    <3> QED
      BY <1>u, <3>1, <3>2, <3>3 DEF CacheOK
  <2>2. TagOK(n)'
    <3>1. TagOK(n)
      BY DEF Inv
    <3>2. (op[n].kind = "put" /\ r.from = n /\ r.tag = op[n].tag) =>
              /\ r.kind = "put" /\ r.version = node[n].version + 1
              /\ r.value = node[n].xattrs
      BY <3>1 DEF TagOK
    <3>3. (op[n].kind = "put" /\ output.to = n /\ output.tag = op[n].tag
            /\ output.kind = "put") =>
              /\ output.version = node[n].version + 1
              /\ output.value = node[n].xattrs
      BY <1>o, <3>2
    <3> QED
      BY <1>u, <1>q, <3>1, <3>3 DEF TagOK
  <2> QED
    BY <2>1, <2>2
<1>6. Delivered'
  BY <1>o, <1>u, <1>q DEF Inv, Delivered
<1> QED
  BY <1>1, <1>2, <1>3, <1>4, <1>5, <1>6 DEF Inv

\* The fan-out of an accepted put spreads only what was published.
LEMMA FanoutInv ==
    ASSUME Inv, NEW b \in broadcasts, Fanout(b)
    PROVE  Inv'
<1> USE TagAssumption
<1> DEFINE message(m) == [kind |-> "put", to |-> m, tag |-> 0,
                          version |-> b.version, value |-> b.value]
<1>u. UNCHANGED <<store, log, node, op, local, requests, listening, acked,
                  conn, losses, timedOut>>
  BY DEF Fanout, faultVars
<1>b. /\ broadcasts' \subseteq broadcasts
      /\ b.version \in Versionz /\ b.value \in Values
      /\ Published(b.version, b.value)
  BY DEF Fanout, Inv, TypeOK, Broadcast, Knowledge
<1>i. ASSUME NEW i \in inbox'
      PROVE  \/ i \in inbox
             \/ \E m \in Mounts : i = message(m)
  BY <1>i DEF Fanout
<1>m. ASSUME NEW m \in Mounts
      PROVE  /\ message(m) \in Message /\ message(m).tag = 0
             /\ message(m).kind = "put"
             /\ message(m).version = b.version /\ message(m).value = b.value
  BY <1>b DEF Message
<1> HIDE DEF message
<1>1. TypeOK'
  <2>1. inbox' \subseteq Message
    BY <1>i, <1>m DEF Inv, TypeOK
  <2> QED
    BY <1>u, <1>b, <2>1 DEF Inv, TypeOK
<1>2. History' /\ Knowledge'
  <2>1. History' /\ \A v, x : Published(v, x) => Published(v, x)'
    BY <1>u, SameHistory
  <2>2. \A i \in inbox' : i.kind = "put" => Published(i.version, i.value)'
    BY <1>i, <1>m, <1>b, <2>1 DEF Inv, Knowledge
  <2> QED
    BY <1>u, <1>b, <2>1, <2>2 DEF Inv, Knowledge
<1>3. Puts' /\ Delivered'
  BY <1>u, <1>i, <1>m DEF Inv, Puts, Extends, Delivered
<1>4. ASSUME NEW n \in Mounts PROVE CacheOK(n)' /\ TagOK(n)'
  <2>1. CacheOK(n)'
    BY <1>u DEF Inv, CacheOK
  <2>2. TagOK(n)'
    <3>1. TagOK(n)
      BY DEF Inv
    <3>2. op[n].kind = "put" => op[n].tag # 0
      BY <3>1 DEF TagOK
    <3> QED
      BY <1>u, <1>i, <1>m, <3>1, <3>2 DEF TagOK
  <2> QED
    BY <2>1, <2>2
<1> QED
  BY <1>1, <1>2, <1>3, <1>4 DEF Inv

\* What a mount learns from a message, or already knew, was published.
LEMMA LearnPublished ==
    ASSUME Inv, NEW known \in Entry, Published(known.version, known.value),
           NEW i \in Message, Published(i.version, i.value)
    PROVE  /\ Learn(known, i) \in Entry
           /\ Published(Learn(known, i).version, Learn(known, i).value)
<1>1. CASE i.version < known.version
  BY <1>1 DEF Learn
<1>2. CASE ~(i.version < known.version)
  <2>1. NewEntry(i.version, i.value) \in Entry
    BY DEF NewEntry, Entry, Message
  <2> QED
    BY <1>2, <2>1 DEF Learn, NewEntry
<1> QED
  BY <1>1, <1>2

\* The effect of an answer on the mount that waited for it.
LEMMA AnsweredOK ==
    ASSUME Inv, NEW i \in inbox, NEW m \in Mounts, i.to = m,
           i.tag # 0, i.tag = op[m].tag, Answered(m, i),
           store' = store, log' = log
    PROVE  /\ node' \in [Mounts -> Node] /\ local' \in [Mounts -> Entry]
           /\ op' = [op EXCEPT ![m] = Idle]
           /\ \A n \in Mounts : n # m => node'[n] = node[n]
           /\ \A n \in Mounts : Published(local'[n].version, local'[n].value)
           /\ Published(node'[m].version, node'[m].xattrs)
           /\ acked' \subseteq Attrs
<1>t. /\ node \in [Mounts -> Node] /\ local \in [Mounts -> Entry]
      /\ op \in [Mounts -> Op] /\ i \in Message /\ acked \subseteq Attrs
      /\ node[m] \in Node /\ local[m] \in Entry /\ op[m] \in Op
  BY DEF Inv, TypeOK
<1>k. /\ \A n \in Mounts : Published(local[n].version, local[n].value)
      /\ i.kind = "put" => Published(i.version, i.value)
  BY DEF Inv, Knowledge
<1>c. CacheOK(m) /\ TagOK(m)
  BY DEF Inv
<1>l. i.kind = "put" => /\ Learn(local[m], i) \in Entry
                        /\ Published(Learn(local[m], i).version,
                                     Learn(local[m], i).value)
  BY <1>t, <1>k, LearnPublished
<1>1. CASE /\ op[m].kind = "put" /\ i.kind = "put"
           /\ node' = [node EXCEPT ![m] = Saved(m)]
           /\ local' = [local EXCEPT ![m] = Learn(@, i)]
           /\ op' = [op EXCEPT ![m] = Idle]
           /\ acked' = acked \cup op[m].edit
  <2>1. i.version = node[m].version + 1 /\ i.value = node[m].xattrs
    BY <1>c, <1>1 DEF TagOK
  <2>2. /\ Saved(m) \in Node
        /\ Saved(m).version = i.version /\ Saved(m).xattrs = i.value
    BY <1>t, <2>1 DEF Saved, Node, Message
  <2>3. Published(Saved(m).version, Saved(m).xattrs)
    BY <1>1, <1>k, <2>2
  <2>4. acked' \subseteq Attrs
    BY <1>t, <1>1 DEF Op, Values
  <2> QED
    BY <1>t, <1>k, <1>l, <1>1, <2>2, <2>3, <2>4
<1>2. CASE /\ op[m].kind = "put" /\ i.kind # "put"
           /\ node' = [node EXCEPT ![m] = RolledBack(m, i.kind = "stale")]
           /\ local' = [local EXCEPT ![m] = Doubt(@)]
           /\ op' = [op EXCEPT ![m] = Idle]
           /\ UNCHANGED acked
  <2> DEFINE back == RolledBack(m, i.kind = "stale")
  <2>1. /\ back \in Node
        /\ back.version = node[m].version /\ back.xattrs = op[m].undo
    BY <1>t DEF RolledBack, Node, Op
  <2>2. Published(back.version, back.xattrs)
    BY <1>c, <1>2, <2>1 DEF CacheOK, Published
  <2>3. /\ Doubt(local[m]) \in Entry
        /\ Doubt(local[m]).version = local[m].version
        /\ Doubt(local[m]).value = local[m].value
    BY <1>t DEF Doubt, Entry
  <2> HIDE DEF back
  <2> QED
    BY <1>t, <1>k, <1>2, <2>1, <2>2, <2>3 DEF back
<1>3. CASE /\ op[m].kind = "reload" /\ i.kind = "put"
           /\ node' = [node EXCEPT ![m] = Reloaded(i.version, i.value)]
           /\ local' = [local EXCEPT ![m] = Learn(@, i)]
           /\ op' = [op EXCEPT ![m] = Idle]
           /\ UNCHANGED acked
  <2>1. /\ Reloaded(i.version, i.value) \in Node
        /\ Reloaded(i.version, i.value).version = i.version
        /\ Reloaded(i.version, i.value).xattrs = i.value
    BY <1>t DEF Reloaded, Node, Message
  <2> QED
    BY <1>t, <1>k, <1>l, <1>3, <2>1
<1>4. CASE /\ op[m].kind = "mount" /\ i.kind = "put"
           /\ node' = [node EXCEPT ![m].version = i.version, ![m].xattrs = i.value]
           /\ local' = [local EXCEPT ![m] = Learn(@, i)]
           /\ op' = [op EXCEPT ![m] = Idle]
           /\ UNCHANGED acked
  <2>1. /\ node' \in [Mounts -> Node]
        /\ node'[m].version = i.version /\ node'[m].xattrs = i.value
        /\ \A n \in Mounts : n # m => node'[n] = node[n]
    BY <1>t, <1>4 DEF Node, Message
  <2> QED
    BY <1>t, <1>k, <1>l, <1>4, <2>1
<1>5. CASE /\ op[m].kind \in {"mount", "reload"} /\ i.kind # "put"
           /\ op' = [op EXCEPT ![m] = Idle]
           /\ UNCHANGED <<node, local, acked>>
  <2>1. Published(node[m].version, node[m].xattrs)
    BY <1>c, <1>5 DEF CacheOK, Published
  <2> QED
    BY <1>t, <1>k, <1>5, <2>1
<1> QED
  BY <1>1, <1>2, <1>3, <1>4, <1>5 DEF Answered

\* A mount that receives a notification, the answer it waits for, or an answer
\* that nobody waits for any more.
LEMMA ReceiveInv ==
    ASSUME Inv, NEW i \in inbox, Receive(i)
    PROVE  Inv'
<1> USE TagAssumption
<1> DEFINE m == i.to
<1>m. m \in Mounts /\ i \in Message /\ Idle \in Op
      /\ Idle.kind = "idle" /\ Idle.tag = 0
  BY ConstantsTyped DEF Inv, TypeOK, Message, Idle
<1> HIDE DEF m
<1>u. UNCHANGED <<requests, store, log, broadcasts, conn, losses, timedOut>>
  BY DEF Receive, serverVars, faultVars
<1>i. inbox' = inbox \ {i}
  BY DEF Receive
<1>h. History' /\ \A v, x : Published(v, x) => Published(v, x)'
  BY <1>u, SameHistory
<1>3. Puts' /\ Delivered'
  BY <1>u, <1>i DEF Inv, Puts, Extends, Delivered
<1>a. CASE /\ i.tag = 0
           /\ local' = [local EXCEPT ![m] = Learn(@, i)]
           /\ listening' = [listening EXCEPT ![m] = @ \cup {i}]
           /\ UNCHANGED <<node, op, acked>>
  <2>1. Published(i.version, i.value)
    BY <1>a DEF Inv, Delivered, Knowledge
  <2>2. /\ Learn(local[m], i) \in Entry
        /\ Published(Learn(local[m], i).version, Learn(local[m], i).value)
    BY <1>m, <2>1, LearnPublished DEF Inv, TypeOK, Knowledge
  <2>3. TypeOK'
    BY <1>a, <1>m, <1>u, <1>i, <2>2 DEF Inv, TypeOK
  <2>4. Knowledge'
    <3>1. \A n \in Mounts : Published(local'[n].version, local'[n].value)
      BY <1>a, <1>m, <2>2 DEF Inv, TypeOK, Knowledge
    <3>2. \A n \in Mounts :
              \A j \in listening'[n] : Published(j.version, j.value)
      BY <1>a, <1>m, <2>1 DEF Inv, TypeOK, Knowledge
    <3> QED
      BY <1>h, <1>u, <1>i, <3>1, <3>2 DEF Inv, Knowledge
  <2>5. ASSUME NEW n \in Mounts PROVE CacheOK(n)' /\ TagOK(n)'
    BY <1>a, <1>u, <1>i, OtherMount
  <2> QED
    BY <1>h, <1>3, <2>3, <2>4, <2>5 DEF Inv
<1>b. CASE /\ i.tag # 0 /\ i.tag = op[m].tag
           /\ Answered(m, i)
           /\ UNCHANGED listening
  <2>1. /\ node' \in [Mounts -> Node] /\ local' \in [Mounts -> Entry]
        /\ op' = [op EXCEPT ![m] = Idle]
        /\ \A n \in Mounts : n # m => node'[n] = node[n]
        /\ \A n \in Mounts : Published(local'[n].version, local'[n].value)
        /\ Published(node'[m].version, node'[m].xattrs)
        /\ acked' \subseteq Attrs
    BY <1>b, <1>m, <1>u, AnsweredOK DEF m
  <2>2. TypeOK'
    BY <1>b, <1>m, <1>u, <1>i, <2>1 DEF Inv, TypeOK
  <2>3. Knowledge'
    BY <1>b, <1>h, <1>u, <1>i, <2>1 DEF Inv, Knowledge
  <2>4. ASSUME NEW n \in Mounts PROVE CacheOK(n)' /\ TagOK(n)'
    <3>0. op'[m] = Idle /\ \A k \in Mounts : k # m => op'[k] = op[k]
      BY <1>m, <2>1 DEF Inv, TypeOK
    <3>1. CASE n # m
      BY <1>u, <1>i, <2>1, <3>0, <3>1, OtherMount
    <3>2. CASE n = m
      BY <1>m, <1>u, <2>1, <3>0, <3>2 DEF CacheOK, TagOK, Published
    <3> QED
      BY <3>1, <3>2
  <2> QED
    BY <1>h, <1>3, <2>2, <2>3, <2>4 DEF Inv
<1>c. CASE UNCHANGED <<node, op, local, listening, acked>>
  <2>1. TypeOK' /\ Knowledge'
    BY <1>c, <1>h, <1>u, <1>i DEF Inv, TypeOK, Knowledge
  <2>2. ASSUME NEW n \in Mounts PROVE CacheOK(n)' /\ TagOK(n)'
    BY <1>c, <1>u, <1>i, OtherMount
  <2> QED
    BY <1>h, <1>3, <2>1, <2>2 DEF Inv
<1> QED
  BY <1>a, <1>b, <1>c DEF Receive, m

\* InvalidateCache only marks the node for reload.
LEMMA InvalidateCacheInv ==
    ASSUME Inv, NEW m \in Mounts, NEW i \in listening[m], InvalidateCache(m, i)
    PROVE  Inv'
<1>u. UNCHANGED <<op, local, requests, inbox, acked, store, log, broadcasts,
                  conn, losses, timedOut>>
  BY DEF InvalidateCache, serverVars, faultVars
<1>n. /\ node' \in [Mounts -> Node]
      /\ \A n \in Mounts : /\ node'[n].version = node[n].version
                            /\ node'[n].xattrs = node[n].xattrs
  BY DEF InvalidateCache, Inv, TypeOK, Node
<1>l. /\ listening' \in [Mounts -> SUBSET Message]
      /\ \A n \in Mounts : listening'[n] \subseteq listening[n]
  BY DEF InvalidateCache, Inv, TypeOK
<1>1. TypeOK'
  BY <1>u, <1>n, <1>l DEF Inv, TypeOK
<1>2. History' /\ Knowledge'
  BY <1>u, <1>l, SameHistory DEF Inv, Knowledge
<1>3. Puts' /\ Delivered'
  BY <1>u DEF Inv, Puts, Extends, Delivered
<1>4. ASSUME NEW n \in Mounts PROVE CacheOK(n)' /\ TagOK(n)'
  BY <1>u, <1>n, OtherMount
<1> QED
  BY <1>1, <1>2, <1>3, <1>4 DEF Inv

\* The process of a mount ends; requests and the entry are left as they are.
LEMMA ExitInv ==
    ASSUME Inv, NEW m \in Mounts, Exit(m),
           losses' \in 0..MaxLosses, timedOut' \in BOOLEAN,
           conn' \in [Mounts -> 0..MaxLosses],
           \A n \in Mounts : conn'[n] <= losses'
    PROVE  Inv'
<1> USE BoundAssumption, TagAssumption
<1>u. UNCHANGED <<requests, acked, store, log, broadcasts>>
  BY DEF Exit, serverVars
<1>t. /\ op' \in [Mounts -> Op] /\ node' \in [Mounts -> Node]
      /\ local' \in [Mounts -> Entry]
      /\ listening' \in [Mounts -> SUBSET Message]
      /\ inbox' \subseteq inbox
  BY ConstantsTyped DEF Exit, Inv, TypeOK
<1>n. /\ op'[m] = Down /\ node'[m] = FreshNode /\ local'[m] = NoEntry
      /\ listening'[m] = {}
      /\ \A n \in Mounts : n # m =>
            /\ op'[n] = op[n] /\ node'[n] = node[n]
            /\ local'[n] = local[n] /\ listening'[n] = listening[n]
  BY DEF Exit, Inv, TypeOK
<1>1. TypeOK'
  BY <1>u, <1>t DEF Inv, TypeOK
<1>z. 0 \in 0..store.version /\ log[0] = {}
  BY DEF Inv, TypeOK, Entry, History, Versionz
<1>2. History' /\ Knowledge'
  <2>1. History' /\ \A v, x : Published(v, x) => Published(v, x)'
    BY <1>u, SameHistory
  <2>2. Published(NoEntry.version, NoEntry.value)
    BY <1>z DEF NoEntry, Published
  <2>3. \A n \in Mounts : Published(local'[n].version, local'[n].value)
    BY <1>n, <2>2 DEF Inv, Knowledge
  <2>4. \A n \in Mounts :
            \A i \in listening'[n] : Published(i.version, i.value)
    BY <1>n DEF Inv, Knowledge
  <2> QED
    BY <1>u, <1>t, <2>1, <2>3, <2>4 DEF Inv, Knowledge
<1>3. Puts' /\ Delivered'
  BY <1>u, <1>t DEF Inv, Puts, Extends, Delivered
<1>4. ASSUME NEW n \in Mounts PROVE CacheOK(n)' /\ TagOK(n)'
  <2>1. CASE n # m
    BY <1>u, <1>t, <1>n, <2>1, OtherMount
  <2>2. CASE n = m
    <3>1. /\ op'[m].kind = "down" /\ op'[m].tag = 0
          /\ node'[m].version = 0 /\ node'[m].xattrs = {}
      BY <1>n DEF Down, FreshNode
    <3> QED
      BY <1>u, <1>z, <2>2, <3>1 DEF CacheOK, TagOK
  <2> QED
    BY <2>1, <2>2
<1> QED
  BY <1>1, <1>2, <1>3, <1>4 DEF Inv

\* A mount that cannot load its root exits.
LEMMA MountTimeoutInv ==
    ASSUME Inv, NEW m \in Mounts, MountTimeout(m)
    PROVE  Inv'
<1>1. /\ losses' \in 0..MaxLosses /\ conn' \in [Mounts -> 0..MaxLosses]
      /\ \A n \in Mounts : conn'[n] <= losses'
  BY DEF MountTimeout, Inv, TypeOK, Delivered
<1>2. timedOut' \in BOOLEAN /\ Exit(m)
  BY DEF MountTimeout
<1> QED
  BY <1>1, <1>2, ExitInv

\* Counting a loss on the connections that it breaks.
LEMMA LossCounted ==
    ASSUME Inv, losses < MaxLosses, losses' = losses + 1,
           conn' \in [Mounts -> Nat],
           \A n \in Mounts : conn'[n] \in {conn[n], conn[n] + 1}
    PROVE  /\ losses' \in 0..MaxLosses
           /\ conn' \in [Mounts -> 0..MaxLosses]
           /\ \A n \in Mounts : conn'[n] <= losses'
<1>1. losses \in Nat /\ MaxLosses \in Nat
  BY BoundAssumption DEF Inv, TypeOK
<1>2. \A n \in Mounts : conn[n] \in Nat /\ conn[n] <= losses
  BY BoundAssumption DEF Inv, TypeOK, Delivered
<1>3. \A n \in Mounts : conn'[n] \in 0..MaxLosses /\ conn'[n] <= losses'
  BY <1>1, <1>2
<1> QED
  BY <1>1, <1>3

\* A mount that is killed takes only its own cache with it.
LEMMA CrashInv ==
    ASSUME Inv, NEW m \in Mounts, Crash(m)
    PROVE  Inv'
<1>1. conn' \in [Mounts -> Nat] /\ \A n \in Mounts : conn'[n] \in {conn[n], conn[n] + 1}
  BY BoundAssumption DEF Crash, Inv, TypeOK
<1>2. /\ losses' \in 0..MaxLosses /\ conn' \in [Mounts -> 0..MaxLosses]
      /\ \A n \in Mounts : conn'[n] <= losses'
  BY <1>1, LossCounted DEF Crash
<1>3. timedOut' \in BOOLEAN /\ Exit(m)
  BY DEF Crash, Inv, TypeOK
<1> QED
  BY <1>2, <1>3, ExitInv

\* Losing messages disturbs nothing else.
LEMMA MessagesLost ==
    ASSUME Inv, requests' \subseteq requests, inbox' \subseteq inbox,
           broadcasts' \subseteq broadcasts,
           UNCHANGED <<store, log, node, op, local, listening, acked, timedOut>>,
           losses' \in 0..MaxLosses, conn' \in [Mounts -> 0..MaxLosses],
           \A n \in Mounts : conn'[n] <= losses'
    PROVE  Inv'
<1>1. TypeOK'
  BY DEF Inv, TypeOK
<1>2. History' /\ Knowledge'
  BY SameHistory DEF Inv, Knowledge
<1>3. Puts' /\ Delivered'
  BY DEF Inv, Puts, Extends, Delivered
<1>4. ASSUME NEW n \in Mounts PROVE CacheOK(n)' /\ TagOK(n)'
  BY OtherMount
<1> QED
  BY <1>1, <1>2, <1>3, <1>4 DEF Inv

\* A broken connection loses messages of one mount.
LEMMA LoseConnectionInv ==
    ASSUME Inv, NEW m \in Mounts, LoseConnection(m)
    PROVE  Inv'
<1>1. conn' \in [Mounts -> Nat] /\ \A n \in Mounts : conn'[n] \in {conn[n], conn[n] + 1}
  BY BoundAssumption DEF LoseConnection, Inv, TypeOK
<1>2. /\ losses' \in 0..MaxLosses /\ conn' \in [Mounts -> 0..MaxLosses]
      /\ \A n \in Mounts : conn'[n] <= losses'
  BY <1>1, LossCounted DEF LoseConnection
<1>3. /\ requests' \subseteq requests /\ inbox' \subseteq inbox
      /\ UNCHANGED <<store, log, node, op, local, listening, acked, timedOut,
                     broadcasts>>
  BY DEF LoseConnection, serverVars
<1> QED
  BY <1>2, <1>3, MessagesLost

\* A restart of the server loses messages and goroutines, not the store.
LEMMA ServerRestartInv ==
    ASSUME Inv, ServerRestart
    PROVE  Inv'
<1>1. conn' \in [Mounts -> Nat] /\ \A n \in Mounts : conn'[n] \in {conn[n], conn[n] + 1}
  BY BoundAssumption DEF ServerRestart, Inv, TypeOK
<1>2. /\ losses' \in 0..MaxLosses /\ conn' \in [Mounts -> 0..MaxLosses]
      /\ \A n \in Mounts : conn'[n] <= losses'
  BY <1>1, LossCounted DEF ServerRestart
<1>3. /\ requests' \subseteq requests /\ inbox' \subseteq inbox
      /\ broadcasts' \subseteq broadcasts
      /\ UNCHANGED <<store, log, node, op, local, listening, acked, timedOut>>
  BY DEF ServerRestart
<1> QED
  BY <1>2, <1>3, MessagesLost

\* A call that times out restores the attributes of the version it started from,
\* and leaves its request to be applied or refused later.
LEMMA TimeoutInv ==
    ASSUME Inv, NEW m \in Mounts, Timeout(m)
    PROVE  Inv'
<1> USE TagAssumption
<1>u. UNCHANGED <<local, requests, inbox, listening, acked, conn, losses,
                  store, log, broadcasts>>
  BY DEF Timeout, serverVars
<1>t. /\ node[m] \in Node /\ op[m] \in Op /\ CacheOK(m)
      /\ op[m].kind \in {"put", "reload"}
  BY DEF Timeout, Inv, TypeOK
<1>b. /\ RolledBack(m, FALSE) \in Node
      /\ RolledBack(m, FALSE).version = node[m].version
      /\ RolledBack(m, FALSE).xattrs = op[m].undo
  BY <1>t DEF RolledBack, Node, Op
<1>n. /\ node' \in [Mounts -> Node]
      /\ \A n \in Mounts : n # m => node'[n] = node[n]
      /\ node'[m].version = node[m].version
      /\ node'[m].xattrs = log[node[m].version]
  BY <1>t, <1>b DEF Timeout, Inv, TypeOK, CacheOK
<1>o. /\ op' \in [Mounts -> Op]
      /\ op'[m].kind = "idle" /\ op'[m].tag = 0
      /\ \A n \in Mounts : n # m => op'[n] = op[n]
  BY ConstantsTyped DEF Timeout, Inv, TypeOK, Idle
<1>1. TypeOK'
  <2>1. timedOut' \in BOOLEAN
    BY DEF Timeout
  <2> QED
    BY <1>u, <1>n, <1>o, <2>1 DEF Inv, TypeOK
<1>2. History' /\ Knowledge'
  BY <1>u, SameHistory DEF Inv, Knowledge
<1>3. Puts' /\ Delivered'
  BY <1>u DEF Inv, Puts, Extends, Delivered
<1>4. ASSUME NEW n \in Mounts PROVE CacheOK(n)' /\ TagOK(n)'
  <2>1. CASE n # m
    BY <1>u, <1>n, <1>o, <2>1, OtherMount
  <2>2. CASE n = m
    BY <1>u, <1>n, <1>o, <1>t, <2>2 DEF CacheOK, TagOK
  <2> QED
    BY <2>1, <2>2
<1> QED
  BY <1>1, <1>2, <1>3, <1>4 DEF Inv

\* A step that changes nothing keeps the invariant.
LEMMA StutterInv ==
    ASSUME Inv, UNCHANGED vars
    PROVE  Inv'
<1>1. /\ losses' \in 0..MaxLosses /\ conn' \in [Mounts -> 0..MaxLosses]
      /\ \A n \in Mounts : conn'[n] <= losses'
  BY DEF Inv, TypeOK, Delivered, vars
<1>2. /\ requests' \subseteq requests /\ inbox' \subseteq inbox
      /\ broadcasts' \subseteq broadcasts
      /\ UNCHANGED <<store, log, node, op, local, listening, acked, timedOut>>
  BY DEF vars
<1> QED
  BY <1>1, <1>2, MessagesLost

\* Every step keeps the invariant.
LEMMA NextInv == Inv /\ [Next]_vars => Inv'
<1> SUFFICES ASSUME Inv, [Next]_vars PROVE Inv'
  OBVIOUS
<1>1. ASSUME NEW m \in Mounts, Mount(m) PROVE Inv'
  BY <1>1, MountInv
<1>2. ASSUME NEW m \in Mounts, NEW a \in Attrs, NEW flags \in Flags,
             Setxattr(m, a, flags)
      PROVE  Inv'
  BY <1>2, SetxattrInv
<1>3. ASSUME NEW m \in Mounts, ReturnAtOnce(m) PROVE Inv'
  BY <1>3, StutterInv DEF ReturnAtOnce
<1>4. ASSUME NEW m \in Mounts, Flush(m) PROVE Inv'
  BY <1>4, FlushInv
<1>5. ASSUME NEW m \in Mounts, Reload(m) PROVE Inv'
  BY <1>5, ReloadInv
<1>6. ASSUME NEW m \in Mounts, NEW i \in listening[m], InvalidateCache(m, i)
      PROVE  Inv'
  BY <1>6, InvalidateCacheInv
<1>7. ASSUME NEW m \in Mounts, Timeout(m) PROVE Inv'
  BY <1>7, TimeoutInv
<1>8. ASSUME NEW m \in Mounts, MountTimeout(m) PROVE Inv'
  BY <1>8, MountTimeoutInv
<1>9. ASSUME NEW m \in Mounts, LoseConnection(m) PROVE Inv'
  BY <1>9, LoseConnectionInv
<1>10. ASSUME NEW m \in Mounts, Crash(m) PROVE Inv'
  BY <1>10, CrashInv
<1>11. ASSUME NEW r \in requests, HandleInput(r) PROVE Inv'
  BY <1>11, HandleInputInv
<1>12. ASSUME NEW b \in broadcasts, Fanout(b) PROVE Inv'
  BY <1>12, FanoutInv
<1>13. ASSUME NEW i \in inbox, Receive(i) PROVE Inv'
  BY <1>13, ReceiveInv
<1>14. CASE ServerRestart
  BY <1>14, ServerRestartInv
<1>15. CASE UNCHANGED vars
  BY <1>15, StutterInv
<1> QED
  BY <1>1, <1>2, <1>3, <1>4, <1>5, <1>6, <1>7, <1>8, <1>9, <1>10, <1>11,
     <1>12, <1>13, <1>14, <1>15 DEF Next

\* Inv holds in every reachable state: caches, messages and local knowledge all
\* descend from the history of the key, and tags tie answers to their puts.
THEOREM Invariance == Spec => []Inv
<1>1. Init => Inv
  BY InitInv
<1>2. Inv /\ [Next]_vars => Inv'
  BY NextInv
<1> QED
  BY <1>1, <1>2, PTL DEF Spec

\* Every variable keeps its type; no cached or stored version leaves its range.
THEOREM TypeCorrectness == Spec => []TypeOK
<1>1. Inv => TypeOK
  BY DEF Inv
<1> QED
  BY <1>1, Invariance, PTL

\* Between calls, what a mount shows of the node is exactly the version it
\* carries: sync's failures and the rollbacks leave no trace in the cache.
THEOREM CachesArePublished == Spec => []CachedIsPublished
<1>1. Inv => CachedIsPublished
  BY DEF Inv, CacheOK, CachedIsPublished
<1> QED
  BY <1>1, Invariance, PTL

\* Every step is an update of the register, an acknowledgement, or invisible.
LEMMA StepRefines ==
    ASSUME Inv, [Next]_vars
    PROVE  [Register!Next]_(Register!vars)
<1>u. ASSUME UNCHANGED <<store, acked>>
      PROVE  [Register!Next]_(Register!vars)
  BY <1>u DEF Register!vars
<1>1. ASSUME NEW r \in requests, HandleInput(r)
      PROVE  [Register!Next]_(Register!vars)
  <2>0. UNCHANGED acked
    BY <1>1 DEF HandleInput
  <2>1. CASE store' = store
    BY <1>u, <2>0, <2>1
  <2>2. CASE store' # store
    <3>1. /\ r.kind = "put" /\ ApplyMessage(store, r).kind = "put"
          /\ store' = NewEntry(r.version, r.value)
      BY <1>1, <2>2 DEF HandleInput
    <3>2. ~Stale(store, r.version)
      BY <3>1, AnswerTyped
    <3>3. r.version = store.version + 1 /\ Extends(r.value, store.value)
      BY <3>1, <3>2, AcceptedIsNext
    <3>4. store'.version = store.version + 1 /\ store'.value = r.value
      BY <3>1, <3>3 DEF NewEntry
    <3>5. \/ store'.value = store.value
          \/ \E a \in Attrs : store'.value = store.value \cup {a}
      BY <3>3, <3>4 DEF Extends
    <3> QED
      BY <2>0, <3>4, <3>5 DEF Register!Next, Register!Update
  <2> QED
    BY <2>1, <2>2
<1>2. ASSUME NEW i \in inbox, Receive(i)
      PROVE  [Register!Next]_(Register!vars)
  <2>0. UNCHANGED store
    BY <1>2 DEF Receive, serverVars
  <2>1. CASE UNCHANGED acked
    BY <1>u, <2>0, <2>1
  <2>2. CASE ~UNCHANGED acked
    <3> DEFINE m == i.to
    <3>1. /\ m \in Mounts /\ i.tag = op[m].tag
          /\ op[m].kind = "put" /\ i.kind = "put"
          /\ acked' = acked \cup op[m].edit
      BY <1>2, <2>2 DEF Receive, Answered, Inv, TypeOK, Message
    <3> HIDE DEF m
    <3>2. /\ i.value = node[m].xattrs /\ Published(i.version, i.value)
      BY <3>1 DEF m, Inv, TagOK, Knowledge
    <3>3. op[m].edit \subseteq i.value
      BY <3>1, <3>2 DEF Inv, CacheOK
    <3>4. i.value \subseteq store.value
      <4>1. /\ store.version \in 0..store.version /\ i.version \in 0..store.version
            /\ i.version <= store.version /\ store.value = log[store.version]
            /\ i.value = log[i.version]
        BY <3>2 DEF Inv, History, Published
      <4> QED
        BY <4>1 DEF Inv, History
    <3>5. PICK a \in Attrs : op[m].edit = {a}
      BY <2>2, <3>1 DEF Inv, CacheOK
    <3>6. a \in store.value /\ acked' = acked \cup {a}
      BY <3>1, <3>3, <3>4, <3>5
    <3> QED
      BY <2>0, <3>6 DEF Register!Next, Register!Acknowledge
  <2> QED
    BY <2>1, <2>2
<1>3. ASSUME NEW m \in Mounts,
             \/ Mount(m)
             \/ \E a \in Attrs, flags \in Flags : Setxattr(m, a, flags)
             \/ ReturnAtOnce(m)
             \/ Flush(m)
             \/ Reload(m)
             \/ \E i \in listening[m] : InvalidateCache(m, i)
             \/ Timeout(m)
             \/ MountTimeout(m)
             \/ LoseConnection(m)
             \/ Crash(m)
      PROVE  UNCHANGED <<store, acked>>
  BY <1>3 DEF Mount, Setxattr, StartSync, ReturnAtOnce, Flush, Reload,
       InvalidateCache, Timeout, MountTimeout, LoseConnection, Crash, Exit,
       serverVars, vars
<1>4. ASSUME NEW b \in broadcasts, Fanout(b) PROVE UNCHANGED <<store, acked>>
  BY <1>4 DEF Fanout
<1>5. CASE ServerRestart
  BY <1>5, <1>u DEF ServerRestart
<1>6. CASE UNCHANGED vars
  BY <1>6, <1>u DEF vars
<1> QED
  BY <1>u, <1>1, <1>2, <1>3, <1>4, <1>5, <1>6 DEF Next

\* The metadata protocol implements MetaRegister: no accepted put loses an
\* attribute that an earlier one wrote, and a Setxattr that returned 0 is stored.
THEOREM Refinement == Spec => RegisterSpec
<1>1. Init => Register!Init
  BY DEF Init, Register!Init, NoEntry
<1>2. Inv /\ [Next]_vars => [Register!Next]_(Register!vars)
  BY StepRefines
<1> QED
  BY <1>1, <1>2, Invariance, PTL DEF Spec, RegisterSpec, Register!Spec
--------------------------------------------------------------------------------
(* Nobody is left behind: once everything has arrived, as long as nothing was *)
(* lost or timed out, a mount has the last version or is marked for reload.   *)

Calm == ~timedOut /\ losses = 0

\* The news of the last version is on its way to m ...
Coming(m) ==
    \/ \E b \in broadcasts : b.version = store.version /\ b.from # m
    \/ \E i \in inbox : i.to = m /\ i.tag = 0 /\ i.version = store.version

\* ... or waits for node.mu.
Waiting(m) == \E i \in listening[m] : i.version = store.version

\* m has asked and not been answered; was answered with the last version; or
\* was refused.
Asking(m, kind) == \E r \in requests : r.from = m /\ r.kind = kind
Granted(m) == \E i \in inbox :
    i.to = m /\ i.tag # 0 /\ i.kind = "put" /\ i.version = store.version
Denied(m) == \E i \in inbox : i.to = m /\ i.tag # 0 /\ i.kind = "stale"

\* The call that m is in has one request or one answer under way, and a mount
\* that has not loaded its root has version 0.
OneRequest(m) ==
    /\ \A r \in requests : r.from = m =>
          /\ r.tag = op[m].tag /\ r.conn = conn[m]
          /\ r.kind = "put" <=> op[m].kind = "put"
          /\ \A q \in requests : q.from = m => q = r
          /\ \A i \in inbox : i.to = m => i.tag = 0
    /\ \A i \in inbox : (i.to = m /\ i.tag # 0) =>
          /\ i.tag = op[m].tag
          /\ \A j \in inbox : (j.to = m /\ j.tag # 0) => j = i
    /\ op[m].kind \in {"down", "mount"} => node[m].version = 0

\* What Reload finds in the store of m is the last version, or will be.
StoreKnows(m) ==
    \/ op[m].kind = "down"
    \/ local[m].version = store.version
    \/ Coming(m) \/ Granted(m) \/ Asking(m, "get")

\* The node is at the last version or marked, or will be.  A mark is no help to
\* a reload that has been answered already, nor the version that it replaces.
NodeKnows(m) ==
    \/ op[m].kind = "down"
    \/ Coming(m) \/ Waiting(m) \/ Granted(m)
    \/ op[m].kind = "idle" /\ node[m].version = store.version
    \/ op[m].kind # "reload" /\ node[m].shouldReloadMetadata
    \/ op[m].kind \in {"mount", "reload"} /\ (Asking(m, "get") \/ store.version = 0)
    \/ op[m].kind = "put" /\ (Asking(m, "put") \/ Denied(m))

Aware(m) == OneRequest(m) /\ StoreKnows(m) /\ NodeKnows(m)

Coherent == Calm => \A m \in Mounts : Aware(m)

\* A mount that a step does not concern stays aware.
LEMMA AwareKept ==
    ASSUME NEW n \in Mounts, Aware(n), store' = store, op'[n] = op[n], node'[n] = node[n],
           local'[n] = local[n], listening'[n] = listening[n], conn' = conn,
           broadcasts' = broadcasts,
           \A r \in requests : r.from = n => r \in requests',
           \A r \in requests' : r.from = n => r \in requests,
           \A i \in inbox : i.to = n => i \in inbox',
           \A i \in inbox' : i.to = n => i \in inbox
    PROVE  Aware(n)'
<1>1. OneRequest(n)'
  BY DEF Aware, OneRequest
<1>2. /\ Coming(n) => Coming(n)'
      /\ Waiting(n) => Waiting(n)'
      /\ Granted(n) => Granted(n)'
      /\ Denied(n) => Denied(n)'
      /\ Asking(n, "get") => Asking(n, "get")'
      /\ Asking(n, "put") => Asking(n, "put")'
  BY DEF Coming, Waiting, Granted, Denied, Asking
<1>3. StoreKnows(n)'
  BY <1>2 DEF Aware, StoreKnows
<1>4. NodeKnows(n)'
  BY <1>2 DEF Aware, NodeKnows
<1> QED
  BY <1>1, <1>3, <1>4 DEF Aware

\* A mount that is in no call has no request and no answer under way.
LEMMA NoneUnderWay ==
    ASSUME Inv, NEW m \in Mounts, OneRequest(m), op[m].kind \in {"down", "idle"}
    PROVE  /\ op[m].tag = 0
           /\ \A r \in requests : r.from # m
           /\ \A i \in inbox : i.to = m => i.tag = 0
<1>1. op[m].tag = 0
  BY DEF Inv, TagOK
<1>2. \A r \in requests : r.tag # 0
  BY TagAssumption DEF Inv, TypeOK, Request
<1> QED
  BY <1>1, <1>2 DEF OneRequest

\* A call that asks the server.
LEMMA AskingIsAware ==
    ASSUME Inv, NEW m \in Mounts, Aware(m), op[m].kind \in {"down", "idle"},
           NEW r, requests' = requests \cup {r}, r.from = m, r.conn = conn[m],
           r.tag = op'[m].tag,
           \/ r.kind = "get" /\ op'[m].kind = "reload"
           \/ r.kind = "get" /\ op'[m].kind = "mount" /\ op[m].kind = "down"
           \/ r.kind = "put" /\ op'[m].kind = "put" /\ op[m].kind = "idle",
           node'[m].version = node[m].version,
           UNCHANGED <<store, local, inbox, listening, broadcasts, conn>>
    PROVE  Aware(m)'
<1>1. /\ \A q \in requests : q.from # m
      /\ \A i \in inbox : i.to = m => i.tag = 0
  BY NoneUnderWay DEF Aware
<1>2. op'[m].kind = "mount" => node'[m].version = 0
  BY DEF Aware, OneRequest
<1>3. OneRequest(m)'
  BY <1>1, <1>2 DEF OneRequest
<1>4. Asking(m, r.kind)'
  BY DEF Asking
<1>5. /\ Coming(m) => Coming(m)'
      /\ Granted(m) => Granted(m)'
      /\ Asking(m, "get") => Asking(m, "get")'
  BY DEF Coming, Granted, Asking
<1>6. CASE r.kind = "get"
  BY <1>3, <1>4, <1>6 DEF Aware, StoreKnows, NodeKnows
<1>7. CASE r.kind = "put" /\ op'[m].kind = "put" /\ op[m].kind = "idle"
  BY <1>3, <1>4, <1>5, <1>7 DEF Aware, StoreKnows, NodeKnows
<1> QED
  BY <1>6, <1>7

LEMMA MountAware ==
    ASSUME Inv, NEW m \in Mounts, Mount(m), \A n \in Mounts : Aware(n)
    PROVE  \A n \in Mounts : Aware(n)'
<1>0. PICK t \in Tags :
        /\ SendGet(m, t)
        /\ op' = [op EXCEPT ![m] = [Down EXCEPT !.kind = "mount", !.tag = t]]
  BY DEF Mount, FreeTags
<1>u. /\ UNCHANGED <<node, local, inbox, listening, store, broadcasts, conn>>
      /\ op[m].kind = "down"
  BY DEF Mount, serverVars, faultVars
<1>1. /\ op'[m].kind = "mount" /\ op'[m].tag = t
      /\ \A n \in Mounts : n # m => op'[n] = op[n]
  BY <1>0 DEF Inv, TypeOK, Down
<1> DEFINE r == [kind |-> "get", from |-> m, conn |-> conn[m], tag |-> t,
                 version |-> 0, value |-> {}]
<1>2. /\ requests' = requests \cup {r}
      /\ r.kind = "get" /\ r.from = m /\ r.conn = conn[m] /\ r.tag = t
  BY <1>0 DEF SendGet
<1> HIDE DEF r
<1>3. Aware(m)'
  BY <1>u, <1>1, <1>2, AskingIsAware
<1>4. ASSUME NEW n \in Mounts, n # m PROVE Aware(n)'
  BY <1>u, <1>1, <1>2, <1>4, AwareKept
<1> QED
  BY <1>3, <1>4

LEMMA StartSyncAware ==
    ASSUME Inv, NEW m \in Mounts, NEW xattrs, StartSync(m, xattrs), op[m].kind = "idle",
           \A n \in Mounts : Aware(n)
    PROVE  \A n \in Mounts : Aware(n)'
<1>0. PICK t \in FreeTags(m) :
        /\ SendPut(m, t, node[m].version + 1, xattrs)
        /\ op' = [op EXCEPT ![m] =
                    [kind |-> "put", tag |-> t, undo |-> node[m].xattrs,
                     edit |-> xattrs \ node[m].xattrs]]
  BY DEF StartSync
<1>u. /\ UNCHANGED <<local, inbox, listening, store, broadcasts, conn>>
      /\ node' = [node EXCEPT ![m].xattrs = xattrs, ![m].shouldSaveMetadata = TRUE]
  BY DEF StartSync, serverVars, faultVars
<1>1. /\ op'[m].kind = "put" /\ op'[m].tag = t
      /\ node'[m].version = node[m].version
      /\ \A n \in Mounts : n # m => op'[n] = op[n] /\ node'[n] = node[n]
  BY <1>0, <1>u DEF Inv, TypeOK, Node
<1> DEFINE r == [kind |-> "put", from |-> m, conn |-> conn[m], tag |-> t,
                 version |-> node[m].version + 1, value |-> xattrs]
<1>2. /\ requests' = requests \cup {r}
      /\ r.kind = "put" /\ r.from = m /\ r.conn = conn[m] /\ r.tag = t
  BY <1>0 DEF SendPut
<1> HIDE DEF r
<1>3. Aware(m)'
  BY <1>u, <1>1, <1>2, AskingIsAware
<1>4. ASSUME NEW n \in Mounts, n # m PROVE Aware(n)'
  BY <1>u, <1>1, <1>2, <1>4, AwareKept
<1> QED
  BY <1>3, <1>4

\* A reload from the local copy leads to the last version, or to one whose
\* successor is still to be heard of.
LEMMA ReloadAware ==
    ASSUME Inv, NEW m \in Mounts, Reload(m), \A n \in Mounts : Aware(n)
    PROVE  \A n \in Mounts : Aware(n)'
<1>u. /\ UNCHANGED <<local, inbox, listening, store, broadcasts, conn>>
      /\ op[m].kind = "idle"
  BY DEF Reload, serverVars, faultVars
<1>1. CASE /\ node' = [node EXCEPT ![m] = Reloaded(local[m].version, local[m].value)]
           /\ UNCHANGED <<op, requests>>
  <2>1. /\ node'[m].version = local[m].version
        /\ \A n \in Mounts : n # m => node'[n] = node[n]
    BY <1>1 DEF Inv, TypeOK, Reloaded
  <2>2. ~Asking(m, "get")
    BY <1>u, NoneUnderWay DEF Aware, Asking
  <2>3. /\ Coming(m) => Coming(m)'
        /\ Granted(m) => Granted(m)'
    BY <1>u DEF Coming, Granted
  <2>4. OneRequest(m)'
    BY <1>u, <1>1 DEF Aware, OneRequest
  <2>5. Aware(m)'
    BY <1>u, <1>1, <2>1, <2>2, <2>3, <2>4 DEF Aware, StoreKnows, NodeKnows
  <2>6. ASSUME NEW n \in Mounts, n # m PROVE Aware(n)'
    BY <1>u, <1>1, <2>1, <2>6, AwareKept
  <2> QED
    BY <2>5, <2>6
<1>2. ASSUME NEW t \in FreeTags(m), SendGet(m, t), UNCHANGED node,
             op' = [op EXCEPT ![m] = [Idle EXCEPT !.kind = "reload", !.tag = t]]
      PROVE  \A n \in Mounts : Aware(n)'
  <2>1. /\ op'[m].kind = "reload" /\ op'[m].tag = t
        /\ \A n \in Mounts : n # m => op'[n] = op[n]
    BY <1>2 DEF Inv, TypeOK, Idle
  <2> DEFINE r == [kind |-> "get", from |-> m, conn |-> conn[m], tag |-> t,
                   version |-> 0, value |-> {}]
  <2>2. /\ requests' = requests \cup {r}
        /\ r.kind = "get" /\ r.from = m /\ r.conn = conn[m] /\ r.tag = t
    BY <1>2 DEF SendGet
  <2> HIDE DEF r
  <2>3. Aware(m)'
    BY <1>u, <1>2, <2>1, <2>2, AskingIsAware
  <2>4. ASSUME NEW n \in Mounts, n # m PROVE Aware(n)'
    BY <1>u, <1>2, <2>1, <2>2, <2>4, AwareKept
  <2> QED
    BY <2>3, <2>4
<1> QED
  BY <1>1, <1>2 DEF Reload

\* The server's answer reaches the mount that asked; an accepted put is news to
\* all others.
LEMMA HandleInputAware ==
    ASSUME Inv, NEW r \in requests, HandleInput(r), \A n \in Mounts : Aware(n)
    PROVE  \A n \in Mounts : Aware(n)'
<1> DEFINE output == ApplyMessage(store, r)
           accepted == r.kind = "put" /\ output.kind = "put"
           m == r.from
<1>0. /\ m \in Mounts /\ output.to = m /\ output.tag = r.tag /\ output.tag # 0
      /\ output.kind = "put" /\ r.kind = "put" =>
            output.version = r.version /\ ~Stale(store, r.version)
      /\ output.kind = "put" /\ r.kind # "put" => output.version = store.version
  BY AnswerTyped DEF Inv, TypeOK, Request
<1>1. /\ r.kind = "get" /\ output.kind # "put" => Absent(store)
      /\ r.kind = "put" /\ output.kind # "put" => output.kind = "stale"
      /\ r.kind \in {"get", "put"}
  BY DEF ApplyMessage, Inv, TypeOK, Request
<1>2. /\ requests' = requests \ {r}
      /\ store' = IF accepted THEN NewEntry(r.version, r.value) ELSE store
      /\ inbox' = IF r.conn = conn[m] /\ op[m].kind # "down"
                  THEN inbox \cup {output} ELSE inbox
      /\ broadcasts' = IF accepted
                       THEN broadcasts \cup {[from |-> m, conn |-> r.conn,
                              version |-> r.version, value |-> r.value]}
                       ELSE broadcasts
      /\ UNCHANGED <<node, op, local, listening, conn>>
  BY DEF HandleInput, faultVars
<1> HIDE DEF output, m
<1>3. /\ r.from = m /\ r.tag = op[m].tag /\ r.conn = conn[m]
      /\ r.kind = "put" <=> op[m].kind = "put"
      /\ \A q \in requests : q.from = m => q = r
      /\ \A i \in inbox : i.to = m => i.tag = 0
  BY <1>0 DEF m, Aware, OneRequest
<1>4. op[m].kind \notin {"down", "idle"}
  BY <1>0, <1>3 DEF Inv, TagOK
<1>5. inbox' = inbox \cup {output}
  BY <1>2, <1>3, <1>4
<1>6. OneRequest(m)'
  <2>1. \A q \in requests' : q.from # m
    BY <1>2, <1>3
  <2>2. \A i \in inbox' : (i.to = m /\ i.tag # 0) => i = output
    BY <1>3, <1>5
  <2>3. op'[m].kind \in {"down", "mount"} => node'[m].version = 0
    BY <1>0, <1>2 DEF Aware, OneRequest
  <2> QED
    BY <1>0, <1>2, <1>3, <2>1, <2>2, <2>3 DEF OneRequest
<1>7. ASSUME NEW n \in Mounts, n # m PROVE OneRequest(n)'
  <2>1. OneRequest(n)
    BY DEF Aware
  <2>2. /\ \A q \in requests' : q \in requests
        /\ \A i \in inbox' : i.to = n => i \in inbox
    BY <1>0, <1>2, <1>5, <1>7
  <2> QED
    BY <1>2, <2>1, <2>2 DEF OneRequest
<1>8. CASE accepted
  <2>1. store'.version = r.version
    BY <1>2, <1>8 DEF NewEntry
  <2>2. Granted(m)'
    BY <1>0, <1>5, <1>8, <2>1 DEF Granted
  <2>3. Aware(m)'
    BY <1>6, <2>2 DEF Aware, StoreKnows, NodeKnows
  <2>4. ASSUME NEW n \in Mounts, n # m PROVE Aware(n)'
    <3> DEFINE b == [from |-> m, conn |-> r.conn, version |-> r.version, value |-> r.value]
    <3>1. b \in broadcasts' /\ b.version = r.version /\ b.from = m
      BY <1>2, <1>8
    <3> HIDE DEF b
    <3>2. Coming(n)'
      BY <2>1, <2>4, <3>1 DEF Coming
    <3> QED
      BY <1>7, <2>4, <3>2 DEF Aware, StoreKnows, NodeKnows
  <2> QED
    BY <2>3, <2>4
<1>9. CASE ~accepted
  <2>1. store' = store /\ broadcasts' = broadcasts
    BY <1>2, <1>9
  <2>2. ASSUME NEW n \in Mounts, n # m PROVE Aware(n)'
    <3>1. /\ \A q \in requests : q.from = n => q \in requests'
          /\ \A q \in requests' : q.from = n => q \in requests
          /\ \A i \in inbox : i.to = n => i \in inbox'
          /\ \A i \in inbox' : i.to = n => i \in inbox
      BY <1>0, <1>2, <1>3, <1>5, <2>2
    <3> QED
      BY <1>2, <2>1, <3>1, AwareKept
  <2>3. /\ Coming(m) => Coming(m)'
        /\ Waiting(m) => Waiting(m)'
        /\ Granted(m) => Granted(m)'
    BY <1>2, <1>5, <2>1 DEF Coming, Waiting, Granted
  <2>4. CASE r.kind = "get" /\ output.kind = "put"
    <3>1. Granted(m)'
      BY <1>0, <1>5, <2>1, <2>4 DEF Granted
    <3> QED
      BY <1>6, <2>2, <3>1 DEF Aware, StoreKnows, NodeKnows
  <2>5. CASE r.kind = "get" /\ output.kind # "put"
    <3>1. store.version = 0
      BY <1>1, <2>5 DEF Absent, Inv, TypeOK, Entry, Versionz, History
    <3>2. local[m].version = 0
      BY <1>0, <3>1 DEF Inv, Knowledge, Published
    <3>3. op[m].kind \in {"mount", "reload"}
      BY <1>0, <1>3, <1>4, <2>5 DEF Inv, TypeOK, Op
    <3> QED
      BY <1>2, <1>6, <2>1, <2>2, <3>1, <3>2, <3>3 DEF Aware, StoreKnows, NodeKnows
  <2>6. CASE r.kind = "put" /\ output.kind = "stale"
    <3>1. Denied(m)' /\ op'[m].kind = "put"
      BY <1>0, <1>2, <1>3, <1>5, <2>6 DEF Denied
    <3>2. ~Asking(m, "get")
      BY <1>3, <2>6 DEF Asking
    <3>3. StoreKnows(m)'
      BY <1>0, <1>2, <2>1, <2>3, <3>2 DEF Aware, StoreKnows
    <3>4. NodeKnows(m)'
      BY <3>1 DEF NodeKnows
    <3> QED
      BY <1>6, <2>2, <3>3, <3>4 DEF Aware
  <2> QED
    BY <1>1, <1>9, <2>4, <2>5, <2>6
<1> QED
  BY <1>8, <1>9

\* A broadcast leaves its news in the inboxes of all who did not make it.
LEMMA FanoutAware ==
    ASSUME Inv, NEW b \in broadcasts, Fanout(b), \A n \in Mounts : Aware(n)
    PROVE  \A n \in Mounts : Aware(n)'
<1> DEFINE news(n) == [kind |-> "put", to |-> n, tag |-> 0,
                       version |-> b.version, value |-> b.value]
           told == {d \in Mounts : op[d].kind # "down" /\ <<d, conn[d]>> # <<b.from, b.conn>>}
<1>1. /\ broadcasts' = broadcasts \ {b}
      /\ inbox' = inbox \cup {news(n) : n \in told}
      /\ UNCHANGED <<store, node, op, local, requests, listening, conn>>
  BY DEF Fanout, faultVars
<1>2. \A n : news(n).to = n /\ news(n).tag = 0 /\ news(n).version = b.version
  OBVIOUS
<1> HIDE DEF news
<1>3. \A i \in inbox' : i \in inbox \/ i.tag = 0
  BY <1>1, <1>2
<1> SUFFICES ASSUME NEW n \in Mounts PROVE Aware(n)'
  OBVIOUS
<1>4. OneRequest(n)'
  BY <1>1, <1>3 DEF Aware, OneRequest
<1>5. CASE op[n].kind = "down"
  BY <1>1, <1>4, <1>5 DEF Aware, StoreKnows, NodeKnows
<1>6. CASE op[n].kind # "down"
  <2>1. ASSUME Coming(n) PROVE Coming(n)'
    <3>1. CASE b.version = store.version /\ b.from # n
      <4>1. news(n) \in inbox'
        BY <1>1, <1>6, <3>1
      <4> QED
        BY <1>1, <1>2, <3>1, <4>1 DEF Coming
    <3>2. CASE ~(b.version = store.version /\ b.from # n)
      BY <1>1, <2>1, <3>2 DEF Coming
    <3> QED
      BY <3>1, <3>2
  <2>2. /\ Waiting(n) => Waiting(n)'
        /\ Granted(n) => Granted(n)'
        /\ Denied(n) => Denied(n)'
        /\ Asking(n, "get") => Asking(n, "get")'
        /\ Asking(n, "put") => Asking(n, "put")'
    BY <1>1 DEF Waiting, Granted, Denied, Asking
  <2>3. StoreKnows(n)'
    BY <1>1, <2>1, <2>2 DEF Aware, StoreKnows
  <2>4. NodeKnows(n)'
    BY <1>1, <2>1, <2>2 DEF Aware, NodeKnows
  <2> QED
    BY <1>4, <2>3, <2>4 DEF Aware
<1> QED
  BY <1>5, <1>6

\* What a mount learns is not older than what it knew, and the last version if
\* it is told of that.
LEMMA LearnLatest ==
    ASSUME NEW last \in Nat, NEW known, NEW i,
           known.version \in 0..last, i.version \in 0..last
    PROVE  /\ known.version = last => Learn(known, i).version = last
           /\ i.version = last => Learn(known, i).version = last
BY DEF Learn, NewEntry

\* An answer ends the call that waited for it: it brings the last version, or
\* the mark of a refused put, or the news is elsewhere.
LEMMA AnsweredAware ==
    ASSUME Inv, NEW i \in inbox, NEW m \in Mounts, Aware(m), i.to = m,
           i.tag # 0, i.tag = op[m].tag, Answered(m, i), inbox' = inbox \ {i},
           UNCHANGED <<listening, requests, store, log, broadcasts, conn>>
    PROVE  Aware(m)'
<1>t. /\ node \in [Mounts -> Node] /\ local \in [Mounts -> Entry] /\ op \in [Mounts -> Op]
      /\ node[m] \in Node /\ local[m] \in Entry /\ op[m] \in Op /\ i \in Message
      /\ store.version \in Nat /\ i.version \in Nat
      /\ local[m].version \in 0..store.version
      /\ node[m].version \in 0..store.version
      /\ i.kind = "put" => i.version \in 0..store.version
  BY BoundAssumption
     DEF Inv, TypeOK, Entry, Versionz, Knowledge, Published, CacheOK, Message
<1>o. /\ op'[m].kind = "idle"
      /\ \A j \in inbox : (j.to = m /\ j.tag # 0) => j = i
      /\ \A r \in requests : r.from # m
  BY <1>t DEF Aware, OneRequest, Answered, Idle
<1>1. OneRequest(m)'
  BY <1>o DEF OneRequest
<1>2. /\ Coming(m) => Coming(m)'
      /\ Waiting(m) => Waiting(m)'
      /\ Granted(m) => i.kind = "put" /\ i.version = store.version
      /\ Denied(m) => i.kind = "stale"
      /\ ~Asking(m, "get") /\ ~Asking(m, "put")
  BY <1>o DEF Coming, Waiting, Granted, Denied, Asking
<1>3. StoreKnows(m)'
  <2>1. \/ i.kind = "put" /\ local'[m] = Learn(local[m], i)
        \/ i.kind # "put" /\ local'[m].version = local[m].version
    BY <1>t DEF Answered, Doubt, Entry
  <2>2. i.kind = "put" /\ (local[m].version = store.version \/ i.version = store.version)
           => Learn(local[m], i).version = store.version
    BY <1>t, LearnLatest
  <2>3. \/ local[m].version = store.version \/ Coming(m)
        \/ i.kind = "put" /\ i.version = store.version
    BY <1>2, <1>t DEF Aware, StoreKnows, Inv, TagOK
  <2> QED
    BY <1>2, <2>1, <2>2, <2>3 DEF StoreKnows
<1>4. NodeKnows(m)'
  <2>0. \/ Coming(m) \/ Waiting(m)
        \/ i.kind = "put" /\ i.version = store.version
        \/ op[m].kind # "reload" /\ node[m].shouldReloadMetadata
        \/ op[m].kind \in {"mount", "reload"} /\ store.version = 0
        \/ op[m].kind = "put" /\ i.kind = "stale"
    BY <1>2 DEF Aware, NodeKnows, Inv, TagOK
  <2>1. CASE Coming(m) \/ Waiting(m)
    BY <1>2, <2>1 DEF NodeKnows
  <2>2. CASE i.kind = "put" /\ i.version = store.version
    <3>1. op[m].kind = "put" => i.version = node[m].version + 1
      BY <2>2 DEF Inv, TagOK
    <3>2. node'[m].version = i.version
      <4>1. CASE op[m].kind = "put"
        <5>1. node' = [node EXCEPT ![m] = Saved(m)]
          BY <2>2, <4>1 DEF Answered
        <5>2. Saved(m).version = node[m].version + 1
          BY <1>t DEF Saved, Node
        <5> QED
          BY <1>t, <3>1, <4>1, <5>1, <5>2
      <4>2. CASE op[m].kind # "put"
        BY <1>t, <2>2, <4>2 DEF Answered, Reloaded, Node
      <4> QED
        BY <4>1, <4>2
    <3> QED
      BY <1>o, <2>2, <3>2 DEF NodeKnows
  <2>3. CASE op[m].kind # "reload" /\ node[m].shouldReloadMetadata
    <3>1. node'[m].shouldReloadMetadata
      <4>1. CASE op[m].kind = "put"
        <5>1. node'[m] = Saved(m) \/ node'[m] = RolledBack(m, i.kind = "stale")
          BY <1>t, <4>1 DEF Answered
        <5>2. Saved(m).shouldReloadMetadata = node[m].shouldReloadMetadata
          BY <1>t DEF Saved, Node
        <5>3. RolledBack(m, i.kind = "stale").shouldReloadMetadata
                = (node[m].shouldReloadMetadata \/ i.kind = "stale")
          BY <1>t DEF RolledBack, Node
        <5> QED
          BY <2>3, <5>1, <5>2, <5>3
      <4>2. CASE op[m].kind # "put"
        <5>1. node' = node \/ node' = [node EXCEPT ![m].version = i.version, ![m].xattrs = i.value]
          BY <2>3, <4>2 DEF Answered
        <5> QED
          BY <1>t, <2>3, <5>1 DEF Node
      <4> QED
        BY <4>1, <4>2
    <3> QED
      BY <1>o, <3>1 DEF NodeKnows
  <2>4. CASE op[m].kind \in {"mount", "reload"} /\ store.version = 0
    <3>1. node'[m].version \in {node[m].version, i.version}
          /\ (i.kind # "put" => node'[m].version = node[m].version)
      BY <1>t, <2>4 DEF Answered, Reloaded, Node
    <3> QED
      BY <1>o, <1>t, <2>4, <3>1 DEF NodeKnows
  <2>5. CASE op[m].kind = "put" /\ i.kind = "stale"
    <3>1. node'[m] = RolledBack(m, TRUE)
      BY <1>t, <2>5 DEF Answered
    <3>2. RolledBack(m, TRUE).shouldReloadMetadata
      BY <1>t DEF RolledBack, Node
    <3> QED
      BY <1>o, <3>1, <3>2 DEF NodeKnows
  <2> QED
    BY <2>0, <2>1, <2>2, <2>3, <2>4, <2>5
<1> QED
  BY <1>1, <1>3, <1>4 DEF Aware

LEMMA ReceiveAware ==
    ASSUME Inv, NEW i \in inbox, Receive(i), \A n \in Mounts : Aware(n)
    PROVE  \A n \in Mounts : Aware(n)'
<1> DEFINE m == i.to
<1>m. m \in Mounts /\ i \in Message
  BY DEF Inv, TypeOK, Message
<1>u. /\ UNCHANGED <<requests, store, log, broadcasts, conn>> /\ inbox' = inbox \ {i}
      /\ op[m].kind # "down"
  BY DEF Receive, serverVars, faultVars
<1>1. \/ /\ i.tag = 0
         /\ local' = [local EXCEPT ![m] = Learn(@, i)]
         /\ listening' = [listening EXCEPT ![m] = @ \cup {i}]
         /\ UNCHANGED <<node, op>>
      \/ /\ i.tag # 0 /\ i.tag = op[m].tag
         /\ Answered(m, i)
         /\ UNCHANGED listening
      \/ i.tag # 0 /\ i.tag # op[m].tag
  BY DEF Receive
<1> HIDE DEF m
<1>d. i.to = m
  BY DEF m
<1>2. ASSUME NEW n \in Mounts, n # m PROVE Aware(n)'
  <2>1. CASE i.tag # 0 /\ i.tag # op[m].tag
    BY <1>m, <1>d, <2>1 DEF Aware, OneRequest
  <2>2. CASE ~(i.tag # 0 /\ i.tag # op[m].tag)
    <3>1. op'[n] = op[n] /\ node'[n] = node[n] /\ local'[n] = local[n]
          /\ listening'[n] = listening[n]
      BY <1>1, <1>2, <1>m, <2>2 DEF Answered, Inv, TypeOK
    <3>2. /\ \A j \in inbox : j.to = n => j \in inbox'
          /\ \A j \in inbox' : j.to = n => j \in inbox
      BY <1>u, <1>d, <1>2
    <3> QED
      BY <1>u, <3>1, <3>2, AwareKept
  <2> QED
    BY <2>1, <2>2
<1>3. Aware(m)'
  <2>1. CASE i.tag # 0 /\ i.tag # op[m].tag
    BY <1>m, <1>d, <2>1 DEF Aware, OneRequest
  <2>2. CASE i.tag # 0 /\ i.tag = op[m].tag
    BY <1>m, <1>u, <1>d, <1>1, <2>2, AnsweredAware
  <2>3. CASE i.tag = 0
    <3>1. /\ local' = [local EXCEPT ![m] = Learn(@, i)]
          /\ listening' = [listening EXCEPT ![m] = @ \cup {i}]
          /\ UNCHANGED <<node, op>>
      BY <1>1, <2>3
    <3>2. local'[m] = Learn(local[m], i) /\ listening'[m] = listening[m] \cup {i}
      BY <1>m, <3>1 DEF Inv, TypeOK
    <3>3. /\ store.version \in Nat /\ i.version \in 0..store.version
          /\ local[m].version \in 0..store.version
      BY <1>m, <2>3, BoundAssumption
         DEF Inv, TypeOK, Entry, Versionz, Knowledge, Published, Delivered
    <3>4. OneRequest(m)'
      BY <1>m, <1>u, <3>1 DEF Aware, OneRequest
    <3>5. CASE i.version = store.version
      <4>1. Waiting(m)' /\ local'[m].version = store'.version
        BY <1>u, <3>2, <3>3, <3>5, LearnLatest DEF Waiting
      <4> QED
        BY <3>4, <4>1 DEF Aware, StoreKnows, NodeKnows
    <3>6. CASE i.version # store.version
      <4>1. local[m].version = store.version => local'[m].version = store'.version
        BY <1>u, <3>2, <3>3, LearnLatest
      <4>2. /\ Coming(m) => Coming(m)'
            /\ Waiting(m) => Waiting(m)'
            /\ Granted(m) => Granted(m)'
            /\ Denied(m) => Denied(m)'
            /\ Asking(m, "get") => Asking(m, "get")'
            /\ Asking(m, "put") => Asking(m, "put")'
        BY <1>u, <2>3, <3>2, <3>6 DEF Coming, Waiting, Granted, Denied, Asking
      <4>3. StoreKnows(m)'
        BY <1>m, <3>1, <4>1, <4>2 DEF Aware, StoreKnows
      <4>4. NodeKnows(m)'
        BY <1>m, <1>u, <3>1, <4>2 DEF Aware, NodeKnows
      <4> QED
        BY <3>4, <4>3, <4>4 DEF Aware
    <3> QED
      BY <3>5, <3>6
  <2> QED
    BY <2>1, <2>2, <2>3
<1> QED
  BY <1>2, <1>3

\* InvalidateCache marks the node if it is behind the news.
LEMMA InvalidateCacheAware ==
    ASSUME Inv, NEW m \in Mounts, NEW i \in listening[m], InvalidateCache(m, i),
           \A n \in Mounts : Aware(n)
    PROVE  \A n \in Mounts : Aware(n)'
<1>u. /\ UNCHANGED <<op, local, requests, inbox, store, broadcasts, conn>>
      /\ op[m].kind \in {"idle", "mount"}
  BY DEF InvalidateCache, serverVars, faultVars
<1>1. /\ listening'[m] = listening[m] \ {i}
      /\ node'[m].version = node[m].version
      /\ node[m].shouldReloadMetadata => node'[m].shouldReloadMetadata
      /\ i.version > node[m].version => node'[m].shouldReloadMetadata
      /\ \A n \in Mounts : n # m => node'[n] = node[n] /\ listening'[n] = listening[n]
  BY DEF InvalidateCache, Inv, TypeOK, Node
<1>2. /\ store.version \in Nat /\ node[m].version \in 0..store.version
  BY BoundAssumption DEF Inv, TypeOK, Entry, Versionz, CacheOK
<1>3. ASSUME NEW n \in Mounts, n # m PROVE Aware(n)'
  BY <1>u, <1>1, <1>3, AwareKept
<1>4. Aware(m)'
  <2>1. OneRequest(m)'
    BY <1>u, <1>1 DEF Aware, OneRequest
  <2>2. /\ Coming(m) => Coming(m)'
        /\ Granted(m) => Granted(m)'
        /\ Asking(m, "get") => Asking(m, "get")'
        /\ Waiting(m) => Waiting(m)' \/ i.version = store.version
    BY <1>u, <1>1 DEF Coming, Waiting, Granted, Asking
  <2>3. StoreKnows(m)'
    BY <1>u, <2>2 DEF Aware, StoreKnows
  <2>4. NodeKnows(m)'
    <3>1. CASE i.version = store.version /\ node[m].version < store.version
      BY <1>u, <1>1, <1>2, <3>1 DEF NodeKnows
    <3>2. CASE i.version = store.version /\ node[m].version = store.version
      BY <1>u, <1>1, <3>2 DEF Aware, OneRequest, NodeKnows
    <3>3. CASE i.version # store.version
      BY <1>u, <1>1, <2>2, <3>3 DEF Aware, NodeKnows
    <3> QED
      BY <1>2, <3>1, <3>2, <3>3
  <2> QED
    BY <2>1, <2>3, <2>4 DEF Aware
<1> QED
  BY <1>3, <1>4

LEMMA InitCoherent == Init => Coherent
BY DEF Init, Coherent, Aware, OneRequest, StoreKnows, NodeKnows, Down, FreshNode

LEMMA NextCoherent == Inv /\ Coherent /\ [Next]_vars => Coherent'
<1> SUFFICES ASSUME Inv, Coherent, [Next]_vars, Calm' PROVE \A n \in Mounts : Aware(n)'
  BY DEF Coherent
<1>l. losses \in Nat
  BY BoundAssumption DEF Inv, TypeOK
<1>c. ASSUME UNCHANGED faultVars PROVE Calm /\ \A n \in Mounts : Aware(n)
  <2>1. Calm
    BY <1>c DEF Calm, faultVars
  <2> QED
    BY <2>1 DEF Coherent
<1>1. ASSUME NEW m \in Mounts, Mount(m) PROVE \A n \in Mounts : Aware(n)'
  <2>1. UNCHANGED faultVars
    BY <1>1, Zenon DEF Mount
  <2> QED
    BY <1>1, <1>c, <2>1, MountAware
<1>2. ASSUME NEW m \in Mounts, NEW a \in Attrs, NEW flags \in Flags, Setxattr(m, a, flags)
      PROVE  \A n \in Mounts : Aware(n)'
  <2>1. UNCHANGED faultVars
    BY <1>2, Zenon DEF Setxattr, StartSync
  <2> QED
    BY <1>2, <1>c, <2>1, StartSyncAware DEF Setxattr
<1>3. ASSUME NEW m \in Mounts, Flush(m) PROVE \A n \in Mounts : Aware(n)'
  <2>1. UNCHANGED faultVars
    BY <1>3, Zenon DEF Flush, StartSync
  <2> QED
    BY <1>3, <1>c, <2>1, StartSyncAware DEF Flush
<1>4. ASSUME NEW m \in Mounts, Reload(m) PROVE \A n \in Mounts : Aware(n)'
  <2>1. UNCHANGED faultVars
    BY <1>4, Zenon DEF Reload
  <2> QED
    BY <1>4, <1>c, <2>1, ReloadAware
<1>5. ASSUME NEW m \in Mounts, NEW i \in listening[m], InvalidateCache(m, i)
      PROVE  \A n \in Mounts : Aware(n)'
  <2>1. UNCHANGED faultVars
    BY <1>5, Zenon DEF InvalidateCache
  <2> QED
    BY <1>5, <1>c, <2>1, InvalidateCacheAware
<1>6. ASSUME NEW m \in Mounts,
             Timeout(m) \/ MountTimeout(m) \/ LoseConnection(m) \/ Crash(m)
      PROVE  FALSE
  <2>1. timedOut' = TRUE \/ losses' = losses + 1
    BY <1>6, Zenon DEF Timeout, MountTimeout, LoseConnection, Crash
  <2>2. losses' # losses + 1
    BY <1>l DEF Calm
  <2> QED
    BY <2>1, <2>2, Zenon DEF Calm
<1>7. ASSUME NEW r \in requests, HandleInput(r) PROVE \A n \in Mounts : Aware(n)'
  <2>1. UNCHANGED faultVars
    BY <1>7, Zenon DEF HandleInput
  <2> QED
    BY <1>7, <1>c, <2>1, HandleInputAware
<1>8. ASSUME NEW b \in broadcasts, Fanout(b) PROVE \A n \in Mounts : Aware(n)'
  <2>1. UNCHANGED faultVars
    BY <1>8, Zenon DEF Fanout
  <2> QED
    BY <1>8, <1>c, <2>1, FanoutAware
<1>9. ASSUME NEW i \in inbox, Receive(i) PROVE \A n \in Mounts : Aware(n)'
  <2>1. UNCHANGED faultVars
    BY <1>9, Zenon DEF Receive
  <2> QED
    BY <1>9, <1>c, <2>1, ReceiveAware
<1>10. ASSUME ServerRestart PROVE FALSE
  BY <1>10, <1>l DEF ServerRestart, Calm
<1>11. ASSUME UNCHANGED vars PROVE \A n \in Mounts : Aware(n)'
  <2>1. UNCHANGED faultVars
    BY <1>11 DEF vars, faultVars
  <2> QED
    BY <1>11, <1>c, <2>1, AwareKept DEF vars
<1>12. ASSUME NEW m \in Mounts, ReturnAtOnce(m) PROVE UNCHANGED vars
  BY <1>12, Zenon DEF ReturnAtOnce
<1> QED
  BY <1>1, <1>2, <1>3, <1>4, <1>5, <1>6, <1>7, <1>8, <1>9, <1>10, <1>11, <1>12, Zenon
     DEF Next

\* Once everything sent has arrived, and nothing was lost or timed out, every
\* mount has the last version or is marked for reload: handleInput's fan-out,
\* InvalidateCache and the local copies let no order of messages leave one
\* behind, for any number of mounts.
THEOREM NobodyLeftBehind == Spec => []QuiescentCoherent
<1>1. Inv /\ Coherent => QuiescentCoherent
  BY DEF Coherent, QuiescentCoherent, Quiet, UpToDate, Calm, Aware, NodeKnows,
         Coming, Waiting, Granted, Denied, Asking
<1>2. Init => Inv /\ Coherent
  BY InitInv, InitCoherent
<1>3. Inv /\ Coherent /\ [Next]_vars => (Inv /\ Coherent)'
  BY NextInv, NextCoherent
<1> QED
  BY <1>1, <1>2, <1>3, PTL DEF Spec
================================================================================
