--------------------------- MODULE FileNodeProofs ---------------------------
(***************************************************************************)
(* Proofs about FileNode for any bytes, lengths, versions and environment. *)
(***************************************************************************)
EXTENDS FileNode, SequenceTheorems, TLAPS

\* A slice and the rest of its array are no longer than a file, and a call
\* under way has a version to go.
Room(n) == Len(n.content) + Len(n.spare) <= MaxLen
Fits ==
    /\ Room(node)
    /\ Len(call.prevContent) + Len(call.prevSpare) <= MaxLen
    /\ call # NoCall => node.version < MaxVersion

TypeInv == TypeOK /\ Fits

\* Every key that is published, or may be, names a blob that was saved or
\* that a Setattr tried to save.
Stored(key) == key = NoKey \/ key \in blobs \cup refused
KeysStored ==
    Stored(meta.contentKey) /\ Stored(node.contentKey) /\ Stored(call.prevKey)

\* What is on the servers when nothing got in the way: the flags tell what is
\* still to be saved.
UpToDate ==
    /\ meta.version = node.version
    /\ ~node.shouldReloadMetadata
    /\ ~node.shouldSaveMetadata => meta.contentKey = node.contentKey
    /\ ~node.shouldSaveContent => Fetch(node.contentKey) = latest
    /\ call.step = "metadata" => ~node.shouldSaveContent
    /\ writes = "saved" => Fetch(meta.contentKey) = latest

\* What is in memory then: the file, once the kernel holds the node.
Held ==
    /\ known => node.content = latest
    /\ ~known => call = NoCall /\ ~node.shouldSaveContent /\ node.content = <<>>
    /\ lookup.active => /\ ~lookup.overlaps /\ call = NoCall
                        /\ lookup.value = node.contentKey
                        /\ node.contentKey \in blobs
                        /\ NeedsContent(node)

Quiet == disturbed = 0 => UpToDate /\ Held

--------------------------------------------------------------------------------
(* Contents. *)

LEMMA IsContents ==
    ASSUME NEW c
    PROVE  c \in Contents <=> c \in Seq(Bytes) /\ Len(c) <= MaxLen
<1> USE FileAssumption
<1>1. ASSUME c \in Contents PROVE c \in Seq(Bytes) /\ Len(c) <= MaxLen
  <2>1. PICK n \in 0..MaxLen : c \in [1..n -> Bytes]
    BY <1>1 DEF Contents
  <2> QED
    BY <2>1
<1>2. ASSUME c \in Seq(Bytes), Len(c) <= MaxLen PROVE c \in Contents
  <2>1. Len(c) \in 0..MaxLen /\ c \in [1..Len(c) -> Bytes]
    BY <1>2
  <2> QED
    BY <2>1 DEF Contents
<1> QED
  BY <1>1, <1>2

LEMMA EmptyContents == <<>> \in Contents /\ Len(<<>>) = 0
<1>1. <<>> \in Seq(Bytes) /\ Len(<<>>) = 0
  OBVIOUS
<1>2. 0 <= MaxLen
  BY FileAssumption
<1> QED
  BY <1>1, <1>2, IsContents

LEMMA FetchTyped ==
    ASSUME blobs \subseteq Contents, NEW key PROVE Fetch(key) \in Contents
BY EmptyContents DEF Fetch

LEMMA ResizedTyped ==
    ASSUME NEW c \in Contents, NEW size \in 0..MaxLen
    PROVE  /\ Resized(c, size) \in Contents
           /\ Len(Resized(c, size)) = size
           /\ \A i \in 1..size : Resized(c, size)[i] = IF i <= Len(c) THEN c[i] ELSE Zero
<1> USE FileAssumption
<1>1. c \in Seq(Bytes) /\ Len(c) \in Nat
  BY IsContents
<1>2. \A i \in 1..size : (IF i <= Len(c) THEN c[i] ELSE Zero) \in Bytes
  BY <1>1
<1>3. Resized(c, size) \in [1..size -> Bytes]
  BY <1>2 DEF Resized
<1>4. Resized(c, size) \in Seq(Bytes) /\ Len(Resized(c, size)) = size
  BY <1>3
<1> QED
  BY <1>4, IsContents DEF Resized

\* An array cut in two at a length.
LEMMA CutTyped ==
    ASSUME NEW c \in Contents, NEW d \in Contents, NEW size \in 0..MaxLen,
           Len(c) + Len(d) <= MaxLen, size <= Len(c \o d)
    PROVE  LET a == SubSeq(c \o d, 1, size)
               b == SubSeq(c \o d, size + 1, Len(c \o d))
           IN  /\ a \in Contents /\ b \in Contents
               /\ Len(a) = size /\ Len(a) + Len(b) <= MaxLen
               /\ \A i \in 1..size : i <= Len(c) => a[i] = c[i]
<1> USE FileAssumption
<1> DEFINE cells == c \o d
           a == SubSeq(cells, 1, size)
           b == SubSeq(cells, size + 1, Len(cells))
<1>1. /\ c \in Seq(Bytes) /\ d \in Seq(Bytes)
      /\ Len(c) \in Nat /\ Len(d) \in Nat
  BY IsContents
<1>2. /\ cells \in Seq(Bytes) /\ Len(cells) = Len(c) + Len(d)
      /\ \A i \in 1..(Len(c) + Len(d)) :
            cells[i] = IF i <= Len(c) THEN c[i] ELSE d[i - Len(c)]
  BY <1>1, ConcatProperties
<1>3. \A i \in 1..Len(c) : cells[i] = c[i]
  BY <1>1, <1>2
<1> HIDE DEF cells
<1>4. /\ size \in Nat /\ Len(cells) \in Nat
      /\ size <= Len(cells) /\ Len(cells) <= MaxLen
  BY <1>1, <1>2 DEF cells
<1>5. \A i \in 1..Len(cells) : cells[i] \in Bytes
  BY <1>2
<1>6. a \in Seq(Bytes) /\ Len(a) = size /\ \A i \in 1..size : a[i] = cells[i]
  <2>1. \A i \in 1..size : cells[i] \in Bytes
    BY <1>4, <1>5
  <2>2. /\ a \in Seq(Bytes) /\ Len(a) = IF 1 <= size THEN size - 1 + 1 ELSE 0
        /\ \A i \in 1..(size - 1 + 1) : a[i] = cells[1 + i - 1]
    BY <1>4, <2>1, SubSeqProperties
  <2> QED
    BY <1>4, <2>2
<1>7. b \in Seq(Bytes) /\ Len(b) = Len(cells) - size
  <2>1. /\ \A i \in (size + 1)..Len(cells) : cells[i] \in Bytes
        /\ size + 1 \in Int /\ Len(cells) \in Int
    BY <1>4, <1>5
  <2>2. /\ b \in Seq(Bytes)
        /\ Len(b) = IF size + 1 <= Len(cells) THEN Len(cells) - (size + 1) + 1 ELSE 0
    BY <2>1, SubSeqProperties
  <2> QED
    BY <1>4, <2>2
<1> HIDE DEF a, b
<1>8. Len(a) + Len(b) <= MaxLen /\ Len(a) <= MaxLen /\ Len(b) <= MaxLen
  BY <1>4, <1>6, <1>7
<1>9. a \in Contents /\ b \in Contents
  BY <1>6, <1>7, <1>8, IsContents
<1>10. \A i \in 1..size : i <= Len(c) => a[i] = c[i]
  BY <1>1, <1>3, <1>6
<1> QED
  BY <1>6, <1>8, <1>9, <1>10 DEF a, b, cells

\* resize keeps what the slice and the rest of its array hold within bounds,
\* and what the slice has up to the new length.
LEMMA ResizeTyped ==
    ASSUME NEW n \in Node, NEW size \in 0..MaxLen,
           Room(n)
    PROVE  \E a, b \in Contents :
               /\ Resize(n, size) = [n EXCEPT !.content = a, !.spare = b]
               /\ Len(a) = size /\ Len(a) + Len(b) <= MaxLen
               /\ \A i \in 1..size : i <= Len(n.content) => a[i] = n.content[i]
<1> USE FileAssumption
<1> DEFINE cells == n.content \o n.spare
<1>1. n.content \in Contents /\ n.spare \in Contents
  BY DEF Node
<1>2. size \in Int /\ Len(cells) \in Int
  BY <1>1, IsContents, ConcatProperties
<1>r. Len(n.content) + Len(n.spare) <= MaxLen
  BY DEF Room
<1>3. CASE size > Len(cells)
  <2> DEFINE a == Resized(n.content, size)
  <2>1. Resize(n, size) = [n EXCEPT !.content = a, !.spare = <<>>]
    BY <1>3 DEF Resize
  <2>2. /\ a \in Contents /\ Len(a) = size
        /\ \A i \in 1..size : i <= Len(n.content) => a[i] = n.content[i]
    BY <1>1, ResizedTyped
  <2> HIDE DEF a
  <2>3. Len(a) + Len(<<>>) <= MaxLen
    BY <2>2, EmptyContents
  <2> QED
    BY <2>1, <2>2, <2>3, EmptyContents
<1>4. CASE ~(size > Len(cells))
  <2> DEFINE a == SubSeq(cells, 1, size)
             b == SubSeq(cells, size + 1, Len(cells))
  <2>1. Resize(n, size) = [n EXCEPT !.content = a, !.spare = b]
    BY <1>4 DEF Resize
  <2>0. size <= Len(cells)
    <3> HIDE DEF cells
    <3> QED
      BY <1>2, <1>4
  <2>2. /\ a \in Contents /\ b \in Contents
        /\ Len(a) = size /\ Len(a) + Len(b) <= MaxLen
        /\ \A i \in 1..size : i <= Len(n.content) => a[i] = n.content[i]
    BY <1>1, <1>r, <2>0, CutTyped
  <2> HIDE DEF a, b
  <2> QED
    BY <2>1, <2>2
<1> QED
  BY <1>3, <1>4
\* A byte put into a content.
LEMMA ByteTyped ==
    ASSUME NEW c \in Contents, NEW k \in 1..Len(c), NEW byte \in Bytes
    PROVE  /\ [c EXCEPT ![k] = byte] \in Contents
           /\ Len([c EXCEPT ![k] = byte]) = Len(c)
<1>1. c \in Seq(Bytes) /\ Len(c) <= MaxLen
  BY IsContents
<1>2. /\ [c EXCEPT ![k] = byte] \in Seq(Bytes)
      /\ Len([c EXCEPT ![k] = byte]) = Len(c)
  BY <1>1
<1> QED
  BY <1>1, <1>2, IsContents

\* New content in a node, with no array to spare.
LEMMA ContentSet ==
    ASSUME NEW n \in Node, NEW c \in Contents
    PROVE  /\ [n EXCEPT !.content = c, !.spare = <<>>] \in Node
           /\ Room([n EXCEPT !.content = c, !.spare = <<>>])
<1>1. Len(c) + 0 <= MaxLen /\ Len(<<>>) = 0
  BY IsContents, EmptyContents, FileAssumption
<1>2. [n EXCEPT !.content = c, !.spare = <<>>] \in Node
  BY EmptyContents DEF Node
<1>3. /\ [n EXCEPT !.content = c, !.spare = <<>>].content = c
      /\ [n EXCEPT !.content = c, !.spare = <<>>].spare = <<>>
  BY DEF Node
<1> QED
  BY <1>1, <1>2, <1>3 DEF Room

LEMMA LoadedTyped ==
    ASSUME NEW v \in 0..MaxVersion, NEW key \in Keys
    PROVE  Loaded(v, key) \in Node /\ Room(Loaded(v, key))
<1>1. Loaded(v, key) \in Node
  BY EmptyContents DEF Loaded, Node
<1>2. Loaded(v, key).content = <<>> /\ Loaded(v, key).spare = <<>>
  BY DEF Loaded
<1> QED
  BY <1>1, <1>2, EmptyContents, FileAssumption DEF Room

LEMMA ReloadedTyped ==
    ASSUME TypeInv PROVE ReloadedNode \in Node /\ Room(ReloadedNode)
<1>1. meta.version \in 0..MaxVersion /\ meta.contentKey \in Keys /\ node \in Node
  BY DEF TypeInv, TypeOK
<1>2. CASE node.contentKey # meta.contentKey
  BY <1>1, <1>2, LoadedTyped DEF ReloadedNode
<1>3. CASE node.contentKey = meta.contentKey
  <2> DEFINE r == [node EXCEPT !.version = meta.version, !.shouldSaveContent = FALSE,
                      !.shouldSaveMetadata = FALSE, !.shouldReloadMetadata = FALSE]
  <2>1. ReloadedNode = r
    BY <1>3 DEF ReloadedNode
  <2>2. r \in Node /\ r.content = node.content /\ r.spare = node.spare
    BY <1>1 DEF Node
  <2> QED
    BY <2>1, <2>2 DEF Room, TypeInv, Fits
<1> QED
  BY <1>2, <1>3

LEMMA WithContentTyped ==
    ASSUME TypeInv, NEW n \in Node, Room(n)
    PROVE  WithContent(n) \in Node /\ Room(WithContent(n))
<1>1. Fetch(n.contentKey) \in Contents
  BY FetchTyped DEF TypeInv, TypeOK
<1> QED
  BY <1>1, ContentSet DEF WithContent

\* A failed call leaves the node in order.
LEMMA RolledBackTyped ==
    ASSUME TypeInv, NEW n \in Node, Room(n)
    PROVE  RolledBack(n) \in Node /\ Room(RolledBack(n))
<1>1. /\ call.prevKey \in Keys /\ call.prevContent \in Contents
      /\ call.prevSpare \in Contents
  BY DEF TypeInv, TypeOK, Call
<1>2. CASE call.kind = "flush" /\ n.contentKey # call.prevKey
  <2> DEFINE m == [n EXCEPT !.contentKey = call.prevKey]
  <2>1. m \in Node
    BY <1>1 DEF Node
  <2>2. [m EXCEPT !.content = <<>>, !.spare = <<>>]
          = [n EXCEPT !.contentKey = call.prevKey, !.content = <<>>, !.spare = <<>>]
    OBVIOUS
  <2>3. RolledBack(n) = [m EXCEPT !.content = <<>>, !.spare = <<>>]
    BY <1>2, <2>2 DEF RolledBack
  <2> HIDE DEF m
  <2> QED
    BY <2>1, <2>3, ContentSet, EmptyContents
<1>3. CASE call.kind = "setattr" /\ call.resized
  <2> DEFINE r == [n EXCEPT !.content = call.prevContent, !.spare = call.prevSpare]
  <2>1. RolledBack(n) = r
    BY <1>3 DEF RolledBack
  <2>2. r \in Node /\ r.content = call.prevContent /\ r.spare = call.prevSpare
    BY <1>1 DEF Node
  <2> QED
    BY <2>1, <2>2 DEF Room, TypeInv, Fits
<1>4. CASE /\ ~(call.kind = "flush" /\ n.contentKey # call.prevKey)
           /\ ~(call.kind = "setattr" /\ call.resized)
  BY <1>4 DEF RolledBack
<1> QED
  BY <1>2, <1>3, <1>4
--------------------------------------------------------------------------------
(* Types. *)

LEMMA NoCallTyped ==
    /\ NoCall \in Call /\ NoCall.step = "none"
    /\ Len(NoCall.prevContent) + Len(NoCall.prevSpare) <= MaxLen
<1>1. NoCall \in Call
  BY EmptyContents DEF NoCall, Call, Keys
<1>2. NoCall.prevContent = <<>> /\ NoCall.prevSpare = <<>> /\ NoCall.step = "none"
  BY DEF NoCall
<1> QED
  BY <1>1, <1>2, EmptyContents, FileAssumption

LEMMA DisturbTyped ==
    ASSUME TypeOK, NEW what, Disturb(what)
    PROVE  disturbed' \in 0..MaxDisturbances /\ disturbed' # 0
BY FileAssumption DEF TypeOK, Disturb

LEMMA FailTyped ==
    ASSUME TypeInv, NEW n \in Node, Room(n), Fail(n)
    PROVE  /\ node' \in Node /\ Room(node)'
           /\ latest' \in Contents /\ writes' \in {"none", "unsaved", "saved"}
           /\ call' = NoCall
<1>1. node' \in Node /\ Room(node)'
  BY RolledBackTyped DEF Fail, Room
<1>2. LatestAfterFailure \in Contents
  <2>1. Fetch(call.prevKey) \in Contents /\ call.prevContent \in Contents
        /\ latest \in Contents
    BY FetchTyped DEF TypeInv, TypeOK, Call
  <2> QED
    BY <2>1 DEF LatestAfterFailure
<1> QED
  BY <1>1, <1>2 DEF Fail

\* An action that neither makes nor moves a call, and keeps the version.
LEMMA CallKept ==
    ASSUME TypeInv, UNCHANGED call, node'.version = node.version, Room(node)'
    PROVE  Fits'
BY DEF TypeInv, Fits, NoCall

LEMMA CallEnded ==
    ASSUME call' = NoCall, Room(node)'
    PROVE  call' \in Call /\ Fits'
BY NoCallTyped DEF Fits

\* A resize keeps everything of a node but its slice.
LEMMA ResizedNode ==
    ASSUME TypeInv, NEW size \in 0..MaxLen
    PROVE  LET r == Resize(node, size)
           IN  /\ r \in Node /\ Room(r)
               /\ r.version = node.version /\ r.contentKey = node.contentKey
               /\ r.shouldSaveContent = node.shouldSaveContent
               /\ r.shouldSaveMetadata = node.shouldSaveMetadata
               /\ r.shouldReloadMetadata = node.shouldReloadMetadata
               /\ Len(r.content) = size
               /\ \A i \in 1..size : i <= Len(node.content) => r.content[i] = node.content[i]
<1>1. node \in Node /\ Room(node)
  BY DEF TypeInv, TypeOK, Fits
<1>2. PICK a \in Contents, b \in Contents :
          /\ Resize(node, size) = [node EXCEPT !.content = a, !.spare = b]
          /\ Len(a) = size /\ Len(a) + Len(b) <= MaxLen
          /\ \A i \in 1..size : i <= Len(node.content) => a[i] = node.content[i]
  BY <1>1, ResizeTyped
<1> DEFINE r == [node EXCEPT !.content = a, !.spare = b]
<1>3. /\ r \in Node
      /\ r.version = node.version /\ r.contentKey = node.contentKey
      /\ r.shouldSaveContent = node.shouldSaveContent
      /\ r.shouldSaveMetadata = node.shouldSaveMetadata
      /\ r.shouldReloadMetadata = node.shouldReloadMetadata
      /\ r.content = a /\ r.spare = b
  BY <1>1 DEF Node
<1> HIDE DEF r
<1>4. Room(r) /\ Len(r.content) = size
  BY <1>2, <1>3 DEF Room
<1>5. \A i \in 1..size : i <= Len(node.content) => r.content[i] = node.content[i]
  BY <1>2, <1>3
<1> QED
  BY <1>2, <1>3, <1>4, <1>5 DEF r

LEMMA AllowedTyped ==
    ASSUME TypeOK, NEW end, AllowedEnd(end)
    PROVE  disturbed' \in 0..MaxDisturbances
BY DisturbTyped DEF AllowedEnd, TypeOK

LEMMA WriteTyped ==
    ASSUME TypeInv, NEW off \in 0..MaxLen, NEW byte \in Bytes, Write(off, byte)
    PROVE  TypeInv'
<1> USE FileAssumption
<1> DEFINE n == IF off + 1 > Len(node.content) THEN Resize(node, off + 1) ELSE node
           l == IF off + 1 > Len(latest) THEN Resized(latest, off + 1) ELSE latest
<1>1. /\ node' = [n EXCEPT !.content[off + 1] = byte, !.shouldSaveContent = TRUE]
      /\ latest' = [l EXCEPT ![off + 1] = byte]
      /\ off + 1 \in 0..MaxLen /\ off + 1 \in Nat /\ off + 1 > 0
      /\ AllowedEnd(off) /\ writes' = "unsaved"
      /\ UNCHANGED <<meta, blobs, call, known, lookup, refused>>
  BY DEF Write
<1>2. /\ node \in Node /\ Room(node) /\ latest \in Contents
      /\ node.content \in Contents
      /\ Len(latest) \in Nat /\ Len(node.content) \in Nat
  BY IsContents DEF TypeInv, TypeOK, Fits, Node
<1>3. /\ n \in Node /\ Room(n) /\ n.version = node.version
      /\ off + 1 \in 1..Len(n.content)
  <2>1. CASE off + 1 > Len(node.content)
    BY <1>1, <2>1, ResizedNode
  <2>2. CASE ~(off + 1 > Len(node.content))
    BY <1>1, <1>2, <2>2
  <2> QED
    BY <2>1, <2>2
<1>4. l \in Contents /\ off + 1 \in 1..Len(l)
  <2>1. CASE off + 1 > Len(latest)
    BY <1>1, <1>2, <2>1, ResizedTyped
  <2>2. CASE ~(off + 1 > Len(latest))
    BY <1>1, <1>2, <2>2
  <2> QED
    BY <2>1, <2>2
<1> HIDE DEF n, l
<1>5. latest' \in Contents
  BY <1>1, <1>4, ByteTyped
<1>6. n.content \in Contents /\ n.spare \in Contents
  BY <1>3 DEF Node
<1>7. /\ [n.content EXCEPT ![off + 1] = byte] \in Contents
      /\ Len([n.content EXCEPT ![off + 1] = byte]) = Len(n.content)
  BY <1>3, <1>6, ByteTyped
<1>8. /\ node' \in Node /\ node'.version = n.version /\ node'.spare = n.spare
      /\ node'.content = [n.content EXCEPT ![off + 1] = byte]
  BY <1>1, <1>3, <1>7 DEF Node
<1>9. Room(node)'
  BY <1>3, <1>7, <1>8 DEF Room
<1>10. Fits'
  BY <1>1, <1>3, <1>8, <1>9, CallKept
<1>11. disturbed' \in 0..MaxDisturbances
  BY <1>1, AllowedTyped DEF TypeInv
<1> QED
  BY <1>1, <1>5, <1>8, <1>10, <1>11 DEF TypeInv, TypeOK

LEMMA SetattrSizeTyped ==
    ASSUME TypeInv, NEW size \in Sizes, SetattrSize(size)
    PROVE  TypeInv'
<1> USE FileAssumption
<1> DEFINE r == Resize(node, size)
           d == [NoCall EXCEPT !.kind = "setattr", !.step = "content",
                    !.resized = TRUE, !.prevContent = node.content,
                    !.prevSpare = node.spare]
<1>1. /\ node' = [r EXCEPT !.shouldSaveContent = TRUE, !.shouldSaveMetadata = TRUE]
      /\ latest' = Resized(latest, size) /\ call' = d
      /\ writes' = "unsaved" /\ AllowedEnd(size) /\ node.version < MaxVersion
      /\ UNCHANGED <<meta, blobs, known, lookup, refused>>
  BY DEF SetattrSize
<1>2. /\ size \in 0..MaxLen
      /\ node \in Node /\ Room(node) /\ latest \in Contents
      /\ node.content \in Contents /\ node.spare \in Contents
  BY DEF TypeInv, TypeOK, Fits, Node
<1>3. r \in Node /\ Room(r) /\ r.version = node.version
  BY <1>2, ResizedNode
<1> HIDE DEF r
<1>4. /\ node' \in Node /\ node'.content = r.content /\ node'.spare = r.spare
      /\ node'.version = node.version
  BY <1>1, <1>3 DEF Node
<1>5. /\ d \in Call /\ d.prevContent = node.content /\ d.prevSpare = node.spare
  BY <1>2, NoCallTyped DEF Call
<1> HIDE DEF d
<1>6. Room(node)'
  BY <1>3, <1>4 DEF Room
<1>7. Fits'
  BY <1>1, <1>2, <1>4, <1>5, <1>6 DEF Fits, Room
<1>8. latest' \in Contents
  BY <1>1, <1>2, ResizedTyped
<1>9. disturbed' \in 0..MaxDisturbances
  BY <1>1, AllowedTyped DEF TypeInv
<1> QED
  BY <1>1, <1>4, <1>5, <1>7, <1>8, <1>9 DEF TypeInv, TypeOK
LEMMA TypeStep == ASSUME TypeInv, [Next]_vars PROVE TypeInv'
<1> USE FileAssumption
<1>t. /\ TypeOK /\ node \in Node /\ Room(node) /\ call \in Call
      /\ node.content \in Contents /\ node.contentKey \in Keys
      /\ node.version \in 0..MaxVersion
      /\ node.shouldSaveContent \in BOOLEAN
  BY DEF TypeInv, TypeOK, Fits, Node
<1>1. ASSUME NEW off \in 0..MaxLen, NEW byte \in Bytes, Write(off, byte)
      PROVE  TypeInv'
  BY <1>1, WriteTyped
<1>2. CASE Flush
  <2> DEFINE f == [NoCall EXCEPT !.kind = "flush", !.step = FirstStep(node),
                       !.prevKey = node.contentKey,
                       !.hadContent = node.shouldSaveContent]
  <2>1. FirstStep(node) \in {"content", "metadata"}
    BY DEF FirstStep
  <2>2. /\ f \in Call
        /\ f.prevContent = NoCall.prevContent /\ f.prevSpare = NoCall.prevSpare
    BY <1>t, <2>1, NoCallTyped DEF Call
  <2>3. /\ call' = f \/ call' = call
        /\ node.version < MaxVersion
        /\ UNCHANGED <<meta, blobs, node, known, lookup, latest, disturbed, refused>>
        /\ writes' \in {writes, "saved"}
    BY <1>2 DEF Flush
  <2> HIDE DEF f
  <2>4. call' \in Call /\ Fits'
    BY <1>t, <2>2, <2>3, NoCallTyped DEF Fits, Room, TypeInv
  <2> QED
    BY <1>t, <2>3, <2>4 DEF TypeInv, TypeOK
<1>3. ASSUME NEW size \in Sizes, SetattrSize(size) PROVE TypeInv'
  BY <1>3, SetattrSizeTyped
<1>4. CASE Setattr
  <2> DEFINE f == [NoCall EXCEPT !.kind = "setattr", !.step = FirstStep(node)]
  <2>1. FirstStep(node) \in {"content", "metadata"}
    BY DEF FirstStep
  <2>2. /\ f \in Call
        /\ f.prevContent = NoCall.prevContent /\ f.prevSpare = NoCall.prevSpare
    BY <2>1, NoCallTyped DEF Call
  <2>3. /\ call' = f /\ node.version < MaxVersion
        /\ node' = [node EXCEPT !.shouldSaveMetadata = TRUE]
        /\ UNCHANGED <<meta, blobs, known, lookup, latest, writes, disturbed, refused>>
    BY <1>4 DEF Setattr
  <2>4. /\ node' \in Node /\ node'.content = node.content /\ node'.spare = node.spare
        /\ node'.version = node.version
    BY <1>t, <2>3 DEF Node
  <2> HIDE DEF f
  <2>5. call' \in Call /\ Fits'
    BY <1>t, <2>2, <2>3, <2>4, NoCallTyped DEF Fits, Room
  <2> QED
    BY <1>t, <2>3, <2>4, <2>5 DEF TypeInv, TypeOK
<1>5. CASE PutBlob
  <2> DEFINE save == node.shouldSaveMetadata \/ node.contentKey # node.content
  <2>1. /\ call.step = "content" /\ blobs' = blobs \cup {node.content}
        /\ node' = [node EXCEPT !.contentKey = node.content,
                        !.shouldSaveContent = FALSE, !.shouldSaveMetadata = save]
        /\ call' = [call EXCEPT !.step = "metadata"] \/ call' = NoCall
        /\ writes' \in {writes, "saved"}
        /\ UNCHANGED <<meta, known, lookup, latest, disturbed, refused>>
    BY <1>5 DEF PutBlob
  <2>2. save \in BOOLEAN /\ node.content \in Keys
    BY <1>t DEF Node, Keys
  <2> HIDE DEF save
  <2>3. /\ node' \in Node /\ node'.content = node.content /\ node'.spare = node.spare
        /\ node'.version = node.version
    BY <1>t, <2>1, <2>2 DEF Node
  <2>4. Room(node)'
    BY <1>t, <2>3 DEF Room
  <2>5. call' \in Call /\ Fits'
    <3>1. CASE call' = NoCall
      BY <2>4, <3>1, CallEnded
    <3>2. CASE call' = [call EXCEPT !.step = "metadata"]
      <4>1. /\ call' \in Call /\ call'.prevContent = call.prevContent
            /\ call'.prevSpare = call.prevSpare
        BY <1>t, <3>2 DEF Call
      <4>2. node.version < MaxVersion
        BY <2>1, NoCallTyped DEF TypeInv, Fits
      <4> QED
        BY <2>3, <2>4, <4>1, <4>2 DEF TypeInv, Fits
    <3> QED
      BY <2>1, <3>1, <3>2
  <2> QED
    BY <1>t, <2>1, <2>3, <2>5 DEF TypeInv, TypeOK
<1>6. CASE PutBlobFails
  <2> DEFINE n == [node EXCEPT !.contentKey = node.content]
  <2>1. n \in Node /\ n.content = node.content /\ n.spare = node.spare
    BY <1>t DEF Node, Keys
  <2>2. Fail(n) /\ BlobMayFail /\ UNCHANGED <<meta, blobs, known, lookup>>
        /\ refused' \in {refused, refused \cup {node.content}}
    BY <1>6 DEF PutBlobFails
  <2> HIDE DEF n
  <2>3. Room(n)
    BY <1>t, <2>1 DEF Room
  <2>4. disturbed' \in 0..MaxDisturbances
    BY <1>t, <2>2, DisturbTyped DEF BlobMayFail
  <2> QED
    BY <1>t, <2>1, <2>2, <2>3, <2>4, FailTyped, CallEnded DEF TypeInv, TypeOK
<1>n. ASSUME call.step = "metadata"
      PROVE  NextMeta \in [version : 0..MaxVersion, contentKey : Keys]
  <2>1. node.version < MaxVersion
    BY <1>n, NoCallTyped DEF TypeInv, Fits
  <2>2. node.version + 1 \in 0..MaxVersion
    BY <1>t, <2>1
  <2> QED
    BY <1>t, <2>2 DEF NextMeta
<1>7. CASE PutMetadata
  <2>1. /\ call.step = "metadata" /\ meta' = NextMeta
        /\ node' = [node EXCEPT !.version = @ + 1, !.shouldSaveMetadata = FALSE]
        /\ call' = NoCall /\ writes' = "saved"
        /\ UNCHANGED <<blobs, known, lookup, latest, disturbed, refused>>
    BY <1>7 DEF PutMetadata
  <2>2. node.version + 1 \in 0..MaxVersion
    BY <1>n, <2>1 DEF NextMeta
  <2>3. node' \in Node /\ node'.content = node.content /\ node'.spare = node.spare
    BY <1>t, <2>1, <2>2 DEF Node
  <2>4. Room(node)'
    BY <1>t, <2>3 DEF Room
  <2> QED
    BY <1>t, <1>n, <2>1, <2>3, <2>4, CallEnded DEF TypeInv, TypeOK
<1>8. CASE PutMetadataStale
  <2> DEFINE n == [node EXCEPT !.shouldReloadMetadata = TRUE]
  <2>1. n \in Node /\ n.content = node.content /\ n.spare = node.spare
    BY <1>t DEF Node
  <2>2. Fail(n) /\ UNCHANGED <<meta, blobs, known, lookup, disturbed, refused>>
    BY <1>8 DEF PutMetadataStale
  <2> HIDE DEF n
  <2>3. Room(n)
    BY <1>t, <2>1 DEF Room
  <2> QED
    BY <1>t, <2>1, <2>2, <2>3, FailTyped, CallEnded DEF TypeInv, TypeOK
<1>9. CASE PutMetadataFails
  <2>1. Fail(node) /\ UNCHANGED <<blobs, known, lookup, refused>>
        /\ call.step = "metadata" /\ (meta' = meta \/ meta' = NextMeta)
    BY <1>9 DEF PutMetadataFails
  <2>2. disturbed' \in 0..MaxDisturbances
    BY <1>t, <1>9, DisturbTyped DEF PutMetadataFails
  <2>3. meta' \in [version : 0..MaxVersion, contentKey : Keys]
    BY <1>t, <1>n, <2>1 DEF TypeOK
  <2> QED
    BY <1>t, <2>1, <2>2, <2>3, FailTyped, CallEnded DEF TypeInv, TypeOK
<1>10. CASE Refresh
  <2> DEFINE n == IF node.shouldReloadMetadata THEN ReloadedNode ELSE node
  <2>1. /\ node' = WithContent(n) \/ node' = n
        /\ latest' = Fetch(meta.contentKey) \/ latest' = latest
        /\ call = NoCall /\ UNCHANGED <<meta, blobs, call, known, lookup, writes, refused>>
    BY <1>10 DEF Refresh, Free
  <2>2. disturbed' \in 0..MaxDisturbances
    BY <1>t, <1>10, DisturbTyped DEF Refresh, TypeOK
  <2>3. n \in Node /\ Room(n)
    BY <1>t, ReloadedTyped
  <2> HIDE DEF n
  <2>4. node' \in Node /\ Room(node)'
    BY <2>1, <2>3, WithContentTyped DEF Room
  <2>5. latest' \in Contents
    BY <1>t, <2>1, FetchTyped DEF TypeOK
  <2> QED
    BY <1>t, <2>1, <2>2, <2>4, <2>5, CallEnded DEF TypeInv, TypeOK
<1>11. CASE Lookup
  <2>1. disturbed' \in 0..MaxDisturbances
    BY <1>t, <1>11, DisturbTyped DEF Lookup, TypeOK
  <2>2. lookup' \in [active : BOOLEAN, overlaps : BOOLEAN, value : Contents]
        /\ known' \in BOOLEAN
    <3>1. CASE NeedsContent(node)
      <4>1. PICK overlaps \in BOOLEAN :
                /\ lookup' = [active |-> TRUE, overlaps |-> overlaps,
                              value |-> node.contentKey]
                /\ node.contentKey \in blobs /\ UNCHANGED known
        BY <1>11, <3>1 DEF Lookup
      <4>2. node.contentKey \in Contents
        BY <1>t, <4>1 DEF TypeOK
      <4> QED
        BY <1>t, <4>1, <4>2 DEF TypeOK
    <3>2. CASE ~NeedsContent(node)
      BY <1>t, <1>11, <3>2 DEF Lookup, TypeOK
    <3> QED
      BY <3>1, <3>2
  <2>3. UNCHANGED <<meta, blobs, node, call, latest, writes, refused>>
    BY <1>11 DEF Lookup
  <2> QED
    BY <1>t, <2>1, <2>2, <2>3, CallKept DEF TypeInv, TypeOK, Room
<1>12. CASE LookupReturns
  <2>1. /\ lookup' = NoLookup /\ known' = TRUE
        /\ node' = [node EXCEPT !.content = lookup.value, !.spare = <<>>]
        /\ UNCHANGED <<meta, blobs, call, latest, writes, disturbed, refused>>
    BY <1>12 DEF LookupReturns
  <2>2. lookup.value \in Contents
    BY <1>t DEF TypeOK
  <2>3. node' \in Node /\ Room(node)'
    BY <1>t, <2>1, <2>2, ContentSet DEF Room
  <2>4. node'.version = node.version
    BY <1>t, <2>1 DEF Node
  <2>5. lookup' \in [active : BOOLEAN, overlaps : BOOLEAN, value : Contents]
    BY <2>1, EmptyContents DEF NoLookup
  <2> QED
    BY <1>t, <2>1, <2>3, <2>4, <2>5, CallKept DEF TypeInv, TypeOK
<1>13. ASSUME NEW content \in Contents, RemoteSave(content) PROVE TypeInv'
  <2>1. disturbed' \in 0..MaxDisturbances
    BY <1>t, <1>13, DisturbTyped DEF RemoteSave
  <2>2. meta' \in [version : 0..MaxVersion, contentKey : Keys]
    BY <1>t, <1>13 DEF RemoteSave, TypeOK, Keys
  <2>3. /\ blobs' = blobs \cup {content} /\ writes' \in {"none", writes}
        /\ UNCHANGED <<node, call, known, lookup, latest, refused>>
    BY <1>13 DEF RemoteSave
  <2> QED
    BY <1>t, <2>1, <2>2, <2>3, CallKept DEF TypeInv, TypeOK, Room
<1>14. CASE InvalidateCache
  <2>1. /\ node' = [node EXCEPT !.shouldReloadMetadata = TRUE]
        /\ UNCHANGED <<meta, blobs, call, known, lookup, latest, writes, disturbed, refused>>
    BY <1>14 DEF InvalidateCache
  <2>2. /\ node' \in Node /\ node'.content = node.content /\ node'.spare = node.spare
        /\ node'.version = node.version
    BY <1>t, <2>1 DEF Node
  <2>3. Room(node)'
    BY <1>t, <2>2 DEF Room
  <2> QED
    BY <1>t, <2>1, <2>2, <2>3, CallKept DEF TypeInv, TypeOK
<1>15. CASE Crash
  <2>1. /\ node' = Loaded(meta.version, meta.contentKey)
        /\ call' = NoCall /\ known' = FALSE /\ lookup' = NoLookup
        /\ latest' = Fetch(meta.contentKey)
        /\ UNCHANGED <<meta, blobs, writes, disturbed, refused>>
    BY <1>15 DEF Crash
  <2>2. node' \in Node /\ Room(node)'
    BY <1>t, <2>1, LoadedTyped DEF TypeOK, Room
  <2>3. latest' \in Contents
    BY <1>t, <2>1, FetchTyped DEF TypeOK
  <2>4. lookup' \in [active : BOOLEAN, overlaps : BOOLEAN, value : Contents]
    BY <2>1, EmptyContents DEF NoLookup
  <2> QED
    BY <1>t, <2>1, <2>2, <2>3, <2>4, CallEnded DEF TypeInv, TypeOK
<1>16. CASE UNCHANGED vars
  BY <1>t, <1>16 DEF vars, TypeInv, TypeOK, Fits, Room
<1> QED
  BY <1>1, <1>2, <1>3, <1>4, <1>5, <1>6, <1>7, <1>8, <1>9, <1>10, <1>11, <1>12,
     <1>13, <1>14, <1>15, <1>16 DEF Next
LEMMA InitTyped == ASSUME Init PROVE TypeInv
<1> USE FileAssumption
<1>1. node \in Node /\ Room(node)
  BY LoadedTyped DEF Init, Keys
<1>2. call \in Call /\ Fits
  BY <1>1, NoCallTyped DEF Init, Fits
<1>3. TypeOK
  BY <1>1, <1>2, EmptyContents DEF Init, TypeOK, Keys, NoLookup
<1> QED
  BY <1>2, <1>3 DEF TypeInv

\* The file, its cache and the calls under way keep their types: no resize
\* leaves the array, no save takes a version past the last one.
THEOREM TypeCorrectness == Spec => []TypeOK
<1>1. Init => TypeInv
  BY InitTyped
<1>2. TypeInv /\ [Next]_vars => TypeInv'
  BY TypeStep
<1>3. TypeInv => TypeOK
  BY DEF TypeInv
<1> QED
  BY <1>1, <1>2, <1>3, PTL DEF Spec

--------------------------------------------------------------------------------
(* Blobs before the metadata that names them. *)

LEMMA StoredStep ==
    ASSUME TypeInv, KeysStored, [Next]_vars
    PROVE  KeysStored'
<1>t. /\ node \in Node /\ call \in Call
      /\ Stored(meta.contentKey) /\ Stored(node.contentKey) /\ Stored(call.prevKey)
  BY DEF TypeInv, TypeOK, KeysStored
<1>n. NoCall.prevKey = NoKey /\ NoCall \in Call
  BY NoCallTyped DEF NoCall
<1>f. ASSUME NEW n \in Node, Fail(n), n.contentKey = node.contentKey \/ call.kind = "flush"
      PROVE  Stored(node'.contentKey) /\ call'.prevKey = NoKey
  <2>1. CASE call.kind = "flush"
    <3>1. RolledBack(n).contentKey = call.prevKey
      BY <2>1 DEF RolledBack, Node
    <3> QED
      BY <1>t, <1>n, <1>f, <3>1 DEF Fail
  <2>2. CASE call.kind # "flush"
    <3>1. RolledBack(n).contentKey = n.contentKey
      BY <2>2 DEF RolledBack, Node
    <3> QED
      BY <1>t, <1>n, <1>f, <2>2, <3>1 DEF Fail
  <2> QED
    BY <2>1, <2>2
<1>1. ASSUME NEW off \in 0..MaxLen, NEW byte \in Bytes, Write(off, byte)
      PROVE  KeysStored'
  <2> DEFINE n == IF off + 1 > Len(node.content) THEN Resize(node, off + 1) ELSE node
  <2>1. /\ node' = [n EXCEPT !.content[off + 1] = byte, !.shouldSaveContent = TRUE]
        /\ off + 1 \in 0..MaxLen
        /\ UNCHANGED <<meta, blobs, call, refused>>
    BY <1>1, FileAssumption DEF Write
  <2>2. n \in Node /\ n.contentKey = node.contentKey
    BY <1>t, <2>1, ResizedNode
  <2> HIDE DEF n
  <2>3. node'.contentKey = node.contentKey
    BY <2>1, <2>2 DEF Node
  <2> QED
    BY <1>t, <2>1, <2>3 DEF KeysStored, Stored
<1>2. CASE Flush
  <2>1. /\ UNCHANGED <<meta, blobs, node, refused>>
        /\ \/ call' = [NoCall EXCEPT !.kind = "flush", !.step = FirstStep(node),
                            !.prevKey = node.contentKey,
                            !.hadContent = node.shouldSaveContent]
           \/ call' = call
    BY <1>2 DEF Flush
  <2>2. call'.prevKey \in {node.contentKey, call.prevKey}
    BY <1>n, <2>1 DEF Call
  <2> QED
    BY <1>t, <2>1, <2>2 DEF KeysStored, Stored
<1>3. ASSUME NEW size \in Sizes, SetattrSize(size) PROVE KeysStored'
  <2> DEFINE r == Resize(node, size)
  <2>1. /\ node' = [r EXCEPT !.shouldSaveContent = TRUE, !.shouldSaveMetadata = TRUE]
        /\ call' = [NoCall EXCEPT !.kind = "setattr", !.step = "content",
                    !.resized = TRUE, !.prevContent = node.content,
                    !.prevSpare = node.spare]
        /\ UNCHANGED <<meta, blobs, refused>> /\ size \in 0..MaxLen
    BY <1>3, FileAssumption DEF SetattrSize
  <2>2. r \in Node /\ r.contentKey = node.contentKey
    BY <2>1, ResizedNode
  <2> HIDE DEF r
  <2>3. node'.contentKey = node.contentKey /\ call'.prevKey = NoKey
    BY <1>n, <2>1, <2>2 DEF Node, Call
  <2> QED
    BY <1>t, <2>1, <2>3 DEF KeysStored, Stored
<1>4. CASE Setattr
  <2>1. /\ node'.contentKey = node.contentKey /\ call'.prevKey = NoKey
        /\ UNCHANGED <<meta, blobs, refused>>
    BY <1>t, <1>n, <1>4 DEF Setattr, Node, Call
  <2> QED
    BY <1>t, <2>1 DEF KeysStored, Stored
<1>5. CASE PutBlob
  <2>1. /\ blobs' = blobs \cup {node.content} /\ UNCHANGED <<meta, refused>>
        /\ node'.contentKey = node.content
        /\ call'.prevKey \in {call.prevKey, NoKey}
    BY <1>t, <1>n, <1>5 DEF PutBlob, Node, Call
  <2> QED
    BY <1>t, <2>1 DEF KeysStored, Stored
<1>6. CASE PutBlobFails
  <2> DEFINE n == [node EXCEPT !.contentKey = node.content]
  <2>1. n \in Node
    BY <1>t DEF Node, Keys
  <2>2. /\ Fail(n) /\ call.kind \in {"flush", "setattr"} /\ UNCHANGED <<meta, blobs>>
        /\ n.contentKey = node.content
        /\ refused' = IF call.kind = "setattr"
                      THEN refused \cup {node.content} ELSE refused
    BY <1>t, <1>6 DEF PutBlobFails, BlobMayFail, Node
  <2> HIDE DEF n
  <2>3. Stored(node.contentKey)' /\ call'.prevKey = NoKey
    <3>1. CASE call.kind = "flush"
      BY <1>f, <2>1, <2>2, <3>1 DEF Stored
    <3>2. CASE call.kind = "setattr"
      <4>1. RolledBack(n).contentKey = n.contentKey
        BY <2>1, <3>2 DEF RolledBack, Node
      <4> QED
        BY <1>n, <2>2, <3>2, <4>1 DEF Fail, Stored
    <3> QED
      BY <2>2, <3>1, <3>2
  <2> QED
    BY <1>t, <2>2, <2>3 DEF KeysStored, Stored
<1>7. CASE PutMetadata
  <2>1. /\ UNCHANGED <<blobs, refused>> /\ meta'.contentKey = node.contentKey
        /\ node'.contentKey = node.contentKey /\ call'.prevKey = NoKey
    BY <1>t, <1>n, <1>7 DEF PutMetadata, NextMeta, Node
  <2> QED
    BY <1>t, <2>1 DEF KeysStored, Stored
<1>8. CASE PutMetadataStale
  <2> DEFINE n == [node EXCEPT !.shouldReloadMetadata = TRUE]
  <2>1. n \in Node /\ n.contentKey = node.contentKey
    BY <1>t DEF Node
  <2>2. Fail(n) /\ UNCHANGED <<meta, blobs, refused>>
    BY <1>8 DEF PutMetadataStale
  <2> HIDE DEF n
  <2> QED
    BY <1>t, <1>f, <2>1, <2>2 DEF KeysStored, Stored
<1>9. CASE PutMetadataFails
  <2>1. /\ Fail(node) /\ UNCHANGED <<blobs, refused>>
        /\ meta'.contentKey \in {meta.contentKey, node.contentKey}
    BY <1>9 DEF PutMetadataFails, NextMeta
  <2> QED
    BY <1>t, <1>f, <2>1 DEF KeysStored, Stored
<1>10. CASE Refresh
  <2> DEFINE n == IF node.shouldReloadMetadata THEN ReloadedNode ELSE node
  <2>1. n \in Node /\ n.contentKey \in {node.contentKey, meta.contentKey}
    BY <1>t, ReloadedTyped DEF ReloadedNode, Loaded, Node
  <2>2. /\ node' = WithContent(n) \/ node' = n
        /\ UNCHANGED <<meta, blobs, call, refused>>
    BY <1>10 DEF Refresh
  <2> HIDE DEF n
  <2>3. node'.contentKey = n.contentKey
    BY <2>1, <2>2 DEF WithContent, Node
  <2> QED
    BY <1>t, <2>1, <2>2, <2>3 DEF KeysStored, Stored
<1>11. CASE Lookup
  BY <1>t, <1>11 DEF Lookup, KeysStored, Stored
<1>12. CASE LookupReturns
  <2>1. node'.contentKey = node.contentKey /\ UNCHANGED <<meta, blobs, call, refused>>
    BY <1>t, <1>12 DEF LookupReturns, Node
  <2> QED
    BY <1>t, <2>1 DEF KeysStored, Stored
<1>13. ASSUME NEW content \in Contents, RemoteSave(content) PROVE KeysStored'
  <2>1. /\ blobs' = blobs \cup {content} /\ meta'.contentKey = content
        /\ UNCHANGED <<node, call, refused>>
    BY <1>13 DEF RemoteSave
  <2> QED
    BY <1>t, <2>1 DEF KeysStored, Stored
<1>14. CASE InvalidateCache
  <2>1. node'.contentKey = node.contentKey /\ UNCHANGED <<meta, blobs, call, refused>>
    BY <1>t, <1>14 DEF InvalidateCache, Node
  <2> QED
    BY <1>t, <2>1 DEF KeysStored, Stored
<1>15. CASE Crash
  <2>1. /\ node'.contentKey = meta.contentKey /\ call'.prevKey = NoKey
        /\ UNCHANGED <<meta, blobs, refused>>
    BY <1>n, <1>15 DEF Crash, Loaded
  <2> QED
    BY <1>t, <2>1 DEF KeysStored, Stored
<1>16. CASE UNCHANGED vars
  BY <1>t, <1>16 DEF vars, KeysStored, Stored
<1> QED
  BY <1>1, <1>2, <1>3, <1>4, <1>5, <1>6, <1>7, <1>8, <1>9, <1>10, <1>11, <1>12,
     <1>13, <1>14, <1>15, <1>16 DEF Next

\* sync() publishes no key before Blobs.Put has accepted its content, whatever puts
\* or loads fail, whoever else saves the file and wherever the process dies; the one
\* exception is content of which a Setattr reported that it could not be saved.
THEOREM BlobsComeFirst == Spec => []PublishedWasAccepted
<1>1. Init => TypeInv /\ KeysStored
  BY InitTyped DEF Init, KeysStored, Stored, Loaded, NoCall
<1>2. TypeInv /\ KeysStored /\ [Next]_vars => (TypeInv /\ KeysStored)'
  BY TypeStep, StoredStep
<1>3. KeysStored => PublishedWasAccepted
  BY DEF KeysStored, Stored, PublishedWasAccepted
<1> QED
  BY <1>1, <1>2, <1>3, PTL DEF Spec
--------------------------------------------------------------------------------
(* What users wrote is what is saved and read, while nothing gets in the way. *)

\* A step that does not count as a disturbance.
LEMMA NotDisturbed ==
    ASSUME TypeOK, disturbed' = 0, NEW what, Disturb(what) PROVE FALSE
BY DisturbTyped

\* Contents are equal when their bytes are.
LEMMA SameContents ==
    ASSUME NEW c \in Contents, NEW d \in Contents, Len(c) = Len(d),
           \A i \in 1..Len(c) : c[i] = d[i]
    PROVE  c = d
<1>1. c \in [1..Len(c) -> Bytes] /\ d \in [1..Len(c) -> Bytes]
  BY IsContents
<1> QED
  BY <1>1

\* Write puts its byte into the slice as it does into the file.
LEMMA WriteContent ==
    ASSUME TypeInv, NEW off \in 0..MaxLen, NEW byte \in Bytes, Write(off, byte),
           off <= Len(node.content), node.content = latest
    PROVE  node'.content = latest'
<1> USE FileAssumption
<1> DEFINE n == IF off + 1 > Len(node.content) THEN Resize(node, off + 1) ELSE node
           l == IF off + 1 > Len(latest) THEN Resized(latest, off + 1) ELSE latest
<1>1. /\ node' = [n EXCEPT !.content[off + 1] = byte, !.shouldSaveContent = TRUE]
      /\ latest' = [l EXCEPT ![off + 1] = byte]
      /\ off + 1 \in 0..MaxLen /\ off + 1 \in Nat /\ off + 1 > 0 /\ off \in Nat
  BY DEF Write
<1>2. /\ node \in Node /\ latest \in Contents /\ node.content \in Contents
      /\ Len(latest) \in Nat
  BY IsContents DEF TypeInv, TypeOK, Fits, Node
<1>3. n \in Node
  BY <1>1, <1>2, ResizedNode
<1>4. /\ n.content \in Contents /\ l \in Contents /\ Len(n.content) = Len(l)
      /\ off + 1 \in 1..Len(n.content)
      /\ \A i \in 1..Len(n.content) : i # off + 1 => n.content[i] = l[i]
  <2>1. CASE off + 1 > Len(latest)
    <3>1. n = Resize(node, off + 1) /\ l = Resized(latest, off + 1) /\ Len(latest) = off
      BY <1>1, <1>2, <2>1
    <3>2. /\ Len(n.content) = off + 1
          /\ \A i \in 1..(off + 1) : i <= off => n.content[i] = latest[i]
      BY <1>1, <3>1, ResizedNode
    <3>3. /\ l \in Contents /\ Len(l) = off + 1
          /\ \A i \in 1..(off + 1) : i <= off => l[i] = latest[i]
      BY <1>1, <1>2, <3>1, ResizedTyped
    <3>4. \A i \in 1..(off + 1) : i # off + 1 => i <= off
      BY <1>1
    <3>5. n.content \in Contents
      BY <1>3 DEF Node
    <3> HIDE DEF n, l
    <3> QED
      BY <1>1, <3>2, <3>3, <3>4, <3>5
  <2>2. CASE ~(off + 1 > Len(latest))
    <3>1. n = node /\ l = latest /\ off + 1 \in 1..Len(latest)
      BY <1>1, <1>2, <2>2
    <3> HIDE DEF n, l
    <3> QED
      BY <1>2, <3>1
  <2> QED
    BY <2>1, <2>2
<1> HIDE DEF n, l
<1>5. node'.content = [n.content EXCEPT ![off + 1] = byte]
  BY <1>1, <1>3 DEF Node
<1>6. [n.content EXCEPT ![off + 1] = byte] = [l EXCEPT ![off + 1] = byte]
  <2>1. /\ n.content \in [1..Len(l) -> Bytes] /\ l \in [1..Len(l) -> Bytes]
        /\ off + 1 \in 1..Len(l)
        /\ \A i \in 1..Len(l) : i # off + 1 => n.content[i] = l[i]
    BY <1>4, IsContents
  <2> QED
    BY <2>1
<1> QED
  BY <1>1, <1>5, <1>6

\* Setattr cuts the slice as it does the file.
LEMMA ResizeContent ==
    ASSUME TypeInv, NEW size \in 0..MaxLen, size <= Len(node.content),
           node.content = latest
    PROVE  Resize(node, size).content = Resized(latest, size)
<1> DEFINE r == Resize(node, size)
           l == Resized(latest, size)
<1>1. latest \in Contents /\ size \in Nat /\ Len(latest) \in Nat
  BY FileAssumption, IsContents DEF TypeInv, TypeOK
<1>2. /\ r \in Node /\ Len(r.content) = size
      /\ \A i \in 1..size : i <= Len(latest) => r.content[i] = latest[i]
  BY ResizedNode
<1>3. /\ l \in Contents /\ Len(l) = size
      /\ \A i \in 1..size : i <= Len(latest) => l[i] = latest[i]
  BY <1>1, ResizedTyped
<1>4. r.content \in Contents
  BY <1>2 DEF Node
<1> HIDE DEF r, l
<1>5. \A i \in 1..size : i <= Len(latest)
  BY <1>1
<1>6. \A i \in 1..size : r.content[i] = l[i]
  BY <1>2, <1>3, <1>5
<1>7. r.content = l
  BY <1>2, <1>3, <1>4, <1>6, SameContents
<1> QED
  BY <1>7 DEF r, l
LEMMA QuietStep ==
    ASSUME TypeInv, Quiet, [Next]_vars
    PROVE  Quiet'
<1> USE FileAssumption
<1> SUFFICES ASSUME disturbed' = 0 PROVE UpToDate' /\ Held'
  BY DEF Quiet
<1>t. /\ TypeOK /\ node \in Node /\ call \in Call /\ known \in BOOLEAN
      /\ node.version \in Nat /\ meta.version \in Nat
  BY DEF TypeInv, TypeOK, Node
<1>n. NoCall.step = "none" /\ NoCall \in Call
  BY NoCallTyped
<1>d. \A what : ~Disturb(what)
  BY <1>t, NotDisturbed
<1>q. disturbed = 0 => UpToDate /\ Held
  BY DEF Quiet
<1>f. (disturbed = 0 /\ Free) => known /\ call = NoCall /\ ~lookup.active
                                 /\ node.content = latest
  BY <1>q DEF Free, Held
<1>1. ASSUME NEW off \in 0..MaxLen, NEW byte \in Bytes, Write(off, byte)
      PROVE  UpToDate' /\ Held'
  <2> DEFINE n == IF off + 1 > Len(node.content) THEN Resize(node, off + 1) ELSE node
  <2>1. /\ node' = [n EXCEPT !.content[off + 1] = byte, !.shouldSaveContent = TRUE]
        /\ off + 1 \in 0..MaxLen /\ Free /\ disturbed = 0 /\ off <= Len(node.content)
        /\ UNCHANGED <<meta, blobs, call, known, lookup>> /\ writes' = "unsaved"
    BY <1>1, <1>d DEF Write, AllowedEnd
  <2>2. /\ n \in Node /\ n.contentKey = node.contentKey /\ n.version = node.version
        /\ n.shouldSaveMetadata = node.shouldSaveMetadata
        /\ n.shouldReloadMetadata = node.shouldReloadMetadata
    BY <1>t, <2>1, ResizedNode
  <2> HIDE DEF n
  <2>3. /\ node'.contentKey = node.contentKey /\ node'.version = node.version
        /\ node'.shouldSaveMetadata = node.shouldSaveMetadata
        /\ node'.shouldReloadMetadata = node.shouldReloadMetadata
        /\ node'.shouldSaveContent
    BY <2>1, <2>2 DEF Node
  <2>4. node'.content = latest'
    BY <1>1, <1>f, <2>1, WriteContent
  <2>5. UpToDate'
    BY <1>q, <1>f, <1>n, <2>1, <2>3 DEF UpToDate
  <2>6. Held'
    BY <1>f, <2>1, <2>4 DEF Held
  <2> QED
    BY <2>5, <2>6
<1>2. CASE Flush
  <2>1. /\ Free /\ UNCHANGED <<meta, blobs, node, known, lookup, latest, disturbed>>
        /\ \/ /\ call' = [NoCall EXCEPT !.kind = "flush", !.step = FirstStep(node),
                            !.prevKey = node.contentKey,
                            !.hadContent = node.shouldSaveContent]
              /\ UNCHANGED writes
           \/ /\ call' = call /\ ~node.shouldSaveContent /\ ~node.shouldSaveMetadata
              /\ writes' \in {writes, "saved"}
    BY <1>2 DEF Flush
  <2>2. call'.step = "metadata" => call'.step = call.step \/ ~node.shouldSaveContent
    BY <1>n, <2>1 DEF FirstStep, Call
  <2>3. disturbed = 0 /\ \A key : Fetch(key)' = Fetch(key')
    BY <2>1 DEF Fetch
  <2>4. UpToDate'
    BY <1>q, <2>1, <2>2, <2>3 DEF UpToDate, Fetch
  <2>5. Held'
    BY <1>f, <2>1, <2>3 DEF Held
  <2> QED
    BY <2>4, <2>5
<1>3. ASSUME NEW size \in Sizes, SetattrSize(size) PROVE UpToDate' /\ Held'
  <2> DEFINE r == Resize(node, size)
  <2>1. /\ node' = [r EXCEPT !.shouldSaveContent = TRUE, !.shouldSaveMetadata = TRUE]
        /\ latest' = Resized(latest, size)
        /\ call' = [NoCall EXCEPT !.kind = "setattr", !.step = "content",
                    !.resized = TRUE, !.prevContent = node.content,
                    !.prevSpare = node.spare]
        /\ Free /\ disturbed = 0 /\ size <= Len(node.content) /\ size \in 0..MaxLen
        /\ UNCHANGED <<meta, blobs, known, lookup>> /\ writes' = "unsaved"
    BY <1>3, <1>d DEF SetattrSize, AllowedEnd
  <2>2. /\ r \in Node /\ r.version = node.version
        /\ r.shouldReloadMetadata = node.shouldReloadMetadata
    BY <2>1, ResizedNode
  <2>3. r.content = latest'
    BY <1>f, <2>1, ResizeContent
  <2> HIDE DEF r
  <2>4. /\ node'.content = r.content /\ node'.version = node.version
        /\ node'.shouldReloadMetadata = node.shouldReloadMetadata
        /\ node'.shouldSaveContent /\ node'.shouldSaveMetadata
    BY <2>1, <2>2 DEF Node
  <2>5. call'.step = "content"
    BY <1>n, <2>1 DEF Call
  <2>6. UpToDate'
    BY <1>q, <2>1, <2>4, <2>5 DEF UpToDate
  <2>7. Held'
    BY <1>f, <2>1, <2>3, <2>4 DEF Held
  <2> QED
    BY <2>6, <2>7
<1>4. CASE Setattr
  <2>1. /\ node' = [node EXCEPT !.shouldSaveMetadata = TRUE]
        /\ call' = [NoCall EXCEPT !.kind = "setattr", !.step = FirstStep(node)]
        /\ Free /\ disturbed = 0
        /\ UNCHANGED <<meta, blobs, known, lookup, latest, writes>>
    BY <1>4 DEF Setattr
  <2>2. /\ node'.contentKey = node.contentKey /\ node'.version = node.version
        /\ node'.content = node.content
        /\ node'.shouldSaveContent = node.shouldSaveContent
        /\ node'.shouldReloadMetadata = node.shouldReloadMetadata
        /\ node'.shouldSaveMetadata
    BY <1>t, <2>1 DEF Node
  <2>3. call'.step = "metadata" => ~node.shouldSaveContent
    BY <1>n, <2>1 DEF FirstStep, Call
  <2>4. UpToDate'
    BY <1>q, <2>1, <2>2, <2>3 DEF UpToDate, Fetch
  <2>5. Held'
    BY <1>f, <2>1, <2>2 DEF Held
  <2> QED
    BY <2>4, <2>5
<1>5. CASE PutBlob
  <2> DEFINE save == node.shouldSaveMetadata \/ node.contentKey # node.content
  <2>1. /\ call.step = "content" /\ blobs' = blobs \cup {node.content}
        /\ node' = [node EXCEPT !.contentKey = node.content,
                        !.shouldSaveContent = FALSE, !.shouldSaveMetadata = save]
        /\ writes' = IF save THEN writes ELSE "saved"
        /\ disturbed = 0
        /\ UNCHANGED <<meta, known, lookup, latest>>
    BY <1>5 DEF PutBlob
  <2>2. /\ node'.contentKey = node.content /\ node'.version = node.version
        /\ node'.content = node.content /\ ~node'.shouldSaveContent
        /\ node'.shouldReloadMetadata = node.shouldReloadMetadata
        /\ node'.shouldSaveMetadata = save
    BY <1>t, <2>1 DEF Node
  <2>3. known /\ node.content = latest /\ ~lookup.active
    BY <1>q, <1>n, <2>1 DEF Held
  <2>4. ASSUME NEW key
        PROVE  (IF key \in blobs' THEN key ELSE <<>>)
                 = (IF key = latest THEN latest ELSE Fetch(key))
    BY <2>1, <2>3 DEF Fetch
  <2>5. ~save => meta.contentKey = node.content
    BY <1>q, <2>1 DEF UpToDate
  <2>6. Fetch(node.contentKey)' = latest'
    BY <2>1, <2>2, <2>3, <2>4 DEF Fetch
  <2>7. writes' = "saved" => Fetch(meta.contentKey)' = latest'
    <3>1. CASE save
      <4>1. writes' = "saved" => Fetch(meta.contentKey) = latest
        BY <1>q, <2>1, <3>1 DEF UpToDate
      <4> QED
        BY <2>1, <2>4, <4>1 DEF Fetch
    <3>2. CASE ~save
      BY <2>1, <2>3, <2>4, <2>5, <3>2 DEF Fetch
    <3> QED
      BY <3>1, <3>2
  <2>8. UpToDate'
    BY <1>q, <2>1, <2>2, <2>5, <2>6, <2>7 DEF UpToDate
  <2>9. Held'
    BY <2>1, <2>2, <2>3 DEF Held
  <2> QED
    BY <2>8, <2>9
<1>6. CASE PutBlobFails
  BY <1>6, <1>d DEF PutBlobFails, BlobMayFail
<1>7. CASE PutMetadata
  <2>1. /\ call.step = "metadata" /\ meta.version = node.version
        /\ meta'.version = node.version + 1 /\ meta'.contentKey = node.contentKey
        /\ node' = [node EXCEPT !.version = @ + 1, !.shouldSaveMetadata = FALSE]
        /\ call' = NoCall /\ disturbed = 0
        /\ UNCHANGED <<blobs, known, lookup, latest>>
    BY <1>7 DEF PutMetadata, NextMeta
  <2>2. /\ node'.contentKey = node.contentKey /\ node'.version = node.version + 1
        /\ node'.content = node.content
        /\ node'.shouldSaveContent = node.shouldSaveContent
        /\ node'.shouldReloadMetadata = node.shouldReloadMetadata
    BY <1>t, <2>1 DEF Node
  <2>3. /\ known /\ node.content = latest /\ ~lookup.active
        /\ ~node.shouldSaveContent /\ Fetch(node.contentKey) = latest
        /\ ~node.shouldReloadMetadata
    BY <1>q, <1>n, <2>1 DEF Held, UpToDate
  <2>4. UpToDate'
    BY <1>n, <2>1, <2>2, <2>3 DEF UpToDate, Fetch
  <2>5. Held'
    BY <2>1, <2>2, <2>3 DEF Held
  <2> QED
    BY <2>4, <2>5
<1>8. CASE PutMetadataStale
  <2>1. disturbed = 0 /\ meta.version > node.version
    BY <1>8 DEF PutMetadataStale
  <2>2. meta.version = node.version
    BY <1>q, <2>1 DEF UpToDate
  <2> QED
    BY <1>t, <2>1, <2>2
<1>9. CASE PutMetadataFails
  BY <1>9, <1>d DEF PutMetadataFails
<1>10. CASE Refresh
  <2>0. disturbed = 0 /\ Free
    BY <1>10, <1>d DEF Refresh
  <2>1. /\ node' = WithContent(node) /\ ~node.shouldReloadMetadata
        /\ UNCHANGED <<meta, blobs, call, known, lookup, writes, latest>>
    BY <1>10, <1>d, <1>q, <2>0 DEF Refresh, UpToDate
  <2>2. /\ node'.contentKey = node.contentKey /\ node'.version = node.version
        /\ node'.shouldSaveContent = node.shouldSaveContent
        /\ node'.shouldSaveMetadata = node.shouldSaveMetadata
        /\ node'.shouldReloadMetadata = node.shouldReloadMetadata
        /\ node'.content \in {node.content, Fetch(node.contentKey)}
        /\ node'.content # node.content => ~node.shouldSaveContent
    BY <1>t, <2>1 DEF WithContent, NeedsContent, Node
  <2>3. node'.content = latest
    BY <1>f, <1>q, <2>0, <2>2 DEF UpToDate
  <2>4. UpToDate'
    BY <1>q, <2>0, <2>1, <2>2 DEF UpToDate, Fetch
  <2>5. Held'
    BY <1>f, <2>0, <2>1, <2>3 DEF Held
  <2> QED
    BY <2>4, <2>5
<1>11. CASE Lookup
  <2>0. disturbed = 0 /\ UNCHANGED <<meta, blobs, node, call, latest, writes>>
    BY <1>11, <1>d DEF Lookup
  <2>1. UpToDate'
    BY <1>q, <2>0 DEF UpToDate, Fetch
  <2>2. CASE NeedsContent(node)
    <3>1. /\ lookup' = [active |-> TRUE, overlaps |-> FALSE, value |-> node.contentKey]
          /\ call = NoCall /\ node.contentKey \in blobs /\ UNCHANGED known
      BY <1>11, <1>d, <2>2 DEF Lookup
    <3>2. NeedsContent(node)'
      BY <2>0, <2>2 DEF NeedsContent
    <3>3. Held'
      BY <1>q, <2>0, <3>1, <3>2 DEF Held
    <3> QED
      BY <2>1, <3>3
  <2>3. CASE ~NeedsContent(node)
    <3>1. known' = TRUE /\ UNCHANGED lookup /\ ~lookup.active
      BY <1>11, <2>3 DEF Lookup
    <3>2. node.content = latest
      <4>1. CASE known
        BY <1>q, <2>0, <4>1 DEF Held
      <4>2. CASE ~known
        <5>1. ~node.shouldSaveContent /\ node.content = <<>> /\ Fetch(node.contentKey) = latest
          BY <1>q, <2>0, <4>2 DEF Held, UpToDate
        <5>2. node.contentKey = NoKey /\ NoKey \notin blobs
          BY <1>t, <2>3, <5>1, KeyAssumption DEF NeedsContent, TypeOK
        <5> QED
          BY <5>1, <5>2 DEF Fetch
      <4> QED
        BY <4>1, <4>2
    <3>3. Held'
      BY <2>0, <3>1, <3>2 DEF Held
    <3> QED
      BY <2>1, <3>3
  <2> QED
    BY <2>2, <2>3
<1>12. CASE LookupReturns
  <2>1. /\ lookup' = NoLookup /\ known' = TRUE /\ lookup.active /\ disturbed = 0
        /\ node' = [node EXCEPT !.content = lookup.value, !.spare = <<>>]
        /\ UNCHANGED <<meta, blobs, call, latest, writes>>
    BY <1>12 DEF LookupReturns
  <2>2. /\ node'.contentKey = node.contentKey /\ node'.version = node.version
        /\ node'.shouldSaveContent = node.shouldSaveContent
        /\ node'.shouldSaveMetadata = node.shouldSaveMetadata
        /\ node'.shouldReloadMetadata = node.shouldReloadMetadata
        /\ node'.content = lookup.value
    BY <1>t, <2>1 DEF Node
  <2>3. lookup.value = latest
    BY <1>q, <2>1 DEF Held, UpToDate, Fetch, NeedsContent
  <2>4. UpToDate'
    BY <1>q, <2>1, <2>2 DEF UpToDate, Fetch
  <2>5. Held'
    BY <2>1, <2>2, <2>3 DEF Held, NoLookup
  <2> QED
    BY <2>4, <2>5
<1>13. ASSUME NEW content \in Contents, RemoteSave(content) PROVE FALSE
  BY <1>13, <1>d DEF RemoteSave
<1>14. CASE InvalidateCache
  <2>1. disturbed = 0 /\ meta.version > node.version
    BY <1>14 DEF InvalidateCache
  <2>2. meta.version = node.version
    BY <1>q, <2>1 DEF UpToDate
  <2> QED
    BY <1>t, <2>1, <2>2
<1>15. CASE Crash
  <2>1. /\ node'.contentKey = meta.contentKey /\ node'.version = meta.version
        /\ ~node'.shouldSaveContent /\ ~node'.shouldSaveMetadata
        /\ ~node'.shouldReloadMetadata /\ node'.content = <<>>
        /\ call' = NoCall /\ known' = FALSE /\ ~lookup'.active
        /\ latest' = Fetch(meta.contentKey) /\ UNCHANGED <<meta, blobs>>
    BY <1>15 DEF Crash, Loaded, NoLookup
  <2> QED
    BY <1>n, <2>1 DEF UpToDate, Held, Fetch
<1>16. CASE UNCHANGED vars
  <2>1. UpToDate /\ Held
    BY <1>q, <1>16 DEF vars
  <2> QED
    BY <1>16, <2>1 DEF vars, UpToDate, Held, Fetch, NeedsContent
<1> QED
  BY <1>1, <1>2, <1>3, <1>4, <1>5, <1>6, <1>7, <1>8, <1>9, <1>10, <1>11, <1>12,
     <1>13, <1>14, <1>15, <1>16 DEF Next

LEMMA QuietInvariance == Spec => [](TypeInv /\ Quiet)
<1>1. Init => TypeInv /\ Quiet
  BY InitTyped, NoCallTyped
     DEF Init, Quiet, UpToDate, Held, Loaded, NoLookup, Fetch
<1>2. TypeInv /\ Quiet /\ [Next]_vars => (TypeInv /\ Quiet)'
  BY TypeStep, QuietStep
<1> QED
  BY <1>1, <1>2, PTL DEF Spec

\* Until a save fails, another mount or a Lookup gets in the way, what Flush or
\* Setattr reported as saved is what users wrote, for files, sizes and orders
\* of calls of any length, restarts included.
THEOREM SavedIsWritten == Spec => []FlushedIsPublished
<1>1. TypeInv /\ Quiet => FlushedIsPublished
  BY DEF Quiet, UpToDate, FlushedIsPublished
<1> QED
  BY <1>1, QuietInvariance, PTL

\* Until then a reader sees between calls what was last written on this mount.
THEOREM ReadIsWritten == Spec => []ViewIsLatest
<1>1. ASSUME TypeInv, Quiet PROVE ViewIsLatest
  <2> SUFFICES ASSUME disturbed = 0, Free PROVE WithContent(node).content = latest
    BY DEF ViewIsLatest
  <2>1. node.content = latest /\ (~node.shouldSaveContent => Fetch(node.contentKey) = latest)
    BY <1>1 DEF Quiet, UpToDate, Held, Free
  <2>2. node \in Node
    BY <1>1 DEF TypeInv, TypeOK
  <2> QED
    BY <2>1, <2>2 DEF WithContent, NeedsContent, Node
<1> QED
  BY <1>1, QuietInvariance, PTL
=============================================================================
