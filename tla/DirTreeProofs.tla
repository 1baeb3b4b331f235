---------------------------- MODULE DirTreeProofs ----------------------------
(***************************************************************************)
(* Proofs about DirTree for any mounts, directories, keys, names, bounds   *)
(* and environment.                                                        *)
(*                                                                         *)
(* The inductive invariant says of every mount what its two trees list     *)
(* (OK), with exceptions for the call it is in: an entry that is not       *)
(* stored yet (Unsaved) and entries that go-fuse has not been told of      *)
(* (Excepted).  CallOK says what the call has done so far, and so what a   *)
(* rollback finds.                                                         *)
(***************************************************************************)
EXTENDS DirTree, Integers, FiniteSetTheorems, WellFoundedInduction, TLAPS

--------------------------------------------------------------------------------
(* Induction over numbers and finite sets, and what a fold returns. *)

\* A set of numbers that is not empty has a least element.
LEMMA LeastNumber == ASSUME NEW T \in SUBSET Nat, T # {} PROVE \E x \in T : \A y \in T : x <= y
<1> DEFINE R == OpToRel(<, Nat)
<1>1. IsWellFoundedOn(R, Nat)
  BY NatLessThanWellFounded
<1>2. \A x, y \in Nat : x < y => <<x, y>> \in R
  BY DEF OpToRel
<1> HIDE DEF R
<1>3. PICK x \in T : \A y \in T : ~(<<y, x>> \in R)
  BY <1>1, WFMin
<1>4. ASSUME NEW y \in T PROVE ~(y < x)
  BY <1>2, <1>3, Zenon
<1> QED BY <1>4

\* Induction over a set of numbers, in place of a predicate.
LEMMA Induction == ASSUME NEW T, 0 \in T, \A n \in Nat : n \in T => n + 1 \in T PROVE Nat \subseteq T
<1> SUFFICES ASSUME Nat \ T # {} PROVE FALSE
  OBVIOUS
<1> DEFINE U == Nat \ T
<1>1. PICK x \in U : \A y \in U : x <= y
  <2>1. U \in SUBSET Nat /\ U # {}
    OBVIOUS
  <2> HIDE DEF U
  <2> QED
    BY <2>1, LeastNumber
<1>2. x # 0 /\ x - 1 \in Nat
  BY <1>1
<1>3. x - 1 \in T
  BY <1>1, <1>2
<1> QED BY <1>2, <1>3

\* The element of a set that FoldSet takes first, and what is left.
One(s)  == CHOOSE x \in s : TRUE
Rest(s) == s \ {One(s)}

\* What is left of a finite set without one of its elements.
LEMMA RestSmaller ==
    ASSUME NEW S, IsFiniteSet(S), NEW s \in SUBSET S, s # {}
    PROVE  /\ One(s) \in S /\ Rest(s) \in SUBSET S
           /\ Cardinality(s) \in Nat /\ Cardinality(Rest(s)) = Cardinality(s) - 1
<1>1. One(s) \in s
  BY DEF One
<1>2. IsFiniteSet(s)
  BY FS_Subset
<1>3. Cardinality(s) \in Nat
  BY <1>2, FS_CardinalityType
<1>4. Cardinality(s \ {One(s)}) = Cardinality(s) - 1
  BY <1>1, <1>2, FS_RemoveElement
<1> QED
  BY <1>1, <1>3, <1>4 DEF Rest

\* Induction over the subsets that a fold goes through.
LEMMA SubsetInduction ==
    ASSUME NEW S, IsFiniteSet(S), NEW Q, {} \in Q,
           \A s \in SUBSET S : s # {} /\ Rest(s) \in Q => s \in Q
    PROVE  S \in Q
<1> DEFINE T == {n \in Nat : \A s \in SUBSET S : Cardinality(s) = n => s \in Q}
<1>1. 0 \in T
  <2>1. ASSUME NEW s \in SUBSET S, Cardinality(s) = 0 PROVE s = {}
    <3>1. IsFiniteSet(s)
      BY FS_Subset
    <3> QED
      BY <2>1, <3>1, FS_EmptySet
  <2> QED
    BY <2>1
<1>2. ASSUME NEW n \in Nat, n \in T PROVE n + 1 \in T
  <2>1. ASSUME NEW s \in SUBSET S, Cardinality(s) = n + 1 PROVE s \in Q
    <3>1. s # {}
      BY <2>1, FS_EmptySet
    <3>2. Rest(s) \in SUBSET S /\ Cardinality(Rest(s)) = n
      BY <2>1, <3>1, RestSmaller
    <3>3. Rest(s) \in Q
      BY <1>2, <3>2
    <3> QED
      BY <3>1, <3>3
  <2> QED
    BY <2>1
<1>3. Nat \subseteq T
  <2> HIDE DEF T
  <2> QED
    BY <1>1, <1>2, Induction
<1>4. Cardinality(S) \in Nat
  BY FS_CardinalityType
<1> QED
  BY <1>3, <1>4

\* F[x] makes the fold's step for x, on the states of T.
FoldsBy(S, base, F, g) ==
    \A s \in SUBSET S : g[s] = IF s = {} THEN base ELSE F[One(s)][g[Rest(s)]]

\* The function that a fold of FiniteSetsExt chooses exists.
LEMMA FoldExists ==
    ASSUME NEW S, IsFiniteSet(S), NEW T, NEW base \in T, NEW F \in [S -> [T -> T]]
    PROVE  \E g \in [SUBSET S -> T] : FoldsBy(S, base, F, g)
<1> DEFINE Step(g, s) == IF s = {} THEN base ELSE F[One(s)][g[Rest(s)]]
           U == {n \in Nat : \E g \in [SUBSET S -> T] :
                                \A s \in SUBSET S : Cardinality(s) <= n => g[s] = Step(g, s)}
<1>0. ASSUME NEW g \in [SUBSET S -> T], NEW s \in SUBSET S PROVE Step(g, s) \in T
  <2>1. CASE s = {}
    BY <2>1
  <2>2. CASE s # {}
    <3>1. One(s) \in S /\ g[Rest(s)] \in T
      BY <2>2, RestSmaller
    <3> QED
      BY <2>2, <3>1
  <2> QED
    BY <2>1, <2>2
<1>1. 0 \in U
  <2> DEFINE g == [s \in SUBSET S |-> base]
  <2>1. ASSUME NEW s \in SUBSET S, Cardinality(s) <= 0 PROVE g[s] = Step(g, s)
    <3>1. IsFiniteSet(s)
      BY FS_Subset
    <3>2. Cardinality(s) \in Nat
      BY <3>1, FS_CardinalityType
    <3>3. s = {}
      BY <2>1, <3>1, <3>2, FS_EmptySet
    <3> QED
      BY <3>3
  <2>2. g \in [SUBSET S -> T]
    OBVIOUS
  <2> HIDE DEF g, Step
  <2> QED
    BY <2>1, <2>2
<1>2. ASSUME NEW n \in Nat, n \in U PROVE n + 1 \in U
  <2>1. PICK g \in [SUBSET S -> T] : \A s \in SUBSET S : Cardinality(s) <= n => g[s] = Step(g, s)
    BY <1>2
  <2> DEFINE h == [s \in SUBSET S |-> Step(g, s)]
  <2>2. h \in [SUBSET S -> T]
    <3> HIDE DEF Step
    <3> QED
      BY <1>0
  <2>3. ASSUME NEW s \in SUBSET S, Cardinality(s) <= n + 1 PROVE h[s] = Step(h, s)
    <3>1. CASE s = {}
      BY <3>1
    <3>2. CASE s # {}
      <4>1. Rest(s) \in SUBSET S /\ Cardinality(Rest(s)) <= n
        BY <2>3, <3>2, RestSmaller
      <4>2. g[Rest(s)] = h[Rest(s)]
        <5> HIDE DEF Step
        <5> QED
          BY <2>1, <4>1
      <4> HIDE DEF h
      <4>3. h[s] = Step(g, s)
        <5> HIDE DEF Step
        <5> QED
          BY DEF h
      <4> QED
        BY <3>2, <4>2, <4>3
    <3> QED
      BY <3>1, <3>2
  <2> HIDE DEF h, Step
  <2> QED
    BY <2>2, <2>3
<1>3. Nat \subseteq U
  <2> HIDE DEF U
  <2> QED
    BY <1>1, <1>2, Induction
<1>4. Cardinality(S) \in Nat
  BY FS_CardinalityType
<1>5. PICK g \in [SUBSET S -> T] : \A s \in SUBSET S : Cardinality(s) <= Cardinality(S) => g[s] = Step(g, s)
  <2> HIDE DEF Step
  <2> QED
    BY <1>3, <1>4
<1>6. ASSUME NEW s \in SUBSET S PROVE g[s] = Step(g, s)
  <2>1. Cardinality(s) <= Cardinality(S)
    BY FS_Subset
  <2> HIDE DEF Step
  <2> QED
    BY <1>5, <2>1
<1> QED
  BY <1>6 DEF FoldsBy

--------------------------------------------------------------------------------
(* The invariant of one mount, and the operators that load nodes. *)

\* Facts about the constants.
LEMMA Constants ==
    /\ NoNode \notin Ids /\ NoKey \notin Keys
    /\ Nil \in [Names -> IdOrNil] /\ MaxObjects \in Nat
    /\ \A d \in Dirs : Root(d) \in Ids
<1>1. MaxObjects \in Nat /\ MaxObjects >= 1 /\ NoNode \notin Keys \X Nat /\ NoKey \notin Keys
  BY DirAssumption DEF Keys
<1>2. Ids \subseteq Keys \X Nat
  BY <1>1 DEF Ids
<1>3. ASSUME NEW d \in Dirs PROVE Root(d) \in Ids
  BY <1>1 DEF Root, Ids, Keys
<1> QED
  BY <1>1, <1>2, <1>3 DEF Nil, IdOrNil

\* The state of one mount.
States == [nodes : [Ids -> Node], known : [Keys -> IdOrNil]]

StoreOK      == store \in [Keys -> Entry] /\ NoDanglingEntry
Stored(k)    == store[k].version > 0
Loaded(node) == node.mode \in {"file", "dir"}

\* Whatever a directory lists, in Children or in go-fuse's tree, has been made
\* and is stored; excepted is entry u.
Entries(ns, u) ==
    \A i \in Ids, x \in Names, c \in Ids :
        (ns[i].children[x] = c \/ ns[i].inodes[x] = c) =>
            ns[c].mode # "unused" /\ (Stored(ns[c].key) \/ u = <<i, x, c>>)

\* Objects that are not loaded list nothing.
Blank(ns) ==
    \A i \in Ids :
        /\ ns[i].mode = "unused" => ns[i].key = i[1]
        /\ ~Loaded(ns[i]) => ns[i].children = Nil /\ ns[i].inodes = Nil

\* go-fuse's tree has only loaded nodes.
Inodes(ns) ==
    \A i \in Ids, x \in Names : ns[i].inodes[x] # NoNode => Loaded(ns[ns[i].inodes[x]])

\* go-fuse's tree is part of the one that would be saved, but for entries A.
Agree(ns, A) ==
    \A i \in Ids, x \in Names : <<i, x>> \in A \/ ns[i].inodes[x] \in {NoNode, ns[i].children[x]}

OK(s, u, A) ==
    s \in States /\ Entries(s.nodes, u) /\ Blank(s.nodes) /\ Inodes(s.nodes) /\ Agree(s.nodes, A)

\* What loading leaves alone: entries of loaded nodes other than j.
Grown(j, s, t) ==
    \A i \in Ids :
        /\ s.nodes[i].mode # "unused" => t.nodes[i].mode # "unused"
        /\ Stored(s.nodes[i].key) => Stored(t.nodes[i].key)
        /\ Loaded(s.nodes[i]) =>
            /\ Loaded(t.nodes[i])
            /\ i # j => /\ t.nodes[i].children = s.nodes[i].children
                        /\ t.nodes[i].inodes = s.nodes[i].inodes

\* Grown is reflexive ...
LEMMA GrownSame == ASSUME NEW s, NEW j PROVE Grown(j, s, s)
BY DEF Grown

\* ... and transitive.
LEMMA GrownTransitive ==
    ASSUME NEW s, NEW t, NEW r, NEW j, Grown(j, s, t), Grown(j, t, r)
    PROVE  Grown(j, s, r)
BY Zenon DEF Grown

\* The fields of an object.
LEMMA NodeFields ==
    ASSUME NEW s \in States, NEW i \in Ids
    PROVE  /\ s.nodes[i] \in Node
           /\ s.nodes[i].key \in Keys /\ s.nodes[i].version \in Nat
           /\ s.nodes[i].mode \in {"unused", "notLoaded", "file", "dir"}
           /\ s.nodes[i].children \in [Names -> IdOrNil] /\ s.nodes[i].inodes \in [Names -> IdOrNil]
           /\ s.nodes[i].shouldReload \in BOOLEAN
BY DEF States, Node

\* The object that is made next for a key has not been in use.
LEMMA NewIdDef ==
    ASSUME NEW s \in States, NEW k \in Keys
    PROVE  LET n == NewId(s, k) IN
           /\ n \in IdOrNil
           /\ n # NoNode => n \in Ids /\ n[1] = k /\ s.nodes[n].mode = "unused"
<1> DEFINE U == Unused(s, k)
<1>1. CASE U = {}
  BY <1>1 DEF NewId, IdOrNil
<1>2. CASE U # {}
  <2>1. U \in SUBSET Nat
    BY DEF Unused
  <2>2. Min(U) \in U
    <3> HIDE DEF U
    <3>1. \E x \in U : \A y \in U : x <= y
      BY <1>2, <2>1, LeastNumber
    <3> QED
      BY <3>1 DEF Min
  <2>3. NewId(s, k) = <<k, Min(U)>>
    BY <1>2 DEF NewId
  <2> QED
    BY <2>2, <2>3 DEF Unused, IdOrNil, Ids
<1> QED
  BY <1>1, <1>2

\* A state in which the fields of some objects are replaced.
LEMMA ExistingNodeDef ==
    ASSUME NEW s \in States, NEW k \in Keys
    PROVE  LET t == ExistingNode(s, k)
               n == NewId(s, k)
           IN
           /\ t \in States
           /\ \A j \in Ids : t.nodes[j] = IF j = n THEN [s.nodes[j] EXCEPT !.mode = "notLoaded"] ELSE s.nodes[j]
<1> DEFINE n == NewId(s, k)
           r == [s EXCEPT !.nodes[n].mode = "notLoaded"]
           t == ExistingNode(s, k)
           ns == [s.nodes EXCEPT ![n].mode = "notLoaded"]
<1>1. n \in IdOrNil /\ s.nodes \in [Ids -> Node] /\ s.known \in [Keys -> IdOrNil]
  BY NewIdDef DEF States
<1>2. r = [nodes |-> ns, known |-> s.known]
  BY DEF States
<1>3. t = [nodes |-> ns, known |-> [s.known EXCEPT ![k] = IF @ = NoNode THEN n ELSE @]]
  <2>1. t = AddKnown(r, k, n)
    BY DEF ExistingNode
  <2> HIDE DEF n, ns, r, t
  <2>2. AddKnown(r, k, n) = [r EXCEPT !.known[k] = IF @ = NoNode THEN n ELSE @]
    BY DEF AddKnown
  <2> QED
    BY <1>2, <2>1, <2>2
<1> HIDE DEF n
<1>4. ns \in [Ids -> Node] /\ \A j \in Ids : ns[j] = IF j = n THEN [s.nodes[j] EXCEPT !.mode = "notLoaded"] ELSE s.nodes[j]
  BY <1>1 DEF Node
<1>5. [s.known EXCEPT ![k] = IF @ = NoNode THEN n ELSE @] \in [Keys -> IdOrNil]
  BY <1>1
<1> HIDE DEF ns
<1>6. t \in States /\ t.nodes = ns
  BY <1>3, <1>4, <1>5 DEF States
<1> QED
  BY <1>4, <1>6 DEF n

\* An entry that the server has names a stored node.
LEMMA StoredChildTyped ==
    ASSUME StoreOK, NEW s \in States, NEW i \in Ids, NEW x \in Names
    PROVE  /\ StoredChild(s, i, x) \in Keys \cup {NoKey}
           /\ StoredChild(s, i, x) # NoKey => StoredChild(s, i, x) \in Keys /\ Stored(StoredChild(s, i, x))
<1>1. s.nodes[i].key \in Keys
  BY NodeFields
<1>2. store[s.nodes[i].key].children \in [Names -> Keys \cup {NoKey}]
  BY <1>1 DEF StoreOK, Entry
<1> QED
  BY <1>1, <1>2 DEF StoredChild, StoreOK, NoDanglingEntry, Stored

\* unserialize: an object for the entry, which is not loaded.
LEMMA LoadEntryDef ==
    ASSUME StoreOK, NEW s \in States, NEW i \in Ids, NEW x \in Names, StoredChild(s, i, x) # NoKey
    PROVE  LET t == LoadEntry(s, i, x)
               n == NewId(s, StoredChild(s, i, x))
           IN
           /\ t \in States
           /\ \A j \in Ids :
                /\ t.nodes[j].key = s.nodes[j].key /\ t.nodes[j].inodes = s.nodes[j].inodes
                /\ t.nodes[j].mode = IF j = n THEN "notLoaded" ELSE s.nodes[j].mode
                /\ t.nodes[j].children = IF j = i THEN [s.nodes[j].children EXCEPT ![x] = n] ELSE s.nodes[j].children
<1> DEFINE k == StoredChild(s, i, x)
           n == NewId(s, k)
           r == ExistingNode(s, k)
           t == LoadEntry(s, i, x)
           ns == [r.nodes EXCEPT ![i].children[x] = n]
<1>1. k \in Keys
  BY StoredChildTyped
<1>2. t = [r EXCEPT !.nodes[i].children[x] = n]
  BY DEF LoadEntry
<1> HIDE DEF k
<1>3. n \in IdOrNil
  BY <1>1, NewIdDef
<1>4. /\ r \in States
      /\ \A j \in Ids : r.nodes[j] = IF j = n THEN [s.nodes[j] EXCEPT !.mode = "notLoaded"] ELSE s.nodes[j]
  BY <1>1, ExistingNodeDef
<1> HIDE DEF n, r, t
<1>5. t = [nodes |-> ns, known |-> r.known] /\ r.nodes \in [Ids -> Node] /\ r.known \in [Keys -> IdOrNil]
  BY <1>2, <1>4 DEF States
<1>6. /\ ns \in [Ids -> Node]
      /\ \A j \in Ids : ns[j] = IF j = i THEN [r.nodes[j] EXCEPT !.children[x] = n] ELSE r.nodes[j]
  BY <1>3, <1>5 DEF Node
<1>7. t \in States /\ t.nodes = ns
  BY <1>5, <1>6 DEF States
<1> HIDE DEF ns
<1>8. ASSUME NEW j \in Ids
      PROVE  /\ t.nodes[j].key = s.nodes[j].key /\ t.nodes[j].inodes = s.nodes[j].inodes
             /\ t.nodes[j].mode = IF j = n THEN "notLoaded" ELSE s.nodes[j].mode
             /\ t.nodes[j].children = IF j = i THEN [s.nodes[j].children EXCEPT ![x] = n] ELSE s.nodes[j].children
  <2>1. s.nodes[j] \in Node /\ r.nodes[j] \in Node
    BY <1>4, NodeFields
  <2>2. /\ r.nodes[j].key = s.nodes[j].key /\ r.nodes[j].inodes = s.nodes[j].inodes
        /\ r.nodes[j].mode = IF j = n THEN "notLoaded" ELSE s.nodes[j].mode
        /\ r.nodes[j].children = s.nodes[j].children
    BY <1>4, <2>1 DEF Node
  <2>3. /\ ns[j].key = r.nodes[j].key /\ ns[j].inodes = r.nodes[j].inodes /\ ns[j].mode = r.nodes[j].mode
        /\ ns[j].children = IF j = i THEN [r.nodes[j].children EXCEPT ![x] = n] ELSE r.nodes[j].children
    BY <1>6, <2>1 DEF Node
  <2> QED
    BY <1>7, <2>2, <2>3
<1> QED
  BY <1>7, <1>8 DEF n, t, k

\* A state with the attributes of i loaded.
LEMMA WithAttributesDef ==
    ASSUME StoreOK, NEW s \in States, NEW i \in Ids
    PROVE  LET t == WithAttributes(s, i) IN
           /\ t \in States
           /\ \A j \in Ids :
                /\ t.nodes[j].key = s.nodes[j].key
                /\ t.nodes[j].children = s.nodes[j].children /\ t.nodes[j].inodes = s.nodes[j].inodes
                /\ j # i => t.nodes[j].mode = s.nodes[j].mode
           /\ Loaded(t.nodes[i])
<1> DEFINE e == store[s.nodes[i].key]
           ns == [s.nodes EXCEPT ![i].version = e.version, ![i].mode = e.mode]
           t == WithAttributes(s, i)
<1>1. e.version \in Nat /\ e.mode \in {"file", "dir"}
  BY NodeFields DEF StoreOK, Entry
<1>2. t = [s EXCEPT !.nodes[i].version = e.version, !.nodes[i].mode = e.mode]
  BY DEF WithAttributes
<1> HIDE DEF e, t
<1>3. t = [nodes |-> ns, known |-> s.known] /\ s.nodes \in [Ids -> Node] /\ s.known \in [Keys -> IdOrNil]
  BY <1>2 DEF States
<1>4. /\ ns \in [Ids -> Node]
      /\ \A j \in Ids : ns[j] = IF j = i THEN [s.nodes[j] EXCEPT !.version = e.version, !.mode = e.mode] ELSE s.nodes[j]
  BY <1>1, <1>3, ZenonT(60) DEF Node
<1>5. t \in States /\ t.nodes = ns
  BY <1>3, <1>4 DEF States
<1> HIDE DEF ns
<1>6. ASSUME NEW j \in Ids
      PROVE  /\ ns[j].key = s.nodes[j].key
             /\ ns[j].children = s.nodes[j].children /\ ns[j].inodes = s.nodes[j].inodes
             /\ j # i => ns[j].mode = s.nodes[j].mode
             /\ j = i => Loaded(ns[j])
  <2>1. s.nodes[j] \in Node
    BY NodeFields
  <2> QED
    BY <1>1, <1>4, <2>1 DEF Node, Loaded
<1> QED
  BY <1>5, <1>6 DEF t

\* Entry x of directory i, met for the first time.
LEMMA LoadEntryOK ==
    ASSUME StoreOK, NEW u, NEW A, NEW s, OK(s, u, A), NEW i \in Ids, NEW x \in Names,
           Loaded(s.nodes[i]), s.nodes[i].inodes[x] = NoNode \/ <<i, x>> \in A
    PROVE  LET t == LoadEntry(s, i, x) IN
           /\ OK(t, u, A) /\ Grown(i, s, t) /\ Loaded(t.nodes[i])
           /\ \A j \in Ids : t.nodes[j].inodes = s.nodes[j].inodes
<1> DEFINE k == StoredChild(s, i, x)
           n == NewId(s, k)
           t == LoadEntry(s, i, x)
<1>s. s \in States
  BY DEF OK
<1>1. CASE k = NoKey
  <2>1. t = s
    BY <1>1 DEF LoadEntry
  <2> HIDE DEF t
  <2> QED
    BY <2>1, GrownSame DEF t
<1>2. CASE k # NoKey
  <2>1. k \in Keys /\ Stored(k)
    BY <1>s, <1>2, StoredChildTyped
  <2>2. n \in IdOrNil /\ (n # NoNode => n \in Ids /\ n[1] = k /\ s.nodes[n].mode = "unused")
    BY <1>s, <2>1, NewIdDef
  <2>3. /\ t \in States
        /\ \A j \in Ids :
             /\ t.nodes[j].key = s.nodes[j].key /\ t.nodes[j].inodes = s.nodes[j].inodes
             /\ t.nodes[j].mode = IF j = n THEN "notLoaded" ELSE s.nodes[j].mode
             /\ t.nodes[j].children = IF j = i THEN [s.nodes[j].children EXCEPT ![x] = n] ELSE s.nodes[j].children
    BY <1>s, <1>2, LoadEntryDef
  <2> HIDE DEF k, n, t
  <2>4. n # i /\ Loaded(t.nodes[i])
    BY <2>2, <2>3, Constants DEF Loaded
  <2>5. ASSUME NEW j \in Ids, NEW y \in Names
        PROVE  t.nodes[j].children[y] = IF j = i /\ y = x THEN n ELSE s.nodes[j].children[y]
    <3>1. s.nodes[j].children \in [Names -> IdOrNil]
      BY <1>s, NodeFields
    <3> QED
      BY <2>3, <3>1
  <2>6. Grown(i, s, t)
    <3> SUFFICES ASSUME NEW j \in Ids
                 PROVE  /\ s.nodes[j].mode # "unused" => t.nodes[j].mode # "unused"
                        /\ Stored(s.nodes[j].key) => Stored(t.nodes[j].key)
                        /\ Loaded(s.nodes[j]) =>
                            /\ Loaded(t.nodes[j])
                            /\ j # i => /\ t.nodes[j].children = s.nodes[j].children
                                        /\ t.nodes[j].inodes = s.nodes[j].inodes
      BY Zenon DEF Grown
    <3>1. j = n => s.nodes[j].mode = "unused"
      BY <2>2, Constants
    <3> QED
      BY <2>3, <3>1 DEF Loaded
  <2>7. Entries(t.nodes, u)
    <3> SUFFICES ASSUME NEW j \in Ids, NEW y \in Names, NEW c \in Ids,
                        t.nodes[j].children[y] = c \/ t.nodes[j].inodes[y] = c
                 PROVE  t.nodes[c].mode # "unused" /\ (Stored(t.nodes[c].key) \/ u = <<j, y, c>>)
      BY Zenon DEF Entries
    <3>1. CASE s.nodes[j].children[y] = c \/ s.nodes[j].inodes[y] = c
      <4>1. s.nodes[c].mode # "unused" /\ (Stored(s.nodes[c].key) \/ u = <<j, y, c>>)
        BY <3>1, Zenon DEF OK, Entries
      <4> QED
        BY <2>3, <4>1
    <3>2. CASE ~(s.nodes[j].children[y] = c \/ s.nodes[j].inodes[y] = c)
      <4>1. c = n
        BY <2>3, <2>5, <3>2, ZenonT(60)
      <4>2. s.nodes[c].key = k
        BY <2>2, <4>1, Constants DEF OK, Blank
      <4> QED
        BY <2>1, <2>3, <4>1, <4>2
    <3> QED
      BY <3>1, <3>2
  <2>8. Blank(t.nodes)
    <3> SUFFICES ASSUME NEW j \in Ids
                 PROVE  /\ t.nodes[j].mode = "unused" => t.nodes[j].key = j[1]
                        /\ ~Loaded(t.nodes[j]) => t.nodes[j].children = Nil /\ t.nodes[j].inodes = Nil
      BY Zenon DEF Blank
    <3>1. /\ s.nodes[j].mode = "unused" => s.nodes[j].key = j[1]
          /\ ~Loaded(s.nodes[j]) => s.nodes[j].children = Nil /\ s.nodes[j].inodes = Nil
      BY Zenon DEF OK, Blank
    <3>2. CASE j = n
      BY <2>2, <2>3, <2>4, <3>1, <3>2, Constants DEF Loaded
    <3>3. CASE j # n
      BY <2>3, <2>4, <3>1, <3>3 DEF Loaded
    <3> QED
      BY <3>2, <3>3
  <2>9. Inodes(t.nodes)
    <3> SUFFICES ASSUME NEW j \in Ids, NEW y \in Names, t.nodes[j].inodes[y] # NoNode
                 PROVE  Loaded(t.nodes[t.nodes[j].inodes[y]])
      BY Zenon DEF Inodes
    <3> DEFINE c == s.nodes[j].inodes[y]
    <3>1. t.nodes[j].inodes[y] = c /\ c # NoNode
      BY <2>3
    <3>2. c \in Ids
      BY <1>s, <3>1, NodeFields DEF IdOrNil
    <3>3. Loaded(s.nodes[c])
      BY <3>1, Zenon DEF OK, Inodes
    <3> HIDE DEF c
    <3>4. Loaded(t.nodes[c])
      BY <2>6, <3>2, <3>3 DEF Grown
    <3> QED
      BY <3>1, <3>4
  <2>10. Agree(t.nodes, A)
    <3> SUFFICES ASSUME NEW j \in Ids, NEW y \in Names
                 PROVE  <<j, y>> \in A \/ t.nodes[j].inodes[y] \in {NoNode, t.nodes[j].children[y]}
      BY Zenon DEF Agree
    <3>1. <<j, y>> \in A \/ s.nodes[j].inodes[y] \in {NoNode, s.nodes[j].children[y]}
      BY Zenon DEF OK, Agree
    <3> QED
      BY <2>3, <2>5, <3>1
  <2> QED
    BY <2>3, <2>4, <2>6, <2>7, <2>8, <2>9, <2>10 DEF OK, t
<1> QED
  BY <1>1, <1>2

\* A change of attributes, keys and marks.
LEMMA KeepsEntries ==
    ASSUME NEW u, NEW A, NEW s, OK(s, u, A), NEW t \in States, NEW i, Grown(i, s, t), Blank(t.nodes),
           \A j \in Ids, y \in Names : /\ t.nodes[j].children[y] = s.nodes[j].children[y]
                                       /\ t.nodes[j].inodes[y] = s.nodes[j].inodes[y]
    PROVE  OK(t, u, A)
<1>1. Entries(t.nodes, u)
  <2> SUFFICES ASSUME NEW j \in Ids, NEW y \in Names, NEW c \in Ids,
                      t.nodes[j].children[y] = c \/ t.nodes[j].inodes[y] = c
               PROVE  t.nodes[c].mode # "unused" /\ (Stored(t.nodes[c].key) \/ u = <<j, y, c>>)
    BY Zenon DEF Entries
  <2>1. s.nodes[c].mode # "unused" /\ (Stored(s.nodes[c].key) \/ u = <<j, y, c>>)
    BY ZenonT(30) DEF OK, Entries
  <2> QED
    BY <2>1, Zenon DEF Grown
<1>2. Inodes(t.nodes)
  <2> SUFFICES ASSUME NEW j \in Ids, NEW y \in Names, t.nodes[j].inodes[y] # NoNode
               PROVE  Loaded(t.nodes[t.nodes[j].inodes[y]])
    BY Zenon DEF Inodes
  <2> DEFINE c == s.nodes[j].inodes[y]
  <2>1. t.nodes[j].inodes[y] = c /\ c # NoNode
    OBVIOUS
  <2>2. c \in Ids
    BY <2>1, NodeFields DEF IdOrNil, OK
  <2>3. Loaded(s.nodes[c])
    BY <2>1, Zenon DEF OK, Inodes
  <2> HIDE DEF c
  <2>4. Loaded(t.nodes[c])
    BY <2>2, <2>3, Zenon DEF Grown
  <2> QED
    BY <2>1, <2>4
<1>3. Agree(t.nodes, A)
  <2> SUFFICES ASSUME NEW j \in Ids, NEW y \in Names
               PROVE  <<j, y>> \in A \/ t.nodes[j].inodes[y] \in {NoNode, t.nodes[j].children[y]}
    BY Zenon DEF Agree
  <2>1. <<j, y>> \in A \/ s.nodes[j].inodes[y] \in {NoNode, s.nodes[j].children[y]}
    BY Zenon DEF OK, Agree
  <2> QED
    BY <2>1
<1> QED
  BY <1>1, <1>2, <1>3 DEF OK

\* Loading the attributes of a stored node keeps the invariant.
LEMMA WithAttributesOK ==
    ASSUME StoreOK, NEW u, NEW A, NEW s, OK(s, u, A), NEW i \in Ids
    PROVE  LET t == WithAttributes(s, i) IN
           /\ OK(t, u, A) /\ Grown(i, s, t) /\ Loaded(t.nodes[i])
           /\ \A j \in Ids : t.nodes[j].inodes = s.nodes[j].inodes
<1> DEFINE t == WithAttributes(s, i)
<1>s. s \in States
  BY DEF OK
<1>1. /\ t \in States
      /\ \A j \in Ids :
            /\ t.nodes[j].key = s.nodes[j].key
            /\ t.nodes[j].children = s.nodes[j].children /\ t.nodes[j].inodes = s.nodes[j].inodes
            /\ j # i => t.nodes[j].mode = s.nodes[j].mode
      /\ Loaded(t.nodes[i])
  BY <1>s, WithAttributesDef
<1> HIDE DEF t
<1>2. Grown(i, s, t)
  BY <1>1 DEF Grown, Loaded
<1>3. Blank(t.nodes)
  <2> SUFFICES ASSUME NEW j \in Ids
               PROVE  /\ t.nodes[j].mode = "unused" => t.nodes[j].key = j[1]
                      /\ ~Loaded(t.nodes[j]) => t.nodes[j].children = Nil /\ t.nodes[j].inodes = Nil
    BY Zenon DEF Blank
  <2>1. /\ s.nodes[j].mode = "unused" => s.nodes[j].key = j[1]
        /\ ~Loaded(s.nodes[j]) => s.nodes[j].children = Nil /\ s.nodes[j].inodes = Nil
    BY Zenon DEF OK, Blank
  <2> QED
    BY <1>1, <2>1 DEF Loaded
<1>4. OK(t, u, A)
  BY <1>1, <1>2, <1>3, KeepsEntries
<1> QED
  BY <1>1, <1>2, <1>4 DEF t

\* LoadMetadata, of an object that go-fuse has no children for.
LEMMA LoadMetadataOK ==
    ASSUME StoreOK, NEW u, NEW A, NEW s, OK(s, u, A), NEW i \in Ids, s.nodes[i].inodes = Nil
    PROVE  LET t == LoadMetadata(s, i) IN
           /\ OK(t, u, A) /\ Grown(i, s, t) /\ Loaded(t.nodes[i])
           /\ \A j \in Ids : t.nodes[j].inodes = s.nodes[j].inodes
<1> DEFINE T == {t \in States : /\ OK(t, u, A) /\ Grown(i, s, t) /\ Loaded(t.nodes[i])
                                /\ \A j \in Ids : t.nodes[j].inodes = s.nodes[j].inodes}
           base == WithAttributes(s, i)
           F == [x \in Names |-> [t \in T |-> LoadEntry(t, i, x)]]
           Def(f) == [a \in SUBSET Names |-> IF a = {} THEN base ELSE LoadEntry(f[Rest(a)], i, One(a))]
<1>f. IsFiniteSet(Names)
  BY DirAssumption
<1>1. base \in T
  BY WithAttributesOK DEF OK
<1>2. ASSUME NEW x \in Names, NEW t \in T PROVE LoadEntry(t, i, x) \in T
  <2> DEFINE r == LoadEntry(t, i, x)
  <2>1. OK(t, u, A) /\ Grown(i, s, t) /\ Loaded(t.nodes[i]) /\ \A j \in Ids : t.nodes[j].inodes = s.nodes[j].inodes
    OBVIOUS
  <2>2. t.nodes[i].inodes[x] = NoNode
    BY <2>1 DEF Nil
  <2>3. /\ OK(r, u, A) /\ Grown(i, t, r) /\ Loaded(r.nodes[i])
        /\ \A j \in Ids : r.nodes[j].inodes = t.nodes[j].inodes
    <3>1. OK(t, u, A) /\ Loaded(t.nodes[i]) /\ (t.nodes[i].inodes[x] = NoNode \/ <<i, x>> \in A)
      BY <2>1, <2>2
    <3> HIDE DEF T
    <3> QED
      BY <3>1, LoadEntryOK
  <2> HIDE DEF r
  <2>4. Grown(i, s, r)
    BY <2>1, <2>3, GrownTransitive
  <2>5. r \in States
    BY <2>3 DEF OK
  <2>6. r \in T
    BY <2>1, <2>3, <2>4, <2>5
  <2> QED
    BY <2>6 DEF r
<1> HIDE DEF T, base
<1>3. F \in [Names -> [T -> T]] /\ \A x \in Names, t \in T : F[x][t] = LoadEntry(t, i, x)
  BY <1>2
<1> HIDE DEF F
<1>4. PICK g \in [SUBSET Names -> T] : FoldsBy(Names, base, F, g)
  BY <1>f, <1>1, <1>3, FoldExists
<1>5. g = Def(g)
  <2>1. ASSUME NEW a \in SUBSET Names PROVE g[a] = Def(g)[a]
    <3>1. CASE a = {}
      BY <1>4, <3>1 DEF FoldsBy
    <3>2. CASE a # {}
      <4>1. One(a) \in Names /\ g[Rest(a)] \in T
        BY <1>f, <3>2, RestSmaller
      <4> QED
        BY <1>3, <1>4, <3>2, <4>1 DEF FoldsBy
    <3> QED
      BY <3>1, <3>2
  <2> QED
    BY <2>1
<1> DEFINE f == CHOOSE h : h = Def(h)
<1>6. LoadMetadata(s, i) = f[Names]
  BY DEF LoadMetadata, FoldSet, MapThenFoldSet, One, Rest, base
<1>7. f = Def(f)
  <2> HIDE DEF Def
  <2> QED
    BY <1>5
<1> HIDE DEF f
<1> DEFINE Q == {a \in SUBSET Names : f[a] \in T}
<1>8. {} \in Q
  BY <1>1, <1>7
<1>9. ASSUME NEW a \in SUBSET Names, a # {}, Rest(a) \in Q PROVE a \in Q
  <2>1. f[a] = LoadEntry(f[Rest(a)], i, One(a))
    BY <1>7, <1>9
  <2>2. One(a) \in Names
    BY <1>f, <1>9, RestSmaller
  <2> QED
    BY <1>2, <1>9, <2>1, <2>2
<1>10. Names \in Q
  <2> HIDE DEF Q
  <2> QED
    BY <1>f, <1>8, <1>9, SubsetInduction
<1>11. LoadMetadata(s, i) \in T
  BY <1>6, <1>10
<1> QED
  BY <1>11 DEF T

\* One object gets another key or mark.
LEMMA NodeUpdated ==
    ASSUME NEW old \in Node, NEW a, NEW b
    PROVE  [old EXCEPT !.children = a, !.inodes = b] =
               [key |-> old.key, version |-> old.version, mode |-> old.mode,
                children |-> a, inodes |-> b, shouldReload |-> old.shouldReload]
<1> DEFINE key == old.key
           version == old.version
           mode == old.mode
           children == old.children
           inodes == old.inodes
           mark == old.shouldReload
<1>1. old = [key |-> key, version |-> version, mode |-> mode,
             children |-> children, inodes |-> inodes, shouldReload |-> mark]
  BY DEF Node
<1> HIDE DEF key, version, mode, children, inodes, mark
<1> DEFINE mid == [old EXCEPT !.children = a]
<1>m. mid = [key |-> key, version |-> version, mode |-> mode,
             children |-> a, inodes |-> inodes, shouldReload |-> mark]
  BY <1>1
<1>n. [old EXCEPT !.children = a, !.inodes = b] = [mid EXCEPT !.inodes = b]
  OBVIOUS
<1> HIDE DEF mid
<1>o. [mid EXCEPT !.inodes = b] =
          [key |-> key, version |-> version, mode |-> mode,
           children |-> a, inodes |-> b, shouldReload |-> mark]
  BY <1>m
<1>2. [old EXCEPT !.children = a, !.inodes = b] =
          [key |-> key, version |-> version, mode |-> mode,
           children |-> a, inodes |-> b, shouldReload |-> mark]
  BY <1>n, <1>o
<1> QED
  BY <1>2 DEF key, version, mode, mark

\* A new object for a key keeps the invariant.
LEMMA ExistingNodeOK ==
    ASSUME NEW u, NEW A, NEW s, OK(s, u, A), NEW k \in Keys, NEW i
    PROVE  OK(ExistingNode(s, k), u, A) /\ Grown(i, s, ExistingNode(s, k))
<1> DEFINE n == NewId(s, k)
           t == ExistingNode(s, k)
<1>s. s \in States
  BY DEF OK
<1>1. n \in IdOrNil /\ (n # NoNode => n \in Ids /\ n[1] = k /\ s.nodes[n].mode = "unused")
  BY <1>s, NewIdDef
<1>2. /\ t \in States
      /\ \A j \in Ids : t.nodes[j] = IF j = n THEN [s.nodes[j] EXCEPT !.mode = "notLoaded"] ELSE s.nodes[j]
  BY <1>s, ExistingNodeDef
<1> HIDE DEF n, t
<1>3. ASSUME NEW j \in Ids
      PROVE  /\ t.nodes[j].key = s.nodes[j].key /\ t.nodes[j].inodes = s.nodes[j].inodes
             /\ t.nodes[j].children = s.nodes[j].children
             /\ t.nodes[j].mode = IF j = n THEN "notLoaded" ELSE s.nodes[j].mode
  <2>1. s.nodes[j] \in Node
    BY <1>s, NodeFields
  <2> QED
    BY <1>2, <2>1 DEF Node
<1>4. ASSUME NEW j \in Ids, j = n PROVE s.nodes[j].mode = "unused"
  BY <1>1, <1>4, Constants
<1>5. Grown(i, s, t)
  <2> SUFFICES ASSUME NEW j \in Ids
               PROVE  /\ s.nodes[j].mode # "unused" => t.nodes[j].mode # "unused"
                      /\ Stored(s.nodes[j].key) => Stored(t.nodes[j].key)
                      /\ Loaded(s.nodes[j]) =>
                          /\ Loaded(t.nodes[j])
                          /\ j # i => /\ t.nodes[j].children = s.nodes[j].children
                                      /\ t.nodes[j].inodes = s.nodes[j].inodes
    BY Zenon DEF Grown
  <2> QED
    BY <1>3, <1>4 DEF Loaded
<1>6. Blank(t.nodes)
  <2> SUFFICES ASSUME NEW j \in Ids
               PROVE  /\ t.nodes[j].mode = "unused" => t.nodes[j].key = j[1]
                      /\ ~Loaded(t.nodes[j]) => t.nodes[j].children = Nil /\ t.nodes[j].inodes = Nil
    BY Zenon DEF Blank
  <2>1. /\ s.nodes[j].mode = "unused" => s.nodes[j].key = j[1]
        /\ ~Loaded(s.nodes[j]) => s.nodes[j].children = Nil /\ s.nodes[j].inodes = Nil
    BY Zenon DEF OK, Blank
  <2> QED
    BY <1>3, <1>4, <2>1 DEF Loaded
<1>7. OK(t, u, A)
  BY <1>2, <1>3, <1>5, <1>6, KeepsEntries
<1> QED
  BY <1>5, <1>7 DEF t

\* reloadIfNeeded, one entry of directory i.
LEMMA ReloadEntryOK ==
    ASSUME StoreOK, NEW u, NEW A, NEW s, OK(s, u, A), NEW i \in Ids, NEW x \in Names, Loaded(s.nodes[i])
    PROVE  LET t == ReloadEntry(s, i, x) IN
           OK(t, u, A) /\ Grown(i, s, t) /\ Loaded(t.nodes[i])
<1> DEFINE k == StoredChild(s, i, x)
           prev == s.nodes[i].children[x]
           t == ReloadEntry(s, i, x)
<1>s. s \in States
  BY DEF OK
<1>0. prev \in IdOrNil
  BY <1>s, NodeFields
<1>1. CASE k = NoKey
  <2>1. t = [s EXCEPT !.nodes[i].children[x] = NoNode, !.nodes[i].inodes[x] = NoNode]
    BY <1>1 DEF ReloadEntry
  <2> DEFINE ns == [s.nodes EXCEPT ![i].children[x] = NoNode, ![i].inodes[x] = NoNode]
  <2> HIDE DEF t
  <2>2. t = [nodes |-> ns, known |-> s.known] /\ s.nodes \in [Ids -> Node] /\ s.known \in [Keys -> IdOrNil]
    BY <1>s, <2>1 DEF States
  <2> DEFINE old == s.nodes[i]
             a == [old.children EXCEPT ![x] = NoNode]
             b == [old.inodes EXCEPT ![x] = NoNode]
             new == [key |-> old.key, version |-> old.version, mode |-> old.mode,
                     children |-> a, inodes |-> b, shouldReload |-> old.shouldReload]
  <2>3. /\ ns \in [Ids -> Node]
        /\ \A j \in Ids : ns[j] = IF j = i THEN new ELSE s.nodes[j]
    <3>0. old \in Node
      BY <1>s, NodeFields
    <3>1. a \in [Names -> IdOrNil] /\ b \in [Names -> IdOrNil]
      BY <3>0 DEF Node, IdOrNil
    <3>2. new \in Node
      BY <3>0, <3>1 DEF Node
    <3>3. [old EXCEPT !.children[x] = NoNode, !.inodes[x] = NoNode] = new
      <4>1. old = [key |-> old.key, version |-> old.version, mode |-> old.mode,
                   children |-> old.children, inodes |-> old.inodes, shouldReload |-> old.shouldReload]
        BY <3>0 DEF Node
      <4> HIDE DEF old
      <4>2. [old EXCEPT !.children[x] = NoNode, !.inodes[x] = NoNode] =
            [old EXCEPT !.children = a, !.inodes = b]
        BY <4>1
      <4>3. [old EXCEPT !.children = a, !.inodes = b] = new
        BY <3>0, NodeUpdated
      <4> QED
        BY <4>2, <4>3
    <3>4. ns = [s.nodes EXCEPT ![i] = [old EXCEPT !.children[x] = NoNode, !.inodes[x] = NoNode]]
      BY <2>2
    <3>5. ns = [s.nodes EXCEPT ![i] = new]
      BY <3>3, <3>4
    <3> HIDE DEF ns, new, old
    <3> QED
      BY <2>2, <3>2, <3>5
  <2>4. t \in States /\ t.nodes = ns
    BY <2>2, <2>3 DEF States
  <2> HIDE DEF ns
  <2>5. ASSUME NEW j \in Ids
        PROVE  /\ t.nodes[j].key = s.nodes[j].key /\ t.nodes[j].mode = s.nodes[j].mode
               /\ j # i => t.nodes[j].children = s.nodes[j].children /\ t.nodes[j].inodes = s.nodes[j].inodes
               /\ \A y \in Names :
                    /\ t.nodes[j].children[y] = IF j = i /\ y = x THEN NoNode ELSE s.nodes[j].children[y]
                    /\ t.nodes[j].inodes[y] = IF j = i /\ y = x THEN NoNode ELSE s.nodes[j].inodes[y]
    <3>1. s.nodes[j].children \in [Names -> IdOrNil] /\ s.nodes[j].inodes \in [Names -> IdOrNil]
      BY <1>s, NodeFields
    <3>2. CASE j # i
      BY <2>3, <2>4, <3>2
    <3>3. CASE j = i
      BY <2>3, <2>4, <3>1, <3>3
    <3> QED
      BY <3>2, <3>3
  <2>6. Grown(i, s, t)
    BY <2>5 DEF Grown, Loaded
  <2>7. Entries(t.nodes, u)
    <3> SUFFICES ASSUME NEW j \in Ids, NEW y \in Names, NEW c \in Ids,
                        t.nodes[j].children[y] = c \/ t.nodes[j].inodes[y] = c
                 PROVE  t.nodes[c].mode # "unused" /\ (Stored(t.nodes[c].key) \/ u = <<j, y, c>>)
      BY Zenon DEF Entries
    <3>1. s.nodes[j].children[y] = c \/ s.nodes[j].inodes[y] = c
      BY <2>5, Constants
    <3>2. s.nodes[c].mode # "unused" /\ (Stored(s.nodes[c].key) \/ u = <<j, y, c>>)
      BY <3>1, Zenon DEF OK, Entries
    <3> QED
      BY <2>5, <3>2
  <2>8. Blank(t.nodes)
    <3> SUFFICES ASSUME NEW j \in Ids
                 PROVE  /\ t.nodes[j].mode = "unused" => t.nodes[j].key = j[1]
                        /\ ~Loaded(t.nodes[j]) => t.nodes[j].children = Nil /\ t.nodes[j].inodes = Nil
      BY Zenon DEF Blank
    <3>1. /\ s.nodes[j].mode = "unused" => s.nodes[j].key = j[1]
          /\ ~Loaded(s.nodes[j]) => s.nodes[j].children = Nil /\ s.nodes[j].inodes = Nil
      BY Zenon DEF OK, Blank
    <3> QED
      BY <2>5, <3>1 DEF Loaded
  <2>9. Inodes(t.nodes)
    <3> SUFFICES ASSUME NEW j \in Ids, NEW y \in Names, t.nodes[j].inodes[y] # NoNode
                 PROVE  Loaded(t.nodes[t.nodes[j].inodes[y]])
      BY Zenon DEF Inodes
    <3> DEFINE c == s.nodes[j].inodes[y]
    <3>1. t.nodes[j].inodes[y] = c /\ c # NoNode
      BY <2>5
    <3>2. c \in Ids
      BY <1>s, <3>1, NodeFields DEF IdOrNil
    <3>3. Loaded(s.nodes[c])
      BY <3>1, Zenon DEF OK, Inodes
    <3> HIDE DEF c
    <3> QED
      BY <2>5, <3>1, <3>2, <3>3 DEF Loaded
  <2>10. Agree(t.nodes, A)
    <3> SUFFICES ASSUME NEW j \in Ids, NEW y \in Names
                 PROVE  <<j, y>> \in A \/ t.nodes[j].inodes[y] \in {NoNode, t.nodes[j].children[y]}
      BY Zenon DEF Agree
    <3>1. <<j, y>> \in A \/ s.nodes[j].inodes[y] \in {NoNode, s.nodes[j].children[y]}
      BY Zenon DEF OK, Agree
    <3> QED
      BY <2>5, <3>1
  <2>11. Loaded(t.nodes[i])
    BY <2>5 DEF Loaded
  <2> QED
    BY <2>4, <2>6, <2>7, <2>8, <2>9, <2>10, <2>11 DEF OK, t
<1>2. CASE k # NoKey /\ prev = NoNode
  <2>1. t = LoadEntry(s, i, x)
    BY <1>2 DEF ReloadEntry
  <2>2. s.nodes[i].inodes[x] = NoNode \/ <<i, x>> \in A
    BY <1>2 DEF OK, Agree
  <2> QED
    BY <2>1, <2>2, LoadEntryOK
<1>3. CASE k # NoKey /\ prev # NoNode
  <2>1. CASE s.nodes[prev].key = k
    <3>1. t = s
      BY <1>3, <2>1 DEF ReloadEntry
    <3> HIDE DEF t
    <3> QED
      BY <3>1, GrownSame DEF t
  <2>2. CASE s.nodes[prev].key # k
    <3> DEFINE r == IF s.known[k] = NoNode THEN ExistingNode(s, k) ELSE s
               ns == [r.nodes EXCEPT ![prev].key = k, ![prev].shouldReload = TRUE]
    <3>1. t = [r EXCEPT !.nodes[prev].key = k, !.nodes[prev].shouldReload = TRUE]
      BY <1>3, <2>2 DEF ReloadEntry
    <3>2. k \in Keys /\ Stored(k) /\ prev \in Ids
      BY <1>s, <1>0, <1>3, StoredChildTyped DEF IdOrNil
    <3> HIDE DEF k
    <3>3. OK(r, u, A) /\ Grown(i, s, r)
      BY <3>2, ExistingNodeOK, GrownSame
    <3>4. s.nodes[prev].mode # "unused"
      BY <3>2 DEF OK, Entries
    <3> HIDE DEF prev
    <3>5. r.nodes[prev].mode # "unused"
      BY <3>2, <3>3, <3>4 DEF Grown
    <3> HIDE DEF r, t
    <3>6. t = [nodes |-> ns, known |-> r.known] /\ r.nodes \in [Ids -> Node] /\ r.known \in [Keys -> IdOrNil]
      BY <3>1, <3>3 DEF States, OK
    <3>7. /\ ns \in [Ids -> Node]
          /\ \A j \in Ids : ns[j] = IF j = prev THEN [r.nodes[j] EXCEPT !.key = k, !.shouldReload = TRUE]
                                    ELSE r.nodes[j]
      BY <3>2, <3>6, ZenonT(60) DEF Node
    <3>8. t \in States /\ t.nodes = ns
      BY <3>6, <3>7 DEF States
    <3> HIDE DEF ns
    <3>9. ASSUME NEW j \in Ids
          PROVE  /\ t.nodes[j].key = IF j = prev THEN k ELSE r.nodes[j].key
                 /\ t.nodes[j].mode = r.nodes[j].mode
                 /\ t.nodes[j].children = r.nodes[j].children /\ t.nodes[j].inodes = r.nodes[j].inodes
      <4>1. r.nodes[j] \in Node
        BY <3>6
      <4> QED
        BY <3>7, <3>8, <4>1 DEF Node
    <3>10. Grown(i, r, t)
      BY <3>2, <3>9 DEF Grown, Loaded
    <3>11. Blank(t.nodes)
      <4> SUFFICES ASSUME NEW j \in Ids
                   PROVE  /\ t.nodes[j].mode = "unused" => t.nodes[j].key = j[1]
                          /\ ~Loaded(t.nodes[j]) => t.nodes[j].children = Nil /\ t.nodes[j].inodes = Nil
        BY Zenon DEF Blank
      <4>1. /\ r.nodes[j].mode = "unused" => r.nodes[j].key = j[1]
            /\ ~Loaded(r.nodes[j]) => r.nodes[j].children = Nil /\ r.nodes[j].inodes = Nil
        BY <3>3, Zenon DEF OK, Blank
      <4> QED
        BY <3>5, <3>9, <4>1 DEF Loaded
    <3>12. OK(t, u, A)
      BY <3>3, <3>8, <3>9, <3>10, <3>11, KeepsEntries
    <3>13. Grown(i, s, t)
      BY <3>3, <3>10, GrownTransitive
    <3>14. Loaded(t.nodes[i])
      BY <3>13 DEF Grown
    <3> QED
      BY <3>12, <3>13, <3>14 DEF t
  <2> QED
    BY <2>1, <2>2
<1> QED
  BY <1>1, <1>2, <1>3

\* reloadIfNeeded, up to its loop.
LEMMA UnmarkedOK ==
    ASSUME StoreOK, NEW u, NEW A, NEW s, OK(s, u, A), NEW i \in Ids
    PROVE  LET t == [WithAttributes(s, i) EXCEPT !.nodes[i].shouldReload = FALSE] IN
           OK(t, u, A) /\ Grown(i, s, t) /\ Loaded(t.nodes[i])
<1> DEFINE r == WithAttributes(s, i)
           t == [r EXCEPT !.nodes[i].shouldReload = FALSE]
           ns == [r.nodes EXCEPT ![i].shouldReload = FALSE]
<1>1. OK(r, u, A) /\ Grown(i, s, r) /\ Loaded(r.nodes[i])
  BY WithAttributesOK
<1> HIDE DEF r
<1>s. r \in States
  BY <1>1 DEF OK
<1>t. t = [r EXCEPT !.nodes[i].shouldReload = FALSE]
  OBVIOUS
<1> HIDE DEF t
<1>2. t = [nodes |-> ns, known |-> r.known] /\ r.nodes \in [Ids -> Node] /\ r.known \in [Keys -> IdOrNil]
  BY <1>s, <1>t DEF States
<1>3. ns \in [Ids -> Node] /\ \A j \in Ids : ns[j] = IF j = i THEN [r.nodes[j] EXCEPT !.shouldReload = FALSE] ELSE r.nodes[j]
  BY <1>2 DEF Node
<1>4. t \in States /\ t.nodes = ns
  BY <1>2, <1>3 DEF States
<1> HIDE DEF ns
<1>5. ASSUME NEW j \in Ids
      PROVE  /\ t.nodes[j].key = r.nodes[j].key /\ t.nodes[j].mode = r.nodes[j].mode
             /\ t.nodes[j].children = r.nodes[j].children /\ t.nodes[j].inodes = r.nodes[j].inodes
  <2>1. r.nodes[j] \in Node
    BY <1>2
  <2> QED
    BY <1>3, <1>4, <2>1 DEF Node
<1>6. Grown(i, r, t)
  BY <1>5 DEF Grown, Loaded
<1>7. Blank(t.nodes)
  BY <1>1, <1>5 DEF OK, Blank, Loaded
<1>8. OK(t, u, A)
  BY <1>1, <1>4, <1>5, <1>6, <1>7, KeepsEntries
<1>9. Grown(i, s, t)
  BY <1>1, <1>6, GrownTransitive
<1>10. Loaded(t.nodes[i])
  BY <1>1, <1>5 DEF Loaded
<1> QED
  BY <1>8, <1>9, <1>10 DEF t, r

\* reloadIfNeeded keeps the invariant, whatever has changed on the server.
LEMMA ReloadedOK ==
    ASSUME StoreOK, NEW u, NEW A, NEW s, OK(s, u, A), NEW i \in Ids
    PROVE  OK(Reloaded(s, i), u, A) /\ Grown(i, s, Reloaded(s, i))
<1>0. CASE ~s.nodes[i].shouldReload
  <2>1. Reloaded(s, i) = s
    BY <1>0 DEF Reloaded
  <2> QED
    BY <2>1, GrownSame
<1>r. CASE s.nodes[i].shouldReload
  <2> DEFINE T == {t \in States : OK(t, u, A) /\ Grown(i, s, t) /\ Loaded(t.nodes[i])}
             base == [WithAttributes(s, i) EXCEPT !.nodes[i].shouldReload = FALSE]
             F == [x \in Names |-> [t \in T |-> ReloadEntry(t, i, x)]]
             Def(f) == [a \in SUBSET Names |-> IF a = {} THEN base ELSE ReloadEntry(f[Rest(a)], i, One(a))]
  <2>f. IsFiniteSet(Names)
    BY DirAssumption
  <2>1. base \in T
    <3>1. OK(base, u, A) /\ Grown(i, s, base) /\ Loaded(base.nodes[i])
      BY UnmarkedOK
    <3> HIDE DEF base
    <3> QED
      BY <3>1 DEF OK
  <2>2. ASSUME NEW x \in Names, NEW t \in T PROVE ReloadEntry(t, i, x) \in T
    <3> DEFINE r == ReloadEntry(t, i, x)
    <3>1. OK(t, u, A) /\ Grown(i, s, t) /\ Loaded(t.nodes[i])
      OBVIOUS
    <3>2. OK(r, u, A) /\ Grown(i, t, r) /\ Loaded(r.nodes[i])
      <4> HIDE DEF T
      <4> QED
        BY <3>1, ReloadEntryOK
    <3> HIDE DEF r
    <3>3. Grown(i, s, r)
      BY <3>1, <3>2, GrownTransitive
    <3>4. r \in T
      BY <3>2, <3>3 DEF OK
    <3> QED
      BY <3>4 DEF r
  <2> HIDE DEF T, base
  <2>3. F \in [Names -> [T -> T]] /\ \A x \in Names, t \in T : F[x][t] = ReloadEntry(t, i, x)
    BY <2>2
  <2> HIDE DEF F
  <2>4. PICK g \in [SUBSET Names -> T] : FoldsBy(Names, base, F, g)
    BY <2>f, <2>1, <2>3, FoldExists
  <2>5. g = Def(g)
    <3>1. ASSUME NEW a \in SUBSET Names PROVE g[a] = Def(g)[a]
      <4>1. CASE a = {}
        BY <2>4, <4>1 DEF FoldsBy
      <4>2. CASE a # {}
        <5>1. One(a) \in Names /\ g[Rest(a)] \in T
          BY <2>f, <4>2, RestSmaller
        <5> QED
          BY <2>3, <2>4, <4>2, <5>1 DEF FoldsBy
      <4> QED
        BY <4>1, <4>2
    <3> QED
      BY <3>1
  <2> DEFINE f == CHOOSE h : h = Def(h)
  <2>6. Reloaded(s, i) = f[Names]
    BY <1>r DEF Reloaded, FoldSet, MapThenFoldSet, One, Rest, base
  <2>7. f = Def(f)
    <3> HIDE DEF Def
    <3> QED
      BY <2>5
  <2> HIDE DEF f
  <2> DEFINE Q == {a \in SUBSET Names : f[a] \in T}
  <2>8. {} \in Q
    BY <2>1, <2>7
  <2>9. ASSUME NEW a \in SUBSET Names, a # {}, Rest(a) \in Q PROVE a \in Q
    <3>1. f[a] = ReloadEntry(f[Rest(a)], i, One(a))
      BY <2>7, <2>9
    <3>2. One(a) \in Names
      BY <2>f, <2>9, RestSmaller
    <3> QED
      BY <2>2, <2>9, <3>1, <3>2
  <2>10. Names \in Q
    <3> HIDE DEF Q
    <3> QED
      BY <2>f, <2>8, <2>9, SubsetInduction
  <2>11. Reloaded(s, i) \in T
    BY <2>6, <2>10
  <2> QED
    BY <2>11 DEF T
<1> QED
  BY <1>0, <1>r

\* A new inode for an entry of Children that is loaded.
LEMMA InodeAdded ==
    ASSUME NEW u, NEW A, NEW s, OK(s, u, A), NEW i \in Ids, NEW x \in Names, NEW v,
           s.nodes[i].children[x] \in Ids, Loaded(s.nodes[s.nodes[i].children[x]]),
           v \in {s.nodes[i].children[x], s.nodes[i].inodes[x]}
    PROVE  LET t == [s EXCEPT !.nodes[i].inodes[x] = v] IN
           OK(t, u, A) /\ Grown(i, s, t)
<1> DEFINE c == s.nodes[i].children[x]
           t == [s EXCEPT !.nodes[i].inodes[x] = v]
           ns == [s.nodes EXCEPT ![i].inodes[x] = v]
<1>s. s \in States
  BY DEF OK
<1>0. v \in IdOrNil
  BY <1>s, NodeFields DEF IdOrNil
<1>1. t = [nodes |-> ns, known |-> s.known] /\ s.nodes \in [Ids -> Node] /\ s.known \in [Keys -> IdOrNil]
  BY <1>s DEF States
<1> HIDE DEF t
<1>2. ns \in [Ids -> Node] /\ \A j \in Ids : ns[j] = IF j = i THEN [s.nodes[j] EXCEPT !.inodes[x] = v] ELSE s.nodes[j]
  BY <1>0, <1>1 DEF Node
<1>3. t \in States /\ t.nodes = ns
  BY <1>1, <1>2 DEF States
<1> HIDE DEF ns
<1>4. ASSUME NEW j \in Ids
      PROVE  /\ t.nodes[j].key = s.nodes[j].key /\ t.nodes[j].mode = s.nodes[j].mode
             /\ t.nodes[j].children = s.nodes[j].children
             /\ j # i => t.nodes[j].inodes = s.nodes[j].inodes
             /\ \A y \in Names : t.nodes[j].inodes[y] = IF j = i /\ y = x THEN v ELSE s.nodes[j].inodes[y]
  <2>1. s.nodes[j] \in Node
    BY <1>1
  <2> QED
    BY <1>2, <1>3, <2>1 DEF Node
<1>5. Grown(i, s, t)
  BY <1>4 DEF Grown, Loaded
<1>6. Entries(t.nodes, u)
  <2> SUFFICES ASSUME NEW j \in Ids, NEW y \in Names, NEW d \in Ids,
                      t.nodes[j].children[y] = d \/ t.nodes[j].inodes[y] = d
               PROVE  t.nodes[d].mode # "unused" /\ (Stored(t.nodes[d].key) \/ u = <<j, y, d>>)
    BY Zenon DEF Entries
  <2>1. s.nodes[j].children[y] = d \/ s.nodes[j].inodes[y] = d
    BY <1>4
  <2>2. s.nodes[d].mode # "unused" /\ (Stored(s.nodes[d].key) \/ u = <<j, y, d>>)
    BY <2>1, Zenon DEF OK, Entries
  <2> QED
    BY <1>4, <2>2
<1>7. Blank(t.nodes)
  <2> SUFFICES ASSUME NEW j \in Ids
               PROVE  /\ t.nodes[j].mode = "unused" => t.nodes[j].key = j[1]
                      /\ ~Loaded(t.nodes[j]) => t.nodes[j].children = Nil /\ t.nodes[j].inodes = Nil
    BY Zenon DEF Blank
  <2>1. /\ s.nodes[j].mode = "unused" => s.nodes[j].key = j[1]
        /\ ~Loaded(s.nodes[j]) => s.nodes[j].children = Nil /\ s.nodes[j].inodes = Nil
    BY Zenon DEF OK, Blank
  <2>2. Loaded(s.nodes[i])
    <3>1. s.nodes[i].children # Nil
      BY Constants DEF Nil
    <3> QED
      BY <3>1 DEF OK, Blank
  <2> QED
    BY <1>4, <2>1, <2>2 DEF Loaded
<1>8. Inodes(t.nodes)
  <2> SUFFICES ASSUME NEW j \in Ids, NEW y \in Names, t.nodes[j].inodes[y] # NoNode
               PROVE  Loaded(t.nodes[t.nodes[j].inodes[y]])
    BY Zenon DEF Inodes
  <2> DEFINE d == t.nodes[j].inodes[y]
  <2>1. d \in Ids /\ Loaded(s.nodes[d])
    <3>1. CASE j = i /\ y = x /\ v = c
      BY <1>4, <3>1
    <3>2. CASE ~(j = i /\ y = x /\ v = c)
      <4>1. d = s.nodes[j].inodes[y]
        BY <1>4, <3>2
      <4>2. d \in Ids
        BY <1>s, <4>1, NodeFields DEF IdOrNil
      <4> QED
        BY <4>1, <4>2 DEF OK, Inodes
    <3> QED
      BY <3>1, <3>2
  <2> HIDE DEF d
  <2>2. Loaded(t.nodes[d])
    BY <1>4, <2>1 DEF Loaded
  <2> QED
    BY <2>2 DEF d
<1>9. Agree(t.nodes, A)
  <2> SUFFICES ASSUME NEW j \in Ids, NEW y \in Names
               PROVE  <<j, y>> \in A \/ t.nodes[j].inodes[y] \in {NoNode, t.nodes[j].children[y]}
    BY Zenon DEF Agree
  <2>1. <<j, y>> \in A \/ s.nodes[j].inodes[y] \in {NoNode, s.nodes[j].children[y]}
    BY Zenon DEF OK, Agree
  <2> QED
    BY <1>4, <2>1
<1> QED
  BY <1>3, <1>5, <1>6, <1>7, <1>8, <1>9 DEF OK, t

\* ensureChildLoaded, of an entry of a directory.
LEMMA EnsureChildLoadedOK ==
    ASSUME StoreOK, NEW u, NEW A, NEW s, OK(s, u, A), NEW i \in Ids, NEW x \in Names
    PROVE  LET t == EnsureChildLoaded(s, i, x)
               c == t.nodes[i].children[x]
           IN  /\ OK(t, u, A) /\ Grown(i, s, t)
               /\ c # NoNode => c \in Ids /\ Loaded(t.nodes[c])
<1> DEFINE c == s.nodes[i].children[x]
           t == EnsureChildLoaded(s, i, x)
<1>s. s \in States
  BY DEF OK
<1>0. c \in IdOrNil
  BY <1>s, NodeFields
<1>1. CASE c # NoNode /\ s.nodes[c].mode = "notLoaded"
  <2> DEFINE r == LoadMetadata(s, c)
             v == IF r.nodes[i].inodes[x] = NoNode THEN c ELSE r.nodes[i].inodes[x]
             w == [r EXCEPT !.nodes[i].inodes[x] = v]
  <2>1. t = [r EXCEPT !.nodes[i].inodes[x] = IF @ = NoNode THEN c ELSE @]
    BY <1>1 DEF EnsureChildLoaded
  <2>2. c \in Ids
    BY <1>0, <1>1 DEF IdOrNil
  <2>3. s.nodes[c].inodes = Nil
    BY <1>1, <2>2 DEF OK, Blank, Loaded
  <2>4. Loaded(s.nodes[i])
    <3>1. s.nodes[i].children # Nil
      BY <1>1 DEF Nil
    <3> QED
      BY <3>1 DEF OK, Blank
  <2>5. i # c
    BY <1>1, <2>4 DEF Loaded
  <2> HIDE DEF c
  <2>6. OK(r, u, A) /\ Grown(c, s, r) /\ Loaded(r.nodes[c])
    BY <2>2, <2>3, LoadMetadataOK
  <2> HIDE DEF r, t
  <2>7. r.nodes[i].children = s.nodes[i].children
    BY <2>4, <2>5, <2>6 DEF Grown
  <2>8. Grown(i, s, r)
    <3>1. ~Loaded(s.nodes[c])
      BY <1>1 DEF Loaded
    <3> QED
      BY <2>6, <3>1, Zenon DEF Grown
  <2>9. t = w
    <3>1. r \in States
      BY <2>6 DEF OK
    <3> QED
      BY <2>1, <3>1 DEF States
  <2>10. r.nodes[i].children[x] = c
    BY <2>7 DEF c
  <2>11. OK(w, u, A) /\ Grown(i, r, w)
    <3>1. /\ OK(r, u, A) /\ r.nodes[i].children[x] \in Ids
          /\ Loaded(r.nodes[r.nodes[i].children[x]])
          /\ v \in {r.nodes[i].children[x], r.nodes[i].inodes[x]}
      BY <2>2, <2>6, <2>10
    <3> HIDE DEF v
    <3> QED
      BY <3>1, InodeAdded
  <2>12. w.nodes[i].children = r.nodes[i].children
    <3>1. r \in States /\ r.nodes[i] \in Node
      BY <2>6, NodeFields DEF OK
    <3> HIDE DEF v
    <3> QED
      BY <3>1 DEF States, Node
  <2> HIDE DEF w
  <2>13. Grown(i, s, w)
    BY <2>8, <2>11, GrownTransitive
  <2>14. w.nodes[i].children[x] = c /\ Loaded(w.nodes[c])
    BY <2>2, <2>6, <2>10, <2>11, <2>12 DEF Grown
  <2> QED
    BY <2>2, <2>9, <2>11, <2>13, <2>14 DEF t
<1>2. CASE ~(c # NoNode /\ s.nodes[c].mode = "notLoaded")
  <2>1. t = s
    BY <1>2 DEF EnsureChildLoaded
  <2>2. c # NoNode => c \in Ids /\ Loaded(s.nodes[c])
    <3> SUFFICES ASSUME c # NoNode PROVE c \in Ids /\ Loaded(s.nodes[c])
      OBVIOUS
    <3>1. c \in Ids
      BY <1>0 DEF IdOrNil
    <3>2. s.nodes[c].mode # "unused"
      BY <3>1 DEF OK, Entries
    <3> HIDE DEF c
    <3> QED
      BY <1>s, <1>2, <3>1, <3>2, NodeFields DEF Loaded
  <2> HIDE DEF t
  <2> QED
    BY <2>1, <2>2, GrownSame DEF t
<1> QED
  BY <1>1, <1>2

\* Lookup of a name.
LEMMA LookupOK ==
    ASSUME StoreOK, NEW u, NEW A, NEW s, OK(s, u, A), NEW i \in Ids, NEW x \in Names
    PROVE  OK(Lookup(s, i, x), u, A) /\ Grown(i, s, Lookup(s, i, x))
<1> DEFINE r == Reloaded(s, i)
           t == EnsureChildLoaded(r, i, x)
           c == t.nodes[i].children[x]
           w == [t EXCEPT !.nodes[i].inodes[x] = c]
<1>1. OK(r, u, A) /\ Grown(i, s, r)
  BY ReloadedOK
<1>2. Lookup(s, i, x) = IF c = NoNode THEN t ELSE w
  BY DEF Lookup
<1> HIDE DEF r
<1>3. OK(t, u, A) /\ Grown(i, r, t) /\ (c # NoNode => c \in Ids /\ Loaded(t.nodes[c]))
  BY <1>1, EnsureChildLoadedOK
<1> HIDE DEF t
<1>4. Grown(i, s, t)
  BY <1>1, <1>3, GrownTransitive
<1>5. CASE c = NoNode
  BY <1>2, <1>3, <1>4, <1>5
<1>6. CASE c # NoNode
  <2>1. OK(w, u, A) /\ Grown(i, t, w)
    BY <1>3, <1>6, InodeAdded
  <2> HIDE DEF w
  <2>2. Grown(i, s, w)
    BY <1>4, <2>1, GrownTransitive
  <2> QED
    BY <1>2, <1>6, <2>1, <2>2
<1> QED
  BY <1>5, <1>6

\* Opendir's loop over the children.
LEMMA ChildrenLoadedOK ==
    ASSUME StoreOK, NEW u, NEW A, NEW s, OK(s, u, A), NEW i \in Ids
    PROVE  LET t == FoldSet(LAMBDA x, r : EnsureChildLoaded(r, i, x), s, Names) IN
           OK(t, u, A) /\ Grown(i, s, t)
<1> DEFINE T == {t \in States : OK(t, u, A) /\ Grown(i, s, t)}
           F == [x \in Names |-> [t \in T |-> EnsureChildLoaded(t, i, x)]]
           Def(f) == [a \in SUBSET Names |-> IF a = {} THEN s ELSE EnsureChildLoaded(f[Rest(a)], i, One(a))]
           end == FoldSet(LAMBDA x, r : EnsureChildLoaded(r, i, x), s, Names)
<1>f. IsFiniteSet(Names)
  BY DirAssumption
<1>1. s \in T
  BY GrownSame DEF OK
<1>2. ASSUME NEW x \in Names, NEW t \in T PROVE EnsureChildLoaded(t, i, x) \in T
  <2> DEFINE r == EnsureChildLoaded(t, i, x)
  <2>1. OK(t, u, A) /\ Grown(i, s, t)
    OBVIOUS
  <2>2. OK(r, u, A) /\ Grown(i, t, r)
    <3> HIDE DEF T
    <3> QED
      BY <2>1, EnsureChildLoadedOK
  <2> HIDE DEF r
  <2>3. Grown(i, s, r)
    BY <2>1, <2>2, GrownTransitive
  <2>4. r \in T
    BY <2>2, <2>3 DEF OK
  <2> QED
    BY <2>4 DEF r
<1> HIDE DEF T
<1>3. F \in [Names -> [T -> T]] /\ \A x \in Names, t \in T : F[x][t] = EnsureChildLoaded(t, i, x)
  BY <1>2
<1> HIDE DEF F
<1>4. PICK g \in [SUBSET Names -> T] : FoldsBy(Names, s, F, g)
  BY <1>f, <1>1, <1>3, FoldExists
<1>5. g = Def(g)
  <2>1. ASSUME NEW a \in SUBSET Names PROVE g[a] = Def(g)[a]
    <3>1. CASE a = {}
      BY <1>4, <3>1 DEF FoldsBy
    <3>2. CASE a # {}
      <4>1. One(a) \in Names /\ g[Rest(a)] \in T
        BY <1>f, <3>2, RestSmaller
      <4> QED
        BY <1>3, <1>4, <3>2, <4>1 DEF FoldsBy
    <3> QED
      BY <3>1, <3>2
  <2> QED
    BY <2>1
<1> DEFINE f == CHOOSE h : h = Def(h)
<1>6. end = f[Names]
  BY DEF FoldSet, MapThenFoldSet, One, Rest
<1>7. f = Def(f)
  <2> HIDE DEF Def
  <2> QED
    BY <1>5
<1> HIDE DEF f, end
<1> DEFINE Q == {a \in SUBSET Names : f[a] \in T}
<1>8. {} \in Q
  BY <1>1, <1>7
<1>9. ASSUME NEW a \in SUBSET Names, a # {}, Rest(a) \in Q PROVE a \in Q
  <2>1. f[a] = EnsureChildLoaded(f[Rest(a)], i, One(a))
    BY <1>7, <1>9
  <2>2. One(a) \in Names
    BY <1>f, <1>9, RestSmaller
  <2> QED
    BY <1>2, <1>9, <2>1, <2>2
<1>10. Names \in Q
  <2> HIDE DEF Q
  <2> QED
    BY <1>f, <1>8, <1>9, SubsetInduction
<1>11. end \in T
  BY <1>6, <1>10
<1> QED
  BY <1>11 DEF T, end

\* The factory learns of an object.
LEMMA AddKnownOK ==
    ASSUME NEW u, NEW A, NEW s, OK(s, u, A), NEW k \in Keys, NEW i \in Ids
    PROVE  OK(AddKnown(s, k, i), u, A) /\ AddKnown(s, k, i).nodes = s.nodes
<1> DEFINE ks == [s.known EXCEPT ![k] = IF @ = NoNode THEN i ELSE @]
           t == AddKnown(s, k, i)
<1>s. s \in States
  BY DEF OK
<1>1. t = [s EXCEPT !.known[k] = IF @ = NoNode THEN i ELSE @]
  BY DEF AddKnown
<1> HIDE DEF t
<1>2. t = [nodes |-> s.nodes, known |-> ks] /\ s.nodes \in [Ids -> Node] /\ s.known \in [Keys -> IdOrNil]
  BY <1>s, <1>1 DEF States
<1>3. ks \in [Keys -> IdOrNil]
  BY <1>2 DEF IdOrNil
<1> HIDE DEF ks
<1>4. t \in States /\ t.nodes = s.nodes
  BY <1>2, <1>3 DEF States
<1> QED
  BY <1>4 DEF OK, t

\* The objects of a mount before the first lookup.
BlankNode(k) == [key |-> k, version |-> 0, mode |-> "unused", children |-> Nil,
                 inodes |-> Nil, shouldReload |-> FALSE]
BlankState   == [nodes |-> [i \in Ids |-> BlankNode(i[1])], known |-> [k \in Keys |-> NoNode]]

\* A mount before it has loaded anything.
LEMMA BlankStateOK ==
    ASSUME NEW u, NEW A
    PROVE  OK(BlankState, u, A) /\ \A i \in Ids : BlankState.nodes[i].inodes = Nil
<1> DEFINE ns == [i \in Ids |-> BlankNode(i[1])]
<1>1. ASSUME NEW i \in Ids
      PROVE  /\ ns[i] \in Node /\ ns[i].key = i[1] /\ ns[i].mode = "unused"
             /\ ns[i].children = Nil /\ ns[i].inodes = Nil
  BY Constants DEF BlankNode, Node, Ids
<1>2. ns \in [Ids -> Node]
  BY <1>1
<1>3. BlankState \in States /\ BlankState.nodes = ns
  BY <1>2 DEF BlankState, States, IdOrNil
<1> HIDE DEF ns
<1>4. ASSUME NEW i \in Ids, NEW x \in Names
      PROVE  ns[i].children[x] = NoNode /\ ns[i].inodes[x] = NoNode
  BY <1>1 DEF Nil
<1>5. Entries(ns, u)
  BY <1>4, Constants DEF Entries
<1>6. Blank(ns)
  BY <1>1 DEF Blank
<1>7. Inodes(ns) /\ Agree(ns, A)
  BY <1>4 DEF Inodes, Agree
<1> QED
  BY <1>1, <1>3, <1>5, <1>6, <1>7 DEF OK

\* The state of a mount that has started.
LEMMA StartedOK ==
    ASSUME StoreOK, NEW u, NEW A
    PROVE  OK(Started, u, A) /\ \A d \in Dirs : Loaded(Started.nodes[Root(d)])
<1> DEFINE T == {t \in States : OK(t, u, A) /\ \A j \in Ids : t.nodes[j].inodes = Nil}
           Step(t, d) == LoadMetadata(AddKnown(t, d, Root(d)), Root(d))
           F == [d \in Dirs |-> [t \in T |-> Step(t, d)]]
           Def(f) == [a \in SUBSET Dirs |-> IF a = {} THEN BlankState ELSE Step(f[Rest(a)], One(a))]
<1>f. IsFiniteSet(Dirs)
  BY DirAssumption
<1>1. BlankState \in T
  BY BlankStateOK DEF OK
<1>2. ASSUME NEW d \in Dirs, NEW t \in T
      PROVE  Step(t, d) \in T /\ Loaded(Step(t, d).nodes[Root(d)]) /\ Grown(Root(d), t, Step(t, d))
  <2> DEFINE i == Root(d)
             q == AddKnown(t, d, i)
             r == LoadMetadata(q, i)
  <2>1. d \in Keys /\ i \in Ids
    BY Constants DEF Keys
  <2> HIDE DEF i
  <2>2. OK(t, u, A) /\ \A j \in Ids : t.nodes[j].inodes = Nil
    OBVIOUS
  <2> HIDE DEF T
  <2>3. OK(q, u, A) /\ q.nodes = t.nodes
    BY <2>1, <2>2, AddKnownOK
  <2> HIDE DEF q
  <2>4. OK(q, u, A) /\ q.nodes[i].inodes = Nil
    BY <2>1, <2>2, <2>3
  <2>5. /\ OK(r, u, A) /\ Grown(i, q, r) /\ Loaded(r.nodes[i])
        /\ \A j \in Ids : r.nodes[j].inodes = q.nodes[j].inodes
    BY <2>1, <2>4, LoadMetadataOK
  <2>6. r = Step(t, d)
    BY DEF q, i
  <2> HIDE DEF r, Step
  <2>7. r \in T
    BY <2>2, <2>3, <2>5 DEF T, OK
  <2>8. Grown(i, t, r)
    BY <2>3, <2>5 DEF Grown
  <2> QED
    BY <2>5, <2>6, <2>7, <2>8 DEF i
<1>6. Started = (CHOOSE h : h = Def(h))[Dirs]
  BY DEF Started, FoldSet, MapThenFoldSet, One, Rest, BlankState, BlankNode
<1> HIDE DEF T, Step
<1>3. F \in [Dirs -> [T -> T]] /\ \A d \in Dirs, t \in T : F[d][t] = Step(t, d)
  BY <1>2
<1> HIDE DEF F
<1>4. PICK g \in [SUBSET Dirs -> T] : FoldsBy(Dirs, BlankState, F, g)
  BY <1>f, <1>1, <1>3, FoldExists
<1>5. g = Def(g)
  <2>1. ASSUME NEW a \in SUBSET Dirs PROVE g[a] = Def(g)[a]
    <3>1. CASE a = {}
      BY <1>4, <3>1 DEF FoldsBy
    <3>2. CASE a # {}
      <4>1. One(a) \in Dirs /\ g[Rest(a)] \in T
        BY <1>f, <3>2, RestSmaller
      <4> QED
        BY <1>3, <1>4, <3>2, <4>1 DEF FoldsBy
    <3> QED
      BY <3>1, <3>2
  <2> QED
    BY <2>1
<1> DEFINE f == CHOOSE h : h = Def(h)
<1>7. f = Def(f)
  <2> HIDE DEF Def
  <2> QED
    BY <1>5
<1>s. Started = f[Dirs]
  BY <1>6
<1> HIDE DEF f
<1> DEFINE Q == {a \in SUBSET Dirs : f[a] \in T /\ \A d \in a : Loaded(f[a].nodes[Root(d)])}
<1>8. {} \in Q
  BY <1>1, <1>7
<1>9. ASSUME NEW a \in SUBSET Dirs, a # {}, Rest(a) \in Q PROVE a \in Q
  <2> DEFINE r == f[Rest(a)]
             e == One(a)
  <2>1. f[a] = Step(r, e)
    BY <1>7, <1>9
  <2>2. e \in Dirs /\ r \in T /\ \A d \in Rest(a) : Loaded(r.nodes[Root(d)])
    BY <1>f, <1>9, RestSmaller
  <2> HIDE DEF r, e
  <2>3. f[a] \in T /\ Loaded(f[a].nodes[Root(e)]) /\ Grown(Root(e), r, f[a])
    BY <1>2, <2>1, <2>2
  <2>4. ASSUME NEW d \in a PROVE Loaded(f[a].nodes[Root(d)])
    <3>1. d = e \/ d \in Rest(a)
      BY DEF e, Rest
    <3>2. Root(d) \in Ids
      BY Constants
    <3> QED
      BY <2>2, <2>3, <3>1, <3>2 DEF Grown
  <2> QED
    BY <2>3, <2>4
<1>10. Dirs \in Q
  <2> HIDE DEF Q
  <2> QED
    BY <1>f, <1>8, <1>9, SubsetInduction
<1> QED
  BY <1>s, <1>10 DEF T

\* Recursion over 0..n by one and the same step.
Repeats(n, base, F, g) == g[0] = base /\ \A i \in 1..n : g[i] = F[g[i - 1]]

--------------------------------------------------------------------------------
(* The nodes that are reached in go-fuse's tree. *)

\* What the closure of a set is after any number of steps.
LEMMA Repeated ==
    ASSUME NEW n \in Nat, NEW S, NEW base \in S, NEW F \in [S -> S]
    PROVE  \E g \in [0..n -> S] : Repeats(n, base, F, g)
<1> USE DEF Repeats
<1> DEFINE Steps(k, g) == g[0] = base /\ \A i \in 1..k : g[i] = F[g[i - 1]]
           T == {k \in Nat : \E g \in [0..k -> S] : Steps(k, g)}
<1>1. 0 \in T
  <2>1. [i \in 0..0 |-> base] \in [0..0 -> S] /\ Steps(0, [i \in 0..0 |-> base])
    OBVIOUS
  <2> QED
    BY <2>1
<1>2. ASSUME NEW k \in Nat, k \in T PROVE k + 1 \in T
  <2> SUFFICES \E h \in [0..(k + 1) -> S] : Steps(k + 1, h)
    OBVIOUS
  <2>1. PICK g \in [0..k -> S] : Steps(k, g)
    BY <1>2
  <2>2. F[g[k]] \in S
    OBVIOUS
  <2> DEFINE h == [i \in 0..(k + 1) |-> IF i = k + 1 THEN F[g[k]] ELSE g[i]]
  <2>3. h \in [0..(k + 1) -> S]
    BY <2>2
  <2>4. ASSUME NEW i \in 1..(k + 1) PROVE h[i] = F[h[i - 1]]
    <3>1. CASE i = k + 1
      <4>1. h[k] = g[k] /\ h[k + 1] = F[g[k]]
        OBVIOUS
      <4> QED
        BY <3>1, <4>1
    <3>2. CASE i # k + 1
      <4>1. i \in 1..k /\ i - 1 \in 0..k
        BY <3>2
      <4>2. h[i] = g[i] /\ h[i - 1] = g[i - 1]
        BY <4>1
      <4> QED
        BY <2>1, <4>1, <4>2
    <3> QED
      BY <3>1, <3>2
  <2>5. h[0] = base
    BY <2>1
  <2> QED
    BY <2>3, <2>4, <2>5
<1>3. n \in T
  <2> HIDE DEF T
  <2> QED
    BY <1>1, <1>2, Induction
<1> QED
  BY <1>3

\* What is below loaded nodes of go-fuse's tree is loaded.
LEMMA BelowLoaded ==
    ASSUME NEW s \in States, Inodes(s.nodes), NEW start \in SUBSET Ids,
           \A i \in start : Loaded(s.nodes[i])
    PROVE  \A i \in Below(s, start) : i \in Ids /\ Loaded(s.nodes[i])
<1> DEFINE n == Cardinality(Fresh)
           L == {i \in Ids : Loaded(s.nodes[i])}
           Succ(i) == {s.nodes[i].inodes[x] : x \in Names} \ {NoNode}
           S == SUBSET L
           More(a) == a \cup UNION {Succ(e) : e \in a}
           F == [a \in S |-> More(a)]
           Def(h) == [k \in 0..n |-> IF k = 0 THEN start ELSE h[k - 1] \cup UNION {Succ(e) : e \in h[k - 1]}]
           f == CHOOSE h : h = Def(h)
<1>n. n \in Nat
  BY DirAssumption, FS_CardinalityType
<1>1. Below(s, start) = f[n]
  BY DEF Below, Closure
<1>2. start \in S
  OBVIOUS
<1>3. ASSUME NEW a \in S PROVE More(a) \in S
  <2>1. ASSUME NEW e \in a, NEW c \in Succ(e) PROVE c \in L
    <3>1. PICK x \in Names : c = s.nodes[e].inodes[x] /\ c # NoNode
      OBVIOUS
    <3>2. e \in Ids
      OBVIOUS
    <3>3. c \in Ids
      BY <3>1, <3>2, NodeFields DEF IdOrNil
    <3>4. Loaded(s.nodes[c])
      BY <3>1, <3>2 DEF Inodes
    <3> QED
      BY <3>3, <3>4
  <2> HIDE DEF L, Succ
  <2> QED
    BY <2>1
<1> HIDE DEF n, S, Succ
<1>4. F \in [S -> S]
  BY <1>3
<1>e. \E g \in [0..n -> S] : Repeats(n, start, F, g)
  <2>1. n \in Nat /\ start \in S /\ F \in [S -> S]
    BY <1>n, <1>2, <1>4
  <2> HIDE DEF F
  <2> QED
    BY <2>1, Repeated
<1>5. PICK g \in [0..n -> S] : g[0] = start /\ \A i \in 1..n : g[i] = F[g[i - 1]]
  BY <1>e DEF Repeats
<1>6. g = Def(g)
  <2>1. ASSUME NEW k \in 0..n PROVE g[k] = Def(g)[k]
    <3>1. CASE k = 0
      BY <1>5, <3>1
    <3>2. CASE k # 0
      <4>1. k \in 1..n /\ k - 1 \in 0..n
        BY <1>n, <3>2
      <4>2. g[k] = More(g[k - 1])
        BY <1>5, <4>1
      <4> QED
        BY <3>2, <4>2
    <3> QED
      BY <3>1, <3>2
  <2>2. g = [k \in 0..n |-> g[k]]
    OBVIOUS
  <2> QED
    BY <2>1, <2>2
<1>7. f = Def(f)
  <2> HIDE DEF Def
  <2> QED
    BY <1>6
<1> HIDE DEF f
<1> DEFINE T == {k \in Nat : k <= n => f[k] \in S}
<1>8. 0 \in T
  BY <1>n, <1>2, <1>7
<1>9. ASSUME NEW k \in Nat, k \in T PROVE k + 1 \in T
  <2> SUFFICES ASSUME k + 1 <= n PROVE f[k + 1] \in S
    OBVIOUS
  <2>1. k + 1 \in 0..n /\ k + 1 # 0 /\ k + 1 - 1 = k /\ f[k] \in S
    BY <1>n, <1>9
  <2>2. f[k + 1] = Def(f)[k + 1]
    <3> HIDE DEF Def
    <3> QED
      BY <1>7
  <2>3. Def(f)[k + 1] = More(f[k + 1 - 1])
    BY <2>1
  <2> QED
    BY <1>3, <2>1, <2>2, <2>3
<1>10. Nat \subseteq T
  <2> HIDE DEF T
  <2> QED
    BY <1>8, <1>9, Induction
<1>11. f[n] \in S
  BY <1>n, <1>10
<1> QED
  BY <1>1, <1>11 DEF S

--------------------------------------------------------------------------------
(* The inductive invariant. *)

\* What an entry may be set to: an object that is in use and stored, or is v.
Listable(ns, v, j, y, c) ==
    c # NoNode => c \in Ids /\ ns[c].mode # "unused" /\ (Stored(ns[c].key) \/ v = <<j, y, c>>)

\* A call changes entries of loaded objects, and no key.
Changes(ns, new, v) ==
    \A j \in Ids :
        /\ new[j].key = ns[j].key
        /\ new[j].mode = ns[j].mode \/ Loaded(new[j])
        /\ Loaded(new[j]) \/ (new[j].children = ns[j].children /\ new[j].inodes = ns[j].inodes)
        /\ Loaded(ns[j]) => Loaded(new[j])
        /\ \A y \in Names :
            /\ \/ new[j].children[y] = ns[j].children[y]
               \/ Listable(new, v, j, y, new[j].children[y])
            /\ \/ new[j].inodes[y] = ns[j].inodes[y]
               \/ /\ Listable(new, v, j, y, new[j].inodes[y])
                  /\ new[j].inodes[y] # NoNode => Loaded(new[new[j].inodes[y]])

\* The entry that was not stored is the same one, or is gone.
Gone(ns, u, v) ==
    u = v \/ \A j \in Ids, y \in Names, c \in Ids :
                u = <<j, y, c>> => ns[j].children[y] # c /\ ns[j].inodes[y] # c

\* A call that only sets entries, to what may be listed, keeps the invariant.
LEMMA Changed ==
    ASSUME NEW u, NEW A, NEW s, OK(s, u, A), NEW v, NEW B, NEW t \in States,
           Changes(s.nodes, t.nodes, v), Gone(t.nodes, u, v), Agree(t.nodes, B)
    PROVE  OK(t, v, B)
<1>s. s \in States
  BY DEF OK
<1>1. ASSUME NEW j \in Ids, s.nodes[j].mode # "unused" PROVE t.nodes[j].mode # "unused"
  BY <1>1 DEF Changes, Loaded
<1>2. ASSUME NEW j \in Ids PROVE t.nodes[j].key = s.nodes[j].key /\ (Loaded(s.nodes[j]) => Loaded(t.nodes[j]))
  BY Zenon DEF Changes
<1>3. Entries(t.nodes, v)
  <2> SUFFICES ASSUME NEW j \in Ids, NEW y \in Names, NEW c \in Ids,
                      t.nodes[j].children[y] = c \/ t.nodes[j].inodes[y] = c
               PROVE  t.nodes[c].mode # "unused" /\ (Stored(t.nodes[c].key) \/ v = <<j, y, c>>)
    BY Zenon DEF Entries
  <2>1. c # NoNode
    BY Constants
  <2>2. CASE Listable(t.nodes, v, j, y, c)
    BY <2>1, <2>2 DEF Listable
  <2>3. CASE ~Listable(t.nodes, v, j, y, c)
    <3>1. s.nodes[j].children[y] = c \/ s.nodes[j].inodes[y] = c
      BY <2>3, Zenon DEF Changes
    <3>2. s.nodes[c].mode # "unused" /\ (Stored(s.nodes[c].key) \/ u = <<j, y, c>>)
      BY <3>1, Zenon DEF OK, Entries
    <3>3. u = <<j, y, c>> => v = <<j, y, c>>
      BY Zenon DEF Gone
    <3> QED
      BY <1>1, <1>2, <3>2, <3>3
  <2> QED
    BY <2>2, <2>3
<1>4. Blank(t.nodes)
  <2> SUFFICES ASSUME NEW j \in Ids
               PROVE  /\ t.nodes[j].mode = "unused" => t.nodes[j].key = j[1]
                      /\ ~Loaded(t.nodes[j]) => t.nodes[j].children = Nil /\ t.nodes[j].inodes = Nil
    BY Zenon DEF Blank
  <2>1. /\ s.nodes[j].mode = "unused" => s.nodes[j].key = j[1]
        /\ ~Loaded(s.nodes[j]) => s.nodes[j].children = Nil /\ s.nodes[j].inodes = Nil
    BY Zenon DEF OK, Blank
  <2> QED
    BY <1>1, <1>2, <2>1 DEF Changes
<1>5. Inodes(t.nodes)
  <2> SUFFICES ASSUME NEW j \in Ids, NEW y \in Names, t.nodes[j].inodes[y] # NoNode
               PROVE  Loaded(t.nodes[t.nodes[j].inodes[y]])
    BY Zenon DEF Inodes
  <2>1. CASE t.nodes[j].inodes[y] = s.nodes[j].inodes[y]
    <3>1. s.nodes[j].inodes[y] \in Ids
      BY <1>s, <2>1, NodeFields DEF IdOrNil
    <3>2. Loaded(s.nodes[s.nodes[j].inodes[y]])
      BY <2>1, Zenon DEF OK, Inodes
    <3> QED
      BY <1>2, <2>1, <3>1, <3>2
  <2>2. CASE t.nodes[j].inodes[y] # s.nodes[j].inodes[y]
    BY <2>2, Zenon DEF Changes
  <2> QED
    BY <2>1, <2>2
<1> QED
  BY <1>3, <1>4, <1>5 DEF OK

\* What is stored stays stored, and what was not yet is now.
LEMMA StoreGrows ==
    ASSUME NEW u, NEW A, NEW s, OK(s, u, A), NEW v, NEW B, A \subseteq B,
           \A k \in Keys : Stored(k) => Stored(k)',
           \A j \in Ids, y \in Names, c \in Ids : u = <<j, y, c>> => v = u \/ Stored(s.nodes[c].key)'
    PROVE  OK(s, v, B)'
<1>s. s \in States
  BY DEF OK
<1>1. Entries(s.nodes, v)'
  <2> SUFFICES ASSUME NEW j \in Ids, NEW y \in Names, NEW c \in Ids,
                      s.nodes[j].children[y] = c \/ s.nodes[j].inodes[y] = c
               PROVE  s.nodes[c].mode # "unused" /\ (Stored(s.nodes[c].key)' \/ v = <<j, y, c>>)
    BY Zenon DEF Entries
  <2>1. s.nodes[c].mode # "unused" /\ (Stored(s.nodes[c].key) \/ u = <<j, y, c>>)
    BY Zenon DEF OK, Entries
  <2>2. s.nodes[c].key \in Keys
    BY <1>s, NodeFields
  <2> QED
    BY <2>1, <2>2
<1>2. Agree(s.nodes, B)'
  <2> SUFFICES ASSUME NEW j \in Ids, NEW y \in Names
               PROVE  <<j, y>> \in B \/ s.nodes[j].inodes[y] \in {NoNode, s.nodes[j].children[y]}
    BY Zenon DEF Agree
  <2>1. <<j, y>> \in A \/ s.nodes[j].inodes[y] \in {NoNode, s.nodes[j].children[y]}
    BY Zenon DEF OK, Agree
  <2> QED
    BY <2>1
<1>3. (Blank(s.nodes) /\ Inodes(s.nodes))'
  BY DEF OK, Blank, Inodes
<1> QED
  BY <1>s, <1>1, <1>2, <1>3 DEF OK

\* The entry of a call that is not stored yet: a new node is the first one to
\* be saved.
Unsaved(c) == IF c.kind \in Creating /\ Len(c.saves) = 2 THEN <<c.dir, c.name, c.child>> ELSE <<>>

\* The entries that a call has changed in Children, of which go-fuse is told
\* at its end.  After a Rename that failed, any entry may differ.
Changing(c) ==
    IF c.saves = <<>> \/ c.kind = "Setattr" THEN {}
    ELSE IF c.kind = "Rename" THEN {<<c.dir, c.name>>, <<c.to, c.newName>>}
    ELSE {<<c.dir, c.name>>}
Excepted(c) == IF halfway THEN Ids \X Names ELSE Changing(c)

Has(ns, i) == i \in Ids /\ Loaded(ns[i])

\* What a call has done when it saves: its rollback and go-fuse's part at its
\* end rest on this, however other mounts and reloads come in between.
CreateOK(ns, c) ==
    /\ Has(ns, c.child) /\ c.child[1] \in drawn
    /\ \/ c.saves = <<c.child, c.dir>>
       \/ c.saves = <<c.dir>> /\ Stored(ns[c.child].key)
    /\ ns[c.dir].children[c.name] = c.child
RemoveOK(ns, c) ==
    /\ c.saves = <<c.dir>>
    /\ c.child # NoNode => c.child \in Ids /\ ns[c.child].mode # "unused" /\ Stored(ns[c.child].key)
    /\ ns[c.dir].children[c.name] = NoNode
    /\ halfway \/ ns[c.dir].inodes[c.name] \in {NoNode, c.child}
RenameOK(ns, c) ==
    /\ Has(ns, c.child) /\ Stored(ns[c.child].key)
    /\ \A n \in 1..Len(c.saves) : c.saves[n] \in {c.dir, c.to, c.child}
    /\ ns[c.to].children[c.newName] = c.child
    /\ ns[c.dir].children[c.name] = NoNode
CallOK(ns, c) ==
    /\ c.kind # "none" => Has(ns, c.dir)
    /\ c.kind = "none" => c.saves = <<>>
    /\ c.kind = "Rename" => Has(ns, c.to) /\ (c.dir # c.to \/ c.name # c.newName)
    /\ c.kind = "Setattr" => c.saves = <<c.dir>>
    /\ c.saves # <<>> =>
        /\ c.kind \in Creating => CreateOK(ns, c)
        /\ c.kind \in Removing => RemoveOK(ns, c)
        /\ c.kind = "Rename" => RenameOK(ns, c)

\* The first directories are loaded.
Roots(ns) == \A d \in Dirs : Loaded(ns[Root(d)])

MountOK(m) ==
    /\ OK(State(m), Unsaved(call[m]), Excepted(call[m]))
    /\ Roots(nodes[m])
    /\ CallOK(nodes[m], call[m])

\* The inductive invariant.
Inv == TypeOK /\ NoDanglingEntry /\ \A m \in Mounts : MountOK(m)

\* What a step of another mount leaves of a mount.
Apart(m) ==
    /\ \A k \in Mounts \ {m} : nodes'[k] = nodes[k] /\ known'[k] = known[k] /\ call'[k] = call[k]
    /\ \A k \in Keys : Stored(k) => Stored(k)'
    /\ drawn \subseteq drawn' /\ (halfway => halfway')

\* What a call relies on outlasts a change of the store by others.
LEMMA CallKept ==
    ASSUME NEW ns \in [Ids -> Node], NEW c \in Call, CallOK(ns, c),
           \A k \in Keys : Stored(k) => Stored(k)',
           drawn \subseteq drawn', halfway => halfway'
    PROVE  CallOK(ns, c)'
<1>1. ASSUME NEW i \in Ids, Stored(ns[i].key) PROVE Stored(ns[i].key)'
  BY <1>1 DEF Node
<1>2. CreateOK(ns, c) => CreateOK(ns, c)'
  <2> SUFFICES ASSUME CreateOK(ns, c) PROVE CreateOK(ns, c)'
    OBVIOUS
  <2>1. c.child \in Ids
    BY DEF CreateOK, Has
  <2> QED
    BY <1>1, <2>1, Zenon DEF CreateOK, Has, Loaded
<1>3. RemoveOK(ns, c) => RemoveOK(ns, c)'
  BY <1>1, Zenon DEF RemoveOK
<1>4. RenameOK(ns, c) => RenameOK(ns, c)'
  <2> SUFFICES ASSUME RenameOK(ns, c) PROVE RenameOK(ns, c)'
    OBVIOUS
  <2>1. c.child \in Ids
    BY DEF RenameOK, Has
  <2> QED
    BY <1>1, <2>1, Zenon DEF RenameOK, Has, Loaded
<1> QED
  BY <1>2, <1>3, <1>4, Zenon DEF CallOK, Has, Loaded

\* The entries of a call are entries of directories.
LEMMA ChangingTyped ==
    ASSUME NEW ns, NEW c \in Call, CallOK(ns, c)
    PROVE  Changing(c) \subseteq Ids \X Names
<1>1. CASE c.saves = <<>> \/ c.kind = "Setattr"
  BY <1>1 DEF Changing
<1>2. CASE ~(c.saves = <<>> \/ c.kind = "Setattr")
  <2>1. c.kind # "none" /\ c.dir \in Ids /\ (c.kind = "Rename" => c.to \in Ids)
    BY <1>2 DEF CallOK, Has
  <2>2. c.name \in Names /\ c.newName \in Names
    BY DEF Call
  <2> QED
    BY <1>2, <2>1, <2>2 DEF Changing
<1> QED
  BY <1>1, <1>2

\* A step of one mount does not disturb another.
LEMMA OthersOK ==
    ASSUME Inv, NEW m \in Mounts, Apart(m), NEW k \in Mounts, k # m
    PROVE  MountOK(k)'
<1>0. PICK s, ns, c : s = State(k) /\ ns = nodes[k] /\ c = call[k]
  OBVIOUS
<1>1. State(k)' = s /\ nodes'[k] = ns /\ call'[k] = c
  BY <1>0 DEF Apart, State
<1>2. PICK A : A = Excepted(c)
  OBVIOUS
<1>3. OK(s, Unsaved(c), A) /\ Roots(ns) /\ CallOK(ns, c)
  BY <1>0, <1>2 DEF Inv, MountOK
<1>4. c \in Call /\ ns \in [Ids -> Node]
  BY <1>0 DEF Inv, TypeOK
<1>5. PICK B : B = Excepted(c)'
  OBVIOUS
<1>6. A \subseteq B
  <2>1. Changing(c) \subseteq Ids \X Names
    BY <1>3, <1>4, ChangingTyped
  <2> QED
    BY <1>2, <1>5, <2>1 DEF Excepted, Apart
<1>7. OK(s, Unsaved(c), B)'
  <2>1. \A j \in Keys : Stored(j) => Stored(j)'
    BY DEF Apart
  <2> QED
    BY <1>3, <1>6, <2>1, StoreGrows
<1>8. CallOK(ns, c)'
  BY <1>3, <1>4, CallKept DEF Apart
<1> QED
  BY <1>1, <1>3, <1>5, <1>7, <1>8 DEF MountOK, Roots

\* The invariant after a step of mount m.
LEMMA InvStep ==
    ASSUME Inv, NEW m \in Mounts, Apart(m), TypeOK', NoDanglingEntry', MountOK(m)'
    PROVE  Inv'
<1>1. ASSUME NEW k \in Mounts PROVE MountOK(k)'
  BY OthersOK
<1> QED
  BY <1>1 DEF Inv

\* What loading needs of the store.
LEMMA StoreFacts == ASSUME Inv PROVE StoreOK
BY DEF Inv, TypeOK, StoreOK

\* Between calls.
Always == IF halfway THEN Ids \X Names ELSE {}

\* The parts of the invariant of one mount.
LEMMA IdleMount ==
    ASSUME Inv, NEW m \in Mounts
    PROVE  /\ State(m) \in States /\ call[m] \in Call
           /\ nodes[m] \in [Ids -> Node] /\ known[m] \in [Keys -> IdOrNil]
           /\ Roots(nodes[m]) /\ CallOK(nodes[m], call[m])
           /\ ~Saving(m) => OK(State(m), <<>>, Always)
<1>1. MountOK(m) /\ nodes[m] \in [Ids -> Node] /\ known[m] \in [Keys -> IdOrNil] /\ call[m] \in Call
  BY DEF Inv, TypeOK
<1>2. State(m) \in States
  BY <1>1 DEF State, States
<1>3. ASSUME ~Saving(m) PROVE Unsaved(call[m]) = <<>> /\ Excepted(call[m]) = Always
  <2>1. call[m].saves = <<>>
    BY <1>3 DEF Saving
  <2>2. Len(<<>>) = 0
    OBVIOUS
  <2> QED
    BY <2>1, <2>2 DEF Unsaved, Excepted, Changing, Always
<1> QED
  BY <1>1, <1>2, <1>3 DEF MountOK

\* Every node of go-fuse's tree is loaded.
LEMMA TreeLoaded ==
    ASSUME Inv, NEW m \in Mounts, NEW i \in Tree(m)
    PROVE  i \in Ids /\ Loaded(nodes[m][i])
<1> DEFINE s == State(m)
           start == {Root(d) : d \in Dirs}
<1>1. MountOK(m)
  BY DEF Inv
<1>2. s.nodes = nodes[m]
  BY DEF State
<1>3. s \in States /\ Inodes(s.nodes)
  BY <1>1 DEF MountOK, OK
<1>4. start \in SUBSET Ids /\ \A j \in start : Loaded(s.nodes[j])
  BY <1>1, <1>2, Constants DEF MountOK, Roots
<1>5. i \in Below(s, start)
  BY DEF Tree
<1> HIDE DEF s, start
<1>6. \A j \in Below(s, start) : j \in Ids /\ Loaded(s.nodes[j])
  BY <1>3, <1>4, BelowLoaded
<1> QED
  BY <1>2, <1>5, <1>6

\* The fields of no call.
LEMMA NoCallFields ==
    /\ NoCall \in Call /\ NoName \in Names
    /\ NoCall.kind = "none" /\ NoCall.saves = <<>> /\ Unsaved(NoCall) = <<>>
    /\ NoCall.dir = NoNode /\ NoCall.to = NoNode /\ NoCall.child = NoNode
    /\ NoCall.name = NoName /\ NoCall.newName = NoName /\ NoCall.victim = NoKey
    /\ Excepted(NoCall) = Always
<1>1. NoName \in Names
  BY DirAssumption DEF NoName
<1>2. NoCall.kind = "none" /\ NoCall.saves = <<>>
  BY DEF NoCall
<1>3. NoCall \in Call
  BY <1>1 DEF NoCall, Call, Creating, Removing, IdOrNil
<1>4. Unsaved(NoCall) = <<>>
  BY <1>2 DEF Unsaved, Creating
<1>5. Excepted(NoCall) = Always
  BY <1>2 DEF Excepted, Changing, Always
<1> QED
  BY <1>1, <1>2, <1>3, <1>4, <1>5 DEF NoCall

\* A lookup, after which the call is made.
LEMMA BeginOK ==
    ASSUME Inv, NEW m \in Mounts, NEW s, NEW c \in Call, Begin(m, s, c),
           OK(s, <<>>, Always), Roots(s.nodes), CallOK(s.nodes, c),
           c.saves = <<>> \/ c.kind = "Setattr"
    PROVE  Inv'
<1>s. s \in States
  BY DEF OK
<1>u. /\ Idle(m) /\ calls < MaxCalls /\ nodes' = [nodes EXCEPT ![m] = s.nodes]
      /\ known' = [known EXCEPT ![m] = s.known] /\ call' = [call EXCEPT ![m] = c]
      /\ calls' = calls + 1 /\ UNCHANGED <<store, pending, drawn, alive, halfway>>
  BY DEF Begin, Update
<1>t. TypeOK /\ NoDanglingEntry
  BY DEF Inv
<1>1. s.nodes \in [Ids -> Node] /\ s.known \in [Keys -> IdOrNil]
  BY <1>s DEF States
<1>2. TypeOK'
  <2>1. calls + 1 \in 0..MaxCalls
    BY <1>u, <1>t, DirAssumption DEF TypeOK
  <2>2. nodes' \in [Mounts -> [Ids -> Node]] /\ known' \in [Mounts -> [Keys -> IdOrNil]] /\ call' \in [Mounts -> Call]
    BY <1>u, <1>t, <1>1 DEF TypeOK
  <2> QED
    BY <1>u, <1>t, <2>1, <2>2 DEF TypeOK
<1>3. NoDanglingEntry'
  BY <1>u, <1>t DEF NoDanglingEntry
<1>4. nodes'[m] = s.nodes /\ known'[m] = s.known /\ call'[m] = c
  BY <1>u, <1>t DEF TypeOK
<1>5. Apart(m)
  BY <1>u, <1>t DEF Apart, TypeOK, Stored
<1>6. MountOK(m)'
  <2>1. State(m)' = s
    BY <1>s, <1>4 DEF State, States
  <2>2. Unsaved(c) = <<>>
    BY DEF Unsaved, Creating
  <2>3. PICK A : A = Always
    OBVIOUS
  <2>4. Excepted(c)' = A
    BY <1>u, <2>3 DEF Excepted, Changing, Always
  <2>5. OK(s, Unsaved(c), A)'
    BY <1>5, <2>2, <2>3, StoreGrows DEF Apart
  <2>6. CallOK(s.nodes, c)'
    <3> DEFINE ns == s.nodes
    <3>1. ns \in [Ids -> Node] /\ CallOK(ns, c)
      BY <1>1
    <3> HIDE DEF ns
    <3>2. CallOK(ns, c)'
      BY <1>5, <3>1, CallKept DEF Apart
    <3> QED
      BY <3>2 DEF ns
  <2> QED
    BY <1>4, <2>1, <2>4, <2>5, <2>6 DEF MountOK, Roots
<1> QED
  BY <1>2, <1>3, <1>5, <1>6, InvStep

\* The first directories stay loaded.
LEMMA RootsGrown ==
    ASSUME NEW s, NEW t, NEW j, Grown(j, s, t), Roots(s.nodes)
    PROVE  Roots(t.nodes)
BY Constants DEF Grown, Roots

\* A lookup in a directory of the tree.
LEMMA LookedUp ==
    ASSUME Inv, NEW m \in Mounts, Idle(m), NEW i \in TreeDirs(m), NEW x \in Names
    PROVE  LET s == Lookup(State(m), i, x) IN
           /\ i \in Ids /\ OK(s, <<>>, Always) /\ Roots(s.nodes)
           /\ Grown(i, State(m), s) /\ Loaded(s.nodes[i])
<1> DEFINE r == State(m)
           s == Lookup(r, i, x)
<1>1. i \in Ids /\ Loaded(nodes[m][i])
  BY TreeLoaded DEF TreeDirs
<1>2. ~Saving(m)
  BY IdleMount DEF Idle, CallOK, Saving
<1>3. OK(r, <<>>, Always) /\ Roots(r.nodes) /\ r.nodes = nodes[m]
  BY <1>2, IdleMount DEF State
<1> HIDE DEF r
<1>4. OK(s, <<>>, Always) /\ Grown(i, r, s)
  BY <1>1, <1>3, LookupOK, StoreFacts
<1> HIDE DEF s
<1>5. Roots(s.nodes) /\ Loaded(s.nodes[i])
  BY <1>1, <1>3, <1>4, RootsGrown, ZenonT(60) DEF Grown
<1> QED
  BY <1>1, <1>4, <1>5 DEF s, r

--------------------------------------------------------------------------------
(* The steps that look up and reload. *)

\* The lookup before Create, Mkdir and Symlink.
LEMMA LookupForCreateOK ==
    ASSUME Inv, NEW m \in Mounts, NEW i \in TreeDirs(m), NEW x \in Names, NEW kind \in Creating,
           LookupForCreate(m, kind, i, x)
    PROVE  Inv'
<1> DEFINE s == Lookup(State(m), i, x)
           c == [NoCall EXCEPT !.kind = kind, !.dir = i, !.name = x]
<1>1. Begin(m, s, c)
  BY DEF LookupForCreate
<1>2. Idle(m)
  BY <1>1 DEF Begin
<1>3. i \in Ids /\ OK(s, <<>>, Always) /\ Roots(s.nodes) /\ Loaded(s.nodes[i])
  BY <1>2, LookedUp
<1>4. /\ c \in Call /\ c.kind = kind /\ c.dir = i /\ c.saves = <<>>
  BY <1>3, NoCallFields DEF Call, Creating, IdOrNil
<1> HIDE DEF s, c
<1>5. CallOK(s.nodes, c)
  BY <1>3, <1>4 DEF CallOK, Has, Creating
<1> QED
  BY <1>1, <1>3, <1>4, <1>5, BeginOK

\* The lookup before Unlink and Rmdir.
LEMMA LookupForRemoveOK ==
    ASSUME Inv, NEW m \in Mounts, NEW i \in TreeDirs(m), NEW x \in Names, NEW kind \in Removing,
           LookupForRemove(m, kind, i, x)
    PROVE  Inv'
<1> DEFINE s == Lookup(State(m), i, x)
           d == s.nodes[i].inodes[x]
           k == s.nodes[d].key
           c == [NoCall EXCEPT !.kind = kind, !.dir = i, !.name = x, !.victim = k]
<1>1. Begin(m, s, c) /\ d # NoNode
  BY DEF LookupForRemove
<1>2. Idle(m)
  BY <1>1 DEF Begin
<1>3. i \in Ids /\ OK(s, <<>>, Always) /\ Roots(s.nodes) /\ Loaded(s.nodes[i])
  BY <1>2, LookedUp
<1> HIDE DEF s
<1>4. s \in States
  BY <1>3 DEF OK
<1>5. d \in Ids
  BY <1>1, <1>3, <1>4, NodeFields DEF IdOrNil
<1> HIDE DEF d
<1>6. k \in Keys
  BY <1>4, <1>5, NodeFields
<1> HIDE DEF k
<1>7. /\ c \in Call /\ c.kind = kind /\ c.dir = i /\ c.saves = <<>>
  BY <1>3, <1>6, NoCallFields DEF Call, Removing, IdOrNil
<1> HIDE DEF c
<1>8. CallOK(s.nodes, c)
  BY <1>3, <1>7 DEF CallOK, Has, Removing
<1> QED
  BY <1>1, <1>3, <1>7, <1>8, BeginOK

\* The two lookups before Rename.
LEMMA LookupForRenameOK ==
    ASSUME Inv, NEW m \in Mounts, NEW i \in TreeDirs(m), NEW x \in Names,
           NEW j \in TreeDirs(m), NEW y \in Names, LookupForRename(m, i, x, j, y)
    PROVE  Inv'
<1> DEFINE r == Lookup(State(m), i, x)
           s == Lookup(r, j, y)
           d == s.nodes[i].inodes[x]
           old == s.nodes[j].inodes[y]
           k == IF old = NoNode THEN NoKey ELSE s.nodes[old].key
           c == [NoCall EXCEPT !.kind = "Rename", !.dir = i, !.name = x,
                               !.to = j, !.newName = y, !.victim = k]
<1>1. Begin(m, s, c) /\ d # old
  BY DEF LookupForRename
<1>2. Idle(m)
  BY <1>1 DEF Begin
<1>3. i \in Ids /\ OK(r, <<>>, Always) /\ Roots(r.nodes) /\ Loaded(r.nodes[i]) /\ Grown(i, State(m), r)
  BY <1>2, LookedUp
<1>4. j \in Ids /\ Loaded(State(m).nodes[j])
  BY TreeLoaded DEF TreeDirs, State
<1> HIDE DEF r
<1>5. Loaded(r.nodes[j])
  BY <1>3, <1>4 DEF Grown
<1>6. OK(s, <<>>, Always) /\ Grown(j, r, s)
  BY <1>3, <1>4, LookupOK, StoreFacts
<1> HIDE DEF s
<1>7. Roots(s.nodes) /\ Loaded(s.nodes[i]) /\ Loaded(s.nodes[j]) /\ s \in States
  <2>1. Roots(s.nodes)
    BY <1>3, <1>6, RootsGrown
  <2>2. Loaded(s.nodes[i]) /\ Loaded(s.nodes[j])
    BY <1>3, <1>4, <1>5, <1>6 DEF Grown
  <2> QED
    BY <1>6, <2>1, <2>2 DEF OK
<1>8. k \in Keys \cup {NoKey}
  <2>1. old \in IdOrNil
    BY <1>4, <1>7, NodeFields
  <2> HIDE DEF old
  <2> QED
    BY <1>7, <2>1, NodeFields DEF IdOrNil
<1>9. i # j \/ x # y
  BY <1>1
<1> HIDE DEF k
<1>10. /\ c \in Call /\ c.kind = "Rename" /\ c.dir = i /\ c.saves = <<>> /\ c.to = j
       /\ c.name = x /\ c.newName = y
  BY <1>3, <1>4, <1>8, NoCallFields DEF Call, IdOrNil
<1> HIDE DEF c
<1>11. CallOK(s.nodes, c)
  BY <1>3, <1>4, <1>7, <1>9, <1>10 DEF CallOK, Has
<1> QED
  BY <1>1, <1>6, <1>7, <1>10, <1>11, BeginOK

\* Setattr starts to save a node.
LEMMA SetattrOK ==
    ASSUME Inv, NEW m \in Mounts, NEW i \in Tree(m), Setattr(m, i)
    PROVE  Inv'
<1> DEFINE s == State(m)
           w == <<i>>
           c == [NoCall EXCEPT !.kind = "Setattr", !.dir = i, !.saves = w]
<1>1. Begin(m, s, c)
  BY DEF Setattr
<1>2. ~Saving(m)
  BY <1>1, IdleMount DEF Begin, Idle, CallOK, Saving
<1>3. OK(s, <<>>, Always) /\ Roots(s.nodes) /\ s.nodes = nodes[m]
  BY <1>2, IdleMount DEF State
<1>4. i \in Ids /\ Loaded(s.nodes[i])
  BY <1>3, TreeLoaded
<1>w. w \in Seq(Ids)
  BY <1>4
<1> HIDE DEF s, w
<1>5. /\ c \in Call /\ c.kind = "Setattr" /\ c.dir = i /\ c.saves = w
  BY <1>4, <1>w, NoCallFields DEF Call, IdOrNil
<1> HIDE DEF c
<1>6. CallOK(s.nodes, c)
  BY <1>4, <1>5 DEF w, CallOK, Has, Creating, Removing
<1> QED
  BY <1>1, <1>3, <1>5, <1>6, BeginOK

\* What a call relies on outlasts a reload of a node that it has not locked.
LEMMA CallGrown ==
    ASSUME NEW s \in States, NEW t, NEW i, Grown(i, s, t), NEW c \in Call, CallOK(s.nodes, c),
           c.saves = <<>> \/ i \notin {c.dir, c.to}
    PROVE  CallOK(t.nodes, c)
<1>1. ASSUME NEW j, Has(s.nodes, j) PROVE Has(t.nodes, j)
  BY <1>1 DEF Has, Grown
<1>2. ASSUME NEW j, Has(s.nodes, j), j # i
      PROVE  t.nodes[j].children = s.nodes[j].children /\ t.nodes[j].inodes = s.nodes[j].inodes
  BY <1>2 DEF Has, Grown
<1>3. ASSUME NEW j \in Ids
      PROVE  /\ Stored(s.nodes[j].key) => Stored(t.nodes[j].key)
             /\ s.nodes[j].mode # "unused" => t.nodes[j].mode # "unused"
  BY DEF Grown
<1>4. /\ c.kind # "none" => Has(t.nodes, c.dir)
      /\ c.kind = "none" => c.saves = <<>>
      /\ c.kind = "Rename" => Has(t.nodes, c.to) /\ (c.dir # c.to \/ c.name # c.newName)
      /\ c.kind = "Setattr" => c.saves = <<c.dir>>
  BY <1>1 DEF CallOK
<1>5. ASSUME c.saves # <<>>
      PROVE  /\ c.kind \in Creating => CreateOK(t.nodes, c)
             /\ c.kind \in Removing => RemoveOK(t.nodes, c)
             /\ c.kind = "Rename" => RenameOK(t.nodes, c)
  <2>1. Has(s.nodes, c.dir)
    BY <1>5 DEF CallOK
  <2>2. t.nodes[c.dir].children = s.nodes[c.dir].children /\ t.nodes[c.dir].inodes = s.nodes[c.dir].inodes
    BY <1>2, <1>5, <2>1
  <2>3. ASSUME c.kind \in Creating PROVE CreateOK(t.nodes, c)
    <3>1. CreateOK(s.nodes, c)
      BY <1>5, <2>3 DEF CallOK
    <3>2. c.child \in Ids
      BY <3>1 DEF CreateOK, Has
    <3> QED
      BY <1>1, <1>3, <2>2, <3>1, <3>2 DEF CreateOK
  <2>4. ASSUME c.kind \in Removing PROVE RemoveOK(t.nodes, c)
    <3>1. RemoveOK(s.nodes, c)
      BY <1>5, <2>4 DEF CallOK
    <3> QED
      BY <1>3, <2>2, <3>1 DEF RemoveOK
  <2>5. ASSUME c.kind = "Rename" PROVE RenameOK(t.nodes, c)
    <3>1. RenameOK(s.nodes, c) /\ Has(s.nodes, c.to)
      BY <1>5, <2>5 DEF CallOK
    <3>2. t.nodes[c.to].children = s.nodes[c.to].children
      BY <1>2, <1>5, <3>1
    <3>3. c.child \in Ids
      BY <3>1 DEF RenameOK, Has
    <3> QED
      BY <1>1, <1>3, <2>2, <3>1, <3>2, <3>3 DEF RenameOK
  <2> QED
    BY <2>3, <2>4, <2>5
<1> QED
  BY <1>4, <1>5 DEF CallOK

\* The invariant of the mount that has made a step.
LEMMA ActorOK ==
    ASSUME Inv, NEW m \in Mounts, Apart(m), TypeOK', NoDanglingEntry',
           NEW s \in States, NEW c \in Call, NEW B, B = Excepted(c)',
           nodes'[m] = s.nodes, known'[m] = s.known, call'[m] = c,
           OK(s, Unsaved(c), B)', Roots(s.nodes), CallOK(s.nodes, c)'
    PROVE  Inv'
<1>1. State(m)' = s
  BY DEF State, States
<1>2. MountOK(m)'
  BY <1>1 DEF MountOK, Roots
<1> QED
  BY <1>2, InvStep

\* Reloading, which may happen during a call.
LEMMA RefreshOK ==
    ASSUME Inv, NEW m \in Mounts, NEW i, NEW s, Refresh(m, i, s),
           OK(s, Unsaved(call[m]), Excepted(call[m])), Grown(i, State(m), s)
    PROVE  Inv'
<1>u. /\ i \notin Locked(m) /\ nodes' = [nodes EXCEPT ![m] = s.nodes]
      /\ known' = [known EXCEPT ![m] = s.known]
      /\ UNCHANGED <<store, call, pending, drawn, alive, halfway, calls>>
  BY DEF Refresh, Update, history
<1>t. TypeOK /\ NoDanglingEntry
  BY DEF Inv
<1>s. s \in States /\ s.nodes \in [Ids -> Node] /\ s.known \in [Keys -> IdOrNil]
  BY DEF OK, States
<1>0. PICK c, B : c = call[m] /\ B = Excepted(c)
  OBVIOUS
<1>1. State(m) \in States /\ c \in Call /\ Roots(State(m).nodes) /\ CallOK(State(m).nodes, c)
  BY <1>0, IdleMount DEF State
<1>2. TypeOK'
  BY <1>u, <1>t, <1>s DEF TypeOK
<1>3. NoDanglingEntry'
  BY <1>u, <1>t DEF NoDanglingEntry
<1>4. nodes'[m] = s.nodes /\ known'[m] = s.known /\ call'[m] = c
  BY <1>0, <1>u, <1>t DEF TypeOK
<1>5. Apart(m)
  BY <1>u, <1>t DEF Apart, TypeOK, Stored
<1>6. Roots(s.nodes)
  BY <1>1, RootsGrown
<1>7. CallOK(s.nodes, c)
  <2>1. c.saves = <<>> \/ i \notin {c.dir, c.to}
    BY <1>0, <1>u DEF Locked, Saving
  <2> DEFINE r == State(m)
  <2> HIDE DEF r
  <2> QED
    BY <1>1, <2>1, CallGrown DEF r
<1>8. CallOK(s.nodes, c)'
  <2> DEFINE ns == s.nodes
  <2>1. ns \in [Ids -> Node] /\ CallOK(ns, c)
    BY <1>s, <1>7
  <2> HIDE DEF ns
  <2>2. CallOK(ns, c)'
    BY <1>1, <1>5, <2>1, CallKept DEF Apart
  <2> QED
    BY <2>2 DEF ns
<1>9. B = Excepted(c)'
  BY <1>0, <1>u DEF Excepted
<1>10. OK(s, Unsaved(c), B)'
  <2>1. OK(s, Unsaved(c), B) /\ B \subseteq B /\ \A k \in Keys : Stored(k) => Stored(k)'
    BY <1>0, <1>5 DEF Apart
  <2> QED
    BY <2>1, StoreGrows
<1> QED
  BY <1>s, <1>1, <1>2, <1>3, <1>4, <1>5, <1>6, <1>8, <1>9, <1>10, ActorOK

\* Getattr and Open.
LEMMA GetattrOK ==
    ASSUME Inv, NEW m \in Mounts, NEW i \in Tree(m), Getattr(m, i)
    PROVE  Inv'
<1> DEFINE r == State(m)
           s == Reloaded(r, i)
           u == Unsaved(call[m])
           A == Excepted(call[m])
<1>1. i \in Ids /\ OK(r, u, A)
  BY TreeLoaded DEF Inv, MountOK
<1>2. Refresh(m, i, s)
  BY DEF Getattr
<1> HIDE DEF r, u, A
<1>3. OK(s, u, A) /\ Grown(i, r, s)
  BY <1>1, ReloadedOK, StoreFacts
<1> HIDE DEF s
<1> QED
  BY <1>2, <1>3, RefreshOK DEF r, u, A

\* Opendir.
LEMMA OpendirOK ==
    ASSUME Inv, NEW m \in Mounts, NEW i \in TreeDirs(m), Opendir(m, i)
    PROVE  Inv'
<1> DEFINE r == State(m)
           q == Reloaded(r, i)
           s == FoldSet(LAMBDA x, t : EnsureChildLoaded(t, i, x), q, Names)
           u == Unsaved(call[m])
           A == Excepted(call[m])
<1>1. i \in Ids /\ OK(r, u, A)
  BY TreeLoaded DEF Inv, MountOK, TreeDirs
<1>2. Refresh(m, i, s)
  BY DEF Opendir
<1> HIDE DEF r, u, A
<1>3. OK(q, u, A) /\ Grown(i, r, q)
  BY <1>1, ReloadedOK, StoreFacts
<1> HIDE DEF q
<1>4. OK(s, u, A) /\ Grown(i, q, s)
  BY <1>1, <1>3, ChildrenLoadedOK, StoreFacts
<1> HIDE DEF s
<1>5. Grown(i, r, s)
  BY <1>3, <1>4, GrownTransitive
<1> QED
  BY <1>2, <1>4, <1>5, RefreshOK DEF r, u, A

\* A mount starts anew.
LEMMA CrashOK ==
    ASSUME Inv, NEW m \in Mounts, Crash(m)
    PROVE  Inv'
<1>u. /\ nodes' = [nodes EXCEPT ![m] = Started.nodes] /\ known' = [known EXCEPT ![m] = Started.known]
      /\ call' = [call EXCEPT ![m] = NoCall] /\ pending' = [pending EXCEPT ![m] = {}]
      /\ UNCHANGED <<store, drawn, alive, halfway, calls>>
  BY DEF Crash, Update, Return, history
<1>t. TypeOK /\ NoDanglingEntry
  BY DEF Inv
<1>0. PICK s, c, B : s = Started /\ c = NoCall /\ B = Always
  OBVIOUS
<1>1. OK(s, <<>>, B) /\ Roots(s.nodes)
  BY <1>0, StartedOK, StoreFacts DEF Roots
<1>s. s \in States /\ s.nodes \in [Ids -> Node] /\ s.known \in [Keys -> IdOrNil]
  BY <1>1 DEF OK, States
<1>c. c \in Call /\ Unsaved(c) = <<>> /\ c.kind = "none" /\ c.saves = <<>>
  BY <1>0, NoCallFields
<1>2. TypeOK'
  <2>1. nodes' \in [Mounts -> [Ids -> Node]] /\ known' \in [Mounts -> [Keys -> IdOrNil]]
    BY <1>0, <1>u, <1>t, <1>s DEF TypeOK
  <2>2. call' \in [Mounts -> Call] /\ pending' \in [Mounts -> SUBSET [key : Keys, version : Nat]]
    BY <1>0, <1>u, <1>t, <1>c DEF TypeOK
  <2> QED
    BY <1>u, <1>t, <2>1, <2>2 DEF TypeOK
<1>3. NoDanglingEntry'
  BY <1>u, <1>t DEF NoDanglingEntry
<1>4. nodes'[m] = s.nodes /\ known'[m] = s.known /\ call'[m] = c
  BY <1>0, <1>u, <1>t DEF TypeOK
<1>5. Apart(m)
  BY <1>u, <1>t DEF Apart, TypeOK, Stored
<1>8. CallOK(s.nodes, c)'
  BY <1>c DEF CallOK, Creating, Removing
<1>9. B = Excepted(c)'
  BY <1>0, <1>c, <1>u DEF Excepted, Changing, Always
<1>10. OK(s, Unsaved(c), B)'
  BY <1>1, <1>5, <1>c, StoreGrows DEF Apart
<1> QED
  BY <1>s, <1>c, <1>1, <1>2, <1>3, <1>4, <1>5, <1>8, <1>9, <1>10, ActorOK

\* The same objects, but for their versions and marks.
Alike(ns, new) ==
    \A j \in Ids : /\ new[j].key = ns[j].key /\ new[j].mode = ns[j].mode
                   /\ new[j].children = ns[j].children /\ new[j].inodes = ns[j].inodes

\* Versions and marks are not in the invariant of a mount ...
LEMMA AlikeOK ==
    ASSUME NEW u, NEW A, NEW s, OK(s, u, A), NEW t \in States, Alike(s.nodes, t.nodes), NEW i
    PROVE  OK(t, u, A) /\ Grown(i, s, t)
<1>1. Grown(i, s, t)
  BY DEF Alike, Grown, Loaded
<1>2. Blank(t.nodes)
  BY DEF Alike, Blank, Loaded, OK
<1>3. OK(t, u, A)
  BY <1>1, <1>2, KeepsEntries DEF Alike
<1> QED
  BY <1>1, <1>3

\* ... nor in that of its call.
LEMMA AlikeCall ==
    ASSUME NEW s \in States, NEW t \in States, Alike(s.nodes, t.nodes), NEW c \in Call, CallOK(s.nodes, c)
    PROVE  CallOK(t.nodes, c)
<1>1. PICK i \in 1..3 : i \notin {c.dir, c.to}
  OBVIOUS
<1>2. Grown(i, s, t)
  BY DEF Alike, Grown, Loaded
<1> QED
  BY <1>1, <1>2, CallGrown

--------------------------------------------------------------------------------
(* One field of a mount is set. *)

\* A node gets its next version.
LEMMA VersionSet ==
    ASSUME NEW ns \in [Ids -> Node], NEW i \in Ids
    PROVE  LET new == [ns EXCEPT ![i].version = @ + 1] IN
           new \in [Ids -> Node] /\ Alike(ns, new)
<1> DEFINE new == [ns EXCEPT ![i].version = @ + 1]
<1>1. new \in [Ids -> Node] /\ \A j \in Ids : new[j] = IF j = i THEN [ns[j] EXCEPT !.version = @ + 1] ELSE ns[j]
  BY SMTT(30) DEF Node
<1> HIDE DEF new
<1>2. ASSUME NEW j \in Ids PROVE ns[j] \in Node
  OBVIOUS
<1> QED
  BY <1>1, <1>2 DEF Alike, Node, new

\* A node is marked for reload.
LEMMA MarkSet ==
    ASSUME NEW ns \in [Ids -> Node], NEW i \in Ids, NEW b \in BOOLEAN
    PROVE  LET new == [ns EXCEPT ![i].shouldReload = b] IN
           new \in [Ids -> Node] /\ Alike(ns, new)
<1> DEFINE new == [ns EXCEPT ![i].shouldReload = b]
<1>1. new \in [Ids -> Node] /\ \A j \in Ids : new[j] = IF j = i THEN [ns[j] EXCEPT !.shouldReload = b] ELSE ns[j]
  BY DEF Node
<1> HIDE DEF new
<1>2. ASSUME NEW j \in Ids PROVE ns[j] \in Node
  OBVIOUS
<1> QED
  BY <1>1, <1>2 DEF Alike, Node, new

\* A mode is set.
ModeIs(ns, new, i, mode) ==
    \A j \in Ids : /\ new[j].key = ns[j].key
                   /\ new[j].mode = IF j = i THEN mode ELSE ns[j].mode
                   /\ new[j].children = ns[j].children /\ new[j].inodes = ns[j].inodes

\* A new node gets its mode.
LEMMA ModeSet ==
    ASSUME NEW ns \in [Ids -> Node], NEW i \in Ids, NEW mode \in {"file", "dir"}
    PROVE  LET new == [ns EXCEPT ![i].mode = mode] IN
           new \in [Ids -> Node] /\ ModeIs(ns, new, i, mode)
<1> DEFINE new == [ns EXCEPT ![i].mode = mode]
<1>1. new \in [Ids -> Node] /\ \A j \in Ids : new[j] = IF j = i THEN [ns[j] EXCEPT !.mode = mode] ELSE ns[j]
  BY DEF Node
<1> HIDE DEF new
<1>2. ASSUME NEW j \in Ids PROVE ns[j] \in Node
  OBVIOUS
<1> QED
  BY <1>1, <1>2 DEF ModeIs, Node, new

\* An entry of Children, or of go-fuse's tree, is set.
ChildIs(ns, new, i, x, v) ==
    \A j \in Ids : /\ new[j].key = ns[j].key /\ new[j].mode = ns[j].mode /\ new[j].inodes = ns[j].inodes
                   /\ j # i => new[j].children = ns[j].children
                   /\ \A y \in Names : new[j].children[y] = IF j = i /\ y = x THEN v ELSE ns[j].children[y]
InodeIs(ns, new, i, x, v) ==
    \A j \in Ids : /\ new[j].key = ns[j].key /\ new[j].mode = ns[j].mode /\ new[j].children = ns[j].children
                   /\ j # i => new[j].inodes = ns[j].inodes
                   /\ \A y \in Names : new[j].inodes[y] = IF j = i /\ y = x THEN v ELSE ns[j].inodes[y]

\* An entry of Children is set.
LEMMA ChildSet ==
    ASSUME NEW ns \in [Ids -> Node], NEW i \in Ids, NEW x \in Names, NEW v \in IdOrNil
    PROVE  LET new == [ns EXCEPT ![i].children[x] = v] IN
           new \in [Ids -> Node] /\ ChildIs(ns, new, i, x, v)
<1> DEFINE new == [ns EXCEPT ![i].children[x] = v]
<1>1. new \in [Ids -> Node] /\ \A j \in Ids : new[j] = IF j = i THEN [ns[j] EXCEPT !.children[x] = v] ELSE ns[j]
  BY DEF Node
<1> HIDE DEF new
<1>2. ASSUME NEW j \in Ids PROVE ns[j] \in Node
  OBVIOUS
<1> QED
  BY <1>1, <1>2 DEF ChildIs, Node, new

\* An entry of go-fuse's tree is set.
LEMMA InodeSet ==
    ASSUME NEW ns \in [Ids -> Node], NEW i \in Ids, NEW x \in Names, NEW v \in IdOrNil
    PROVE  LET new == [ns EXCEPT ![i].inodes[x] = v] IN
           new \in [Ids -> Node] /\ InodeIs(ns, new, i, x, v)
<1> DEFINE new == [ns EXCEPT ![i].inodes[x] = v]
<1>1. new \in [Ids -> Node] /\ \A j \in Ids : new[j] = IF j = i THEN [ns[j] EXCEPT !.inodes[x] = v] ELSE ns[j]
  BY DEF Node
<1> HIDE DEF new
<1>2. ASSUME NEW j \in Ids PROVE ns[j] \in Node
  OBVIOUS
<1> QED
  BY <1>1, <1>2 DEF InodeIs, Node, new

\* A notification marks a node.
LEMMA InvalidateCacheOK ==
    ASSUME Inv, NEW m \in Mounts, NEW n \in pending[m], InvalidateCache(m, n)
    PROVE  Inv'
<1> DEFINE i == known[m][n.key]
           b == nodes[m][i].shouldReload \/ Newer(n, nodes[m][i])
           ns == IF i = NoNode THEN nodes[m] ELSE [nodes[m] EXCEPT ![i].shouldReload = b]
<1>t. TypeOK /\ NoDanglingEntry
  BY DEF Inv
<1>m. /\ State(m) \in States /\ call[m] \in Call /\ nodes[m] \in [Ids -> Node]
      /\ known[m] \in [Keys -> IdOrNil] /\ Roots(nodes[m]) /\ CallOK(nodes[m], call[m])
  BY IdleMount
<1>u. /\ pending' = [pending EXCEPT ![m] = @ \ {n}]
      /\ nodes' = IF i = NoNode THEN nodes
                  ELSE [nodes EXCEPT ![m][i].shouldReload = @ \/ Newer(n, nodes[m][i])]
      /\ UNCHANGED <<store, known, call, drawn, alive, halfway, calls>>
  BY DEF InvalidateCache, history
<1>0. i \in IdOrNil
  <2>1. n \in [key : Keys, version : Nat]
    BY <1>t DEF TypeOK
  <2> QED
    BY <1>m, <2>1
<1> HIDE DEF i
<1>b. b \in BOOLEAN
  BY DEF Newer
<1>1. nodes' = [nodes EXCEPT ![m] = ns]
  BY <1>u, <1>t, <1>m DEF TypeOK
<1> HIDE DEF b
<1>2. ns \in [Ids -> Node] /\ Alike(nodes[m], ns)
  <2>1. CASE i = NoNode
    BY <1>m, <2>1 DEF Alike
  <2>2. CASE i # NoNode
    <3>1. i \in Ids
      BY <1>0, <2>2 DEF IdOrNil
    <3> QED
      BY <1>m, <1>b, <2>2, <3>1, MarkSet
  <2> QED
    BY <2>1, <2>2
<1> HIDE DEF ns
<1>3. PICK s, c, B : s = [nodes |-> ns, known |-> known[m]] /\ c = call[m] /\ B = Excepted(c)
  OBVIOUS
<1>s. s \in States /\ s.nodes = ns /\ s.known = known[m]
  BY <1>m, <1>2, <1>3 DEF States
<1>4. OK(s, Unsaved(c), B)
  <2> DEFINE r == State(m)
  <2>1. OK(r, Unsaved(c), B)
    BY <1>3 DEF Inv, MountOK
  <2>2. Alike(r.nodes, s.nodes)
    BY <1>2, <1>s DEF State
  <2> HIDE DEF r
  <2> QED
    BY <1>s, <2>1, <2>2, AlikeOK
<1>5. TypeOK'
  <2>1. nodes' \in [Mounts -> [Ids -> Node]]
    BY <1>1, <1>2, <1>t DEF TypeOK
  <2>2. pending' \in [Mounts -> SUBSET [key : Keys, version : Nat]]
    BY <1>u, <1>t DEF TypeOK
  <2> QED
    BY <1>u, <1>t, <2>1, <2>2 DEF TypeOK
<1>6. NoDanglingEntry'
  BY <1>u, <1>t DEF NoDanglingEntry
<1>7. nodes'[m] = s.nodes /\ known'[m] = s.known /\ call'[m] = c
  BY <1>1, <1>3, <1>s, <1>u, <1>t DEF TypeOK
<1>8. Apart(m)
  BY <1>1, <1>u, <1>t DEF Apart, TypeOK, Stored
<1>9. Roots(s.nodes) /\ c \in Call
  BY <1>2, <1>3, <1>s, <1>m, Constants DEF Roots, Alike, Loaded
<1>10. CallOK(s.nodes, c)'
  <2>1. CallOK(s.nodes, c)
    <3> DEFINE r == State(m)
    <3>1. r \in States /\ Alike(r.nodes, s.nodes) /\ CallOK(r.nodes, c) /\ c \in Call
      BY <1>m, <1>2, <1>3, <1>s DEF State
    <3> HIDE DEF r
    <3> QED
      BY <1>s, <3>1, AlikeCall
  <2> DEFINE new == s.nodes
  <2>2. new \in [Ids -> Node] /\ CallOK(new, c)
    BY <1>2, <1>s, <2>1
  <2> HIDE DEF new
  <2>3. CallOK(new, c)'
    BY <1>8, <1>9, <2>2, CallKept DEF Apart
  <2> QED
    BY <2>3 DEF new
<1>11. B = Excepted(c)'
  BY <1>3, <1>u DEF Excepted
<1>12. OK(s, Unsaved(c), B)'
  <2>1. OK(s, Unsaved(c), B) /\ B \subseteq B /\ \A k \in Keys : Stored(k) => Stored(k)'
    BY <1>4, <1>8 DEF Apart
  <2> QED
    BY <2>1, StoreGrows
<1> QED
  BY <1>s, <1>5, <1>6, <1>7, <1>8, <1>9, <1>10, <1>11, <1>12, ActorOK

All == Ids \X Names

\* With every entry excepted, the trees agree.
LEMMA AllAgree == ASSUME NEW ns PROVE Agree(ns, All)
BY DEF Agree, All

\* Every entry may be excepted.
LEMMA Widened == ASSUME NEW u, NEW A, NEW s, OK(s, u, A) PROVE OK(s, u, All)
BY AllAgree DEF OK

\* The exceptions are those where the trees differ.
LEMMA Narrowed == ASSUME NEW u, NEW A, NEW B, NEW s, OK(s, u, A), Agree(s.nodes, B) PROVE OK(s, u, B)
BY DEF OK

\* Nothing was unsaved.
LEMMA NothingGone == ASSUME NEW ns, NEW v PROVE Gone(ns, <<>>, v)
<1>1. ASSUME NEW j, NEW y, NEW c PROVE <<>> # <<j, y, c>>
  OBVIOUS
<1> QED
  BY <1>1 DEF Gone

\* An entry of Children is set to what may be listed.
LEMMA SetChildOK ==
    ASSUME NEW u, NEW A, NEW s, OK(s, u, A), NEW t \in States, NEW i \in Ids, NEW x \in Names, NEW v, NEW w,
           ChildIs(s.nodes, t.nodes, i, x, v), Loaded(s.nodes[i]),
           Listable(t.nodes, w, i, x, v), Gone(t.nodes, u, w)
    PROVE  OK(t, w, All)
<1>1. ASSUME NEW j \in Ids
      PROVE  /\ t.nodes[j].key = s.nodes[j].key
             /\ t.nodes[j].mode = s.nodes[j].mode /\ (Loaded(t.nodes[j]) <=> Loaded(s.nodes[j]))
             /\ t.nodes[j].inodes = s.nodes[j].inodes
             /\ Loaded(t.nodes[j]) \/ t.nodes[j].children = s.nodes[j].children
  BY DEF ChildIs, Loaded
<1>2. ASSUME NEW j \in Ids, NEW y \in Names
      PROVE  \/ t.nodes[j].children[y] = s.nodes[j].children[y]
             \/ Listable(t.nodes, w, j, y, t.nodes[j].children[y])
  <2>1. t.nodes[j].children[y] = IF j = i /\ y = x THEN v ELSE s.nodes[j].children[y]
    BY Zenon DEF ChildIs
  <2>2. CASE j = i /\ y = x
    BY <2>1, <2>2
  <2>3. CASE ~(j = i /\ y = x)
    BY <2>1, <2>3
  <2> QED
    BY <2>2, <2>3
<1>3. Changes(s.nodes, t.nodes, w)
  BY <1>1, <1>2, Zenon DEF Changes
<1> QED
  BY <1>3, AllAgree, Changed

\* An entry of go-fuse's tree is set to what may be listed.
LEMMA SetInodeOK ==
    ASSUME NEW u, NEW A, NEW s, OK(s, u, A), NEW t \in States, NEW i \in Ids, NEW x \in Names, NEW v, NEW w,
           InodeIs(s.nodes, t.nodes, i, x, v), Loaded(s.nodes[i]),
           v = s.nodes[i].inodes[x] \/ (Listable(t.nodes, w, i, x, v) /\ (v # NoNode => Loaded(t.nodes[v]))),
           Gone(t.nodes, u, w)
    PROVE  OK(t, w, All)
<1>1. ASSUME NEW j \in Ids
      PROVE  /\ t.nodes[j].key = s.nodes[j].key
             /\ t.nodes[j].mode = s.nodes[j].mode /\ (Loaded(t.nodes[j]) <=> Loaded(s.nodes[j]))
             /\ t.nodes[j].children = s.nodes[j].children
             /\ Loaded(t.nodes[j]) \/ t.nodes[j].inodes = s.nodes[j].inodes
  BY DEF InodeIs, Loaded
<1>2. ASSUME NEW j \in Ids, NEW y \in Names
      PROVE  \/ t.nodes[j].inodes[y] = s.nodes[j].inodes[y]
             \/ /\ Listable(t.nodes, w, j, y, t.nodes[j].inodes[y])
                /\ t.nodes[j].inodes[y] # NoNode => Loaded(t.nodes[t.nodes[j].inodes[y]])
  <2>1. t.nodes[j].inodes[y] = IF j = i /\ y = x THEN v ELSE s.nodes[j].inodes[y]
    BY Zenon DEF InodeIs
  <2>2. CASE j = i /\ y = x
    BY <2>1, <2>2
  <2>3. CASE ~(j = i /\ y = x)
    BY <2>1, <2>3
  <2> QED
    BY <2>2, <2>3
<1>3. Changes(s.nodes, t.nodes, w)
  BY <1>1, <1>2, Zenon DEF Changes
<1> QED
  BY <1>3, AllAgree, Changed

\* The nodes that a call has to save are set.
LEMMA SavesSet ==
    ASSUME NEW f \in [Mounts -> Call], NEW m \in Mounts, NEW saves \in Seq(Ids)
    PROVE  LET new == [f EXCEPT ![m].saves = saves] IN
           /\ new \in [Mounts -> Call]
           /\ \A k \in Mounts \ {m} : new[k] = f[k]
           /\ new[m].kind = f[m].kind /\ new[m].dir = f[m].dir /\ new[m].name = f[m].name
           /\ new[m].to = f[m].to /\ new[m].newName = f[m].newName
           /\ new[m].child = f[m].child /\ new[m].saves = saves
<1> DEFINE new == [f EXCEPT ![m].saves = saves]
<1>1. f[m] \in Call
  OBVIOUS
<1>2. /\ new \in [Mounts -> Call] /\ \A k \in Mounts \ {m} : new[k] = f[k]
      /\ new[m] = [f[m] EXCEPT !.saves = saves]
  BY DEF Call
<1> HIDE DEF new
<1>3. /\ new[m].kind = f[m].kind /\ new[m].dir = f[m].dir /\ new[m].name = f[m].name
      /\ new[m].to = f[m].to /\ new[m].newName = f[m].newName
      /\ new[m].child = f[m].child /\ new[m].saves = saves
  BY <1>1, <1>2 DEF Call
<1> QED
  BY <1>2, <1>3 DEF new

\* The child of a call and what it has to save are set.
LEMMA CallSet ==
    ASSUME TypeOK, NEW m \in Mounts, NEW child \in IdOrNil, NEW saves \in Seq(Ids),
           NEW new
    PROVE  new = [call EXCEPT ![m].child = child, ![m].saves = saves] =>
           /\ new \in [Mounts -> Call]
           /\ \A k \in Mounts \ {m} : new[k] = call[k]
           /\ new[m].kind = call[m].kind /\ new[m].dir = call[m].dir /\ new[m].name = call[m].name
           /\ new[m].to = call[m].to /\ new[m].newName = call[m].newName
           /\ new[m].child = child /\ new[m].saves = saves
<1> DEFINE mid == [call EXCEPT ![m].child = child]
           end == [mid EXCEPT ![m].saves = saves]
<1>1. call \in [Mounts -> Call] /\ call[m] \in Call
  BY DEF TypeOK
<1>2. /\ mid \in [Mounts -> Call] /\ \A k \in Mounts \ {m} : mid[k] = call[k]
      /\ mid[m] = [call[m] EXCEPT !.child = child]
  BY <1>1 DEF Call
<1>3. /\ mid[m] \in Call
      /\ mid[m].kind = call[m].kind /\ mid[m].dir = call[m].dir /\ mid[m].name = call[m].name
      /\ mid[m].to = call[m].to /\ mid[m].newName = call[m].newName
      /\ mid[m].child = child
  BY <1>1, <1>2 DEF Call
<1>4. new = [call EXCEPT ![m].child = child, ![m].saves = saves] => new = end
  BY <1>1
<1> HIDE DEF mid
<1>m. mid \in [Mounts -> Call]
  BY <1>2
<1>5. /\ end \in [Mounts -> Call] /\ \A k \in Mounts \ {m} : end[k] = mid[k]
      /\ end[m] = [mid[m] EXCEPT !.saves = saves]
  BY <1>m DEF Call
<1> HIDE DEF end
<1>6. /\ end[m].kind = mid[m].kind /\ end[m].dir = mid[m].dir /\ end[m].name = mid[m].name
      /\ end[m].to = mid[m].to /\ end[m].newName = mid[m].newName
      /\ end[m].child = mid[m].child /\ end[m].saves = saves
  BY <1>3, <1>5 DEF Call
<1> QED
  BY <1>2, <1>3, <1>4, <1>5, <1>6

\* The first part of a call.
LEMMA RunOK ==
    ASSUME Inv, NEW m \in Mounts, NEW s \in States, NEW child \in IdOrNil, NEW saves \in Seq(Ids),
           Run(m, s.nodes, child, saves), known' = [known EXCEPT ![m] = s.known],
           drawn \subseteq drawn', drawn' \subseteq Fresh,
           NEW c, c = call'[m], NEW B, B = Excepted(c),
           OK(s, Unsaved(c), B), Roots(s.nodes), CallOK(s.nodes, c)'
    PROVE  Inv'
<1>t. TypeOK /\ NoDanglingEntry
  BY DEF Inv
<1>u. /\ nodes' = [nodes EXCEPT ![m] = s.nodes]
      /\ call' = [call EXCEPT ![m].child = child, ![m].saves = saves]
      /\ UNCHANGED <<store, pending, alive, halfway, calls>>
  BY DEF Run
<1>1. s.nodes \in [Ids -> Node] /\ s.known \in [Keys -> IdOrNil]
  BY DEF States
<1>2. call' \in [Mounts -> Call] /\ c \in Call /\ \A k \in Mounts \ {m} : call'[k] = call[k]
  <2>1. PICK new : new = call'
    OBVIOUS
  <2>2. new \in [Mounts -> Call] /\ \A k \in Mounts \ {m} : new[k] = call[k]
    BY <1>t, <1>u, <2>1, CallSet
  <2> QED
    BY <2>1, <2>2
<1>3. TypeOK'
  <2>1. nodes' \in [Mounts -> [Ids -> Node]] /\ known' \in [Mounts -> [Keys -> IdOrNil]]
    BY <1>1, <1>u, <1>t DEF TypeOK
  <2> QED
    BY <1>u, <1>t, <1>2, <2>1 DEF TypeOK
<1>4. NoDanglingEntry'
  BY <1>u, <1>t DEF NoDanglingEntry
<1>5. nodes'[m] = s.nodes /\ known'[m] = s.known
  BY <1>u, <1>t DEF TypeOK
<1>6. Apart(m)
  BY <1>u, <1>t, <1>2 DEF Apart, TypeOK, Stored
<1>7. B = Excepted(c)'
  BY <1>u DEF Excepted
<1>8. OK(s, Unsaved(c), B)'
  <2>1. B \subseteq B /\ \A k \in Keys : Stored(k) => Stored(k)'
    BY <1>6 DEF Apart
  <2> QED
    BY <2>1, StoreGrows
<1> QED
  BY <1>2, <1>3, <1>4, <1>5, <1>6, <1>7, <1>8, ActorOK

--------------------------------------------------------------------------------
(* The calls up to their first save. *)

\* A call returns before it has changed anything.
LEMMA ReturnOK ==
    ASSUME Inv, NEW m \in Mounts, ~Saving(m), Return(m),
           UNCHANGED <<store, nodes, known, pending, history>>
    PROVE  Inv'
<1>t. TypeOK /\ NoDanglingEntry
  BY DEF Inv
<1>u. call' = [call EXCEPT ![m] = NoCall] /\ UNCHANGED <<store, nodes, known, pending, drawn, alive, halfway, calls>>
  BY DEF Return, history
<1>0. PICK s, c, B : s = State(m) /\ c = NoCall /\ B = Always
  OBVIOUS
<1>1. s \in States /\ OK(s, <<>>, B) /\ Roots(s.nodes) /\ s.nodes = nodes[m] /\ s.known = known[m]
  BY <1>0, IdleMount DEF State
<1>c. c \in Call /\ Unsaved(c) = <<>> /\ c.kind = "none" /\ c.saves = <<>>
  BY <1>0, NoCallFields
<1>2. TypeOK'
  BY <1>0, <1>c, <1>u, <1>t DEF TypeOK
<1>3. NoDanglingEntry'
  BY <1>u, <1>t DEF NoDanglingEntry
<1>4. nodes'[m] = s.nodes /\ known'[m] = s.known /\ call'[m] = c
  BY <1>0, <1>1, <1>u, <1>t DEF TypeOK
<1>5. Apart(m)
  BY <1>u, <1>t DEF Apart, TypeOK, Stored
<1>6. CallOK(s.nodes, c)'
  BY <1>c DEF CallOK, Creating, Removing
<1>7. B = Excepted(c)'
  BY <1>0, <1>c, <1>u DEF Excepted, Changing, Always
<1>8. OK(s, Unsaved(c), B)'
  BY <1>1, <1>5, <1>c, StoreGrows DEF Apart
<1> QED
  BY <1>c, <1>1, <1>2, <1>3, <1>4, <1>5, <1>6, <1>7, <1>8, ActorOK

\* No key can be drawn.
LEMMA MakeChildFailsOK ==
    ASSUME Inv, NEW m \in Mounts, MakeChildFails(m)
    PROVE  Inv'
<1>1. ~Saving(m) /\ Return(m) /\ UNCHANGED <<store, nodes, known, pending, history>>
  BY DEF MakeChildFails, Looked
<1> QED
  BY <1>1, ReturnOK

\* Unlink, and an Rmdir that is not refused.
LEMMA RemoveStep ==
    ASSUME Inv, NEW m \in Mounts, call[m].kind \in Removing, ~Saving(m), Remove(m), UNCHANGED <<known, drawn>>
    PROVE  Inv'
<1>t. TypeOK
  BY DEF Inv
<1>m. /\ nodes[m] \in [Ids -> Node] /\ known[m] \in [Keys -> IdOrNil] /\ Roots(nodes[m])
      /\ State(m) \in States /\ call[m] \in Call /\ CallOK(nodes[m], call[m]) /\ OK(State(m), <<>>, Always)
  BY IdleMount
<1>0. PICK r, i, x, old, ns : /\ r = State(m) /\ i = call[m].dir /\ x = call[m].name
                              /\ old = nodes[m][i].children[x]
                              /\ ns = [nodes[m] EXCEPT ![i].children[x] = NoNode]
  OBVIOUS
<1>1. Run(m, ns, old, <<i>>)
  BY <1>0 DEF Remove
<1>2. i \in Ids /\ Loaded(nodes[m][i]) /\ x \in Names
  BY <1>0, <1>m DEF CallOK, Has, Removing, Call
<1>r. r \in States /\ OK(r, <<>>, Always) /\ r.nodes = nodes[m] /\ r.known = known[m]
  BY <1>0, <1>m DEF State
<1>3. old \in IdOrNil /\ old = r.nodes[i].children[x]
  BY <1>0, <1>2, <1>r, NodeFields
<1>4. ns \in [Ids -> Node] /\ ChildIs(r.nodes, ns, i, x, NoNode)
  BY <1>0, <1>m, <1>2, <1>r, ChildSet DEF IdOrNil
<1>5. PICK s : s = [nodes |-> ns, known |-> known[m]]
  OBVIOUS
<1>s. s \in States /\ s.nodes = ns /\ s.known = known[m]
  BY <1>m, <1>4, <1>5 DEF States
<1>6. OK(s, <<>>, All)
  <2>1. Listable(s.nodes, <<>>, i, x, NoNode) /\ Gone(s.nodes, <<>>, <<>>)
    BY NothingGone DEF Listable
  <2> QED
    BY <1>2, <1>4, <1>r, <1>s, <2>1, SetChildOK
<1>7. PICK c, B : c = call'[m] /\ B = Excepted(c)
  OBVIOUS
<1>8. <<i>> \in Seq(Ids)
  BY <1>2
<1>9. /\ c.kind = call[m].kind /\ c.dir = i /\ c.name = x /\ c.child = old /\ c.saves = <<i>>
  <2>1. PICK new : new = call'
    OBVIOUS
  <2>2. new = [call EXCEPT ![m].child = old, ![m].saves = <<i>>]
    BY <1>1, <2>1 DEF Run
  <2> DEFINE w == <<i>>
  <2>3. w \in Seq(Ids) /\ new = [call EXCEPT ![m].child = old, ![m].saves = w]
    BY <1>8, <2>2
  <2> HIDE DEF w
  <2>4. /\ new[m].kind = call[m].kind /\ new[m].dir = call[m].dir /\ new[m].name = call[m].name
        /\ new[m].child = old /\ new[m].saves = w
    BY <1>t, <1>3, <2>3, CallSet
  <2> QED
    BY <1>0, <1>7, <2>1, <2>4 DEF w
<1>10. B = IF halfway THEN All ELSE {<<i, x>>}
  <2>1. c.saves # <<>> /\ c.kind # "Setattr" /\ c.kind # "Rename"
    BY <1>9 DEF Removing
  <2> QED
    BY <1>7, <1>9, <2>1 DEF Excepted, Changing, All
<1>11. Agree(s.nodes, B)
  <2> SUFFICES ASSUME NEW j \in Ids, NEW y \in Names
               PROVE  <<j, y>> \in B \/ s.nodes[j].inodes[y] \in {NoNode, s.nodes[j].children[y]}
    BY Zenon DEF Agree
  <2>1. halfway \/ r.nodes[j].inodes[y] \in {NoNode, r.nodes[j].children[y]}
    BY <1>r DEF OK, Agree, Always
  <2>2. CASE j = i /\ y = x
    BY <1>10, <2>2 DEF All
  <2>3. CASE ~(j = i /\ y = x)
    <3>1. s.nodes[j].inodes = r.nodes[j].inodes /\ s.nodes[j].children[y] = r.nodes[j].children[y]
      BY <1>4, <1>s, <2>3 DEF ChildIs
    <3> QED
      BY <1>10, <2>1, <3>1 DEF All
  <2> QED
    BY <2>2, <2>3
<1>12. OK(s, Unsaved(c), B)
  <2>1. Unsaved(c) = <<>>
    BY <1>9 DEF Unsaved, Creating, Removing
  <2> QED
    BY <1>6, <1>11, <2>1, Narrowed
<1>13. Roots(s.nodes)
  BY <1>m, <1>4, <1>r, <1>s, Constants DEF Roots, ChildIs, Loaded
<1>14. CallOK(s.nodes, c)'
  <2>1. Has(s.nodes, i)
    BY <1>2, <1>4, <1>r, <1>s DEF Has, ChildIs, Loaded
  <2>2. s.nodes[i].children[x] = NoNode /\ s.nodes[i].inodes = r.nodes[i].inodes
    BY <1>2, <1>4, <1>s DEF ChildIs
  <2>3. old # NoNode => old \in Ids /\ s.nodes[old].mode # "unused" /\ Stored(s.nodes[old].key)
    <3> SUFFICES ASSUME old # NoNode PROVE old \in Ids /\ s.nodes[old].mode # "unused" /\ Stored(s.nodes[old].key)
      OBVIOUS
    <3>1. old \in Ids
      BY <1>3 DEF IdOrNil
    <3>2. r.nodes[old].mode # "unused" /\ Stored(r.nodes[old].key)
      <4>1. <<>> # <<i, x, old>>
        OBVIOUS
      <4> QED
        BY <1>2, <1>3, <1>r, <3>1, <4>1, Zenon DEF OK, Entries
    <3> QED
      BY <1>4, <1>s, <3>1, <3>2 DEF ChildIs
  <2>4. halfway \/ r.nodes[i].inodes[x] \in {NoNode, old}
    BY <1>2, <1>3, <1>r DEF OK, Agree, Always
  <2>5. store' = store /\ halfway' = halfway
    BY <1>1 DEF Run
  <2>6. RemoveOK(s.nodes, c)'
    BY <1>9, <2>2, <2>3, <2>4, <2>5 DEF RemoveOK, Stored
  <2>7. Has(s.nodes, c.dir)'
    BY <1>9, <2>1 DEF Has, Loaded
  <2> QED
    BY <1>9, <2>6, <2>7 DEF CallOK, Removing, Creating
<1>15. Run(m, s.nodes, old, <<i>>) /\ known' = [known EXCEPT ![m] = s.known] /\ drawn \subseteq drawn' /\ drawn' \subseteq Fresh
  BY <1>t, <1>1, <1>s DEF TypeOK
<1> HIDE DEF TypeOK
<1> QED
  <2> DEFINE w == <<i>>
  <2>1. w \in Seq(Ids) /\ Run(m, s.nodes, old, w)
    BY <1>8, <1>15
  <2> HIDE DEF w
  <2> QED
    BY <1>s, <1>3, <1>7, <1>12, <1>13, <1>14, <1>15, <2>1, RunOK

\* Unlink up to its save.
LEMMA UnlinkOK ==
    ASSUME Inv, NEW m \in Mounts, Unlink(m)
    PROVE  Inv'
<1>1. call[m].kind \in Removing /\ ~Saving(m) /\ Remove(m) /\ UNCHANGED <<known, drawn>>
  BY DEF Unlink, Looked, Removing
<1> QED
  BY <1>1, RemoveStep

\* Rmdir, which also may return at once.
LEMMA RmdirOK ==
    ASSUME Inv, NEW m \in Mounts, Rmdir(m)
    PROVE  Inv'
<1>1. call[m].kind \in Removing /\ ~Saving(m) /\ UNCHANGED <<known, drawn>>
  BY DEF Rmdir, Looked, Removing
<1>2. Remove(m) \/ (Return(m) /\ UNCHANGED <<store, nodes, pending, alive, halfway, calls>>)
  BY DEF Rmdir
<1>3. CASE Remove(m)
  BY <1>1, <1>3, RemoveStep
<1>4. CASE Return(m) /\ UNCHANGED <<store, nodes, pending, alive, halfway, calls>>
  <2>1. UNCHANGED <<store, nodes, known, pending, history>>
    BY <1>1, <1>4 DEF history
  <2> QED
    BY <1>1, <1>4, <2>1, ReturnOK
<1> QED
  BY <1>2, <1>3, <1>4

\* What Run makes of the call.
LEMMA RunFields ==
    ASSUME TypeOK, NEW m \in Mounts, NEW ns, NEW child \in IdOrNil, NEW saves \in Seq(Ids),
           Run(m, ns, child, saves), NEW c, c = call'[m]
    PROVE  /\ c \in Call /\ c.kind = call[m].kind /\ c.dir = call[m].dir /\ c.name = call[m].name
           /\ c.to = call[m].to /\ c.newName = call[m].newName /\ c.child = child /\ c.saves = saves
<1>1. PICK new : new = call'
  OBVIOUS
<1>2. new = [call EXCEPT ![m].child = child, ![m].saves = saves]
  BY <1>1 DEF Run
<1>3. /\ new \in [Mounts -> Call]
      /\ new[m].kind = call[m].kind /\ new[m].dir = call[m].dir /\ new[m].name = call[m].name
      /\ new[m].to = call[m].to /\ new[m].newName = call[m].newName
      /\ new[m].child = child /\ new[m].saves = saves
  BY <1>2, CallSet
<1> QED
  BY <1>1, <1>3

\* A new object that nothing lists.
LEMMA ModeSetOK ==
    ASSUME NEW s, OK(s, <<>>, All), NEW t \in States, NEW c \in Ids, s.nodes[c].mode = "unused",
           Loaded(t.nodes[c]),
           \A j \in Ids : /\ t.nodes[j].key = s.nodes[j].key
                          /\ j # c => t.nodes[j].mode = s.nodes[j].mode
                          /\ t.nodes[j].children = s.nodes[j].children
                          /\ t.nodes[j].inodes = s.nodes[j].inodes
    PROVE  OK(t, <<>>, All)
<1>1. Changes(s.nodes, t.nodes, <<>>)
  BY DEF Changes, Loaded
<1>2. Gone(t.nodes, <<>>, <<>>)
  BY NothingGone
<1> QED
  BY <1>1, <1>2, AllAgree, Changed

\* createLockedChild: the new node is listed, and not stored yet.
LEMMA MakeChildOK ==
    ASSUME Inv, NEW m \in Mounts, NEW k \in Fresh, MakeChild(m, k)
    PROVE  Inv'
<1>t. TypeOK
  BY DEF Inv
<1>m. /\ nodes[m] \in [Ids -> Node] /\ known[m] \in [Keys -> IdOrNil] /\ Roots(nodes[m])
      /\ State(m) \in States /\ call[m] \in Call /\ CallOK(nodes[m], call[m])
  BY IdleMount
<1>g. call[m].kind \in Creating /\ ~Saving(m)
  BY DEF MakeChild, Looked
<1>0. PICK r, i, x, n, mode : /\ r = State(m) /\ i = call[m].dir /\ x = call[m].name
                              /\ n = NewId(State(m), k) /\ mode = ChildMode(call[m].kind)
  OBVIOUS
<1>k. k \in Keys
  BY DEF Keys
<1>r. r \in States /\ OK(r, <<>>, Always) /\ r.nodes = nodes[m] /\ r.known = known[m]
  BY <1>0, <1>g, IdleMount DEF State
<1>1. n # NoNode /\ drawn' = drawn \cup {k}
      /\ known' = [known EXCEPT ![m] = AddKnown(r, k, n).known]
      /\ Run(m, [nodes[m] EXCEPT ![n].mode = mode,
                                 ![i].children[x] = n,
                                 ![i].inodes[x] = IF @ = NoNode THEN n ELSE @], n, <<n, i>>)
  BY <1>0 DEF MakeChild, ChildFirst
<1>n. n \in Ids /\ n[1] = k /\ r.nodes[n].mode = "unused"
  BY <1>0, <1>k, <1>r, <1>1, NewIdDef
<1>2. i \in Ids /\ Loaded(r.nodes[i]) /\ x \in Names /\ i # n
  BY <1>0, <1>m, <1>r, <1>g, <1>n DEF CallOK, Has, Creating, Call, Loaded
<1>3. mode \in {"file", "dir"}
  BY <1>0 DEF ChildMode
<1>4. PICK n1 : n1 = [r.nodes EXCEPT ![n].mode = mode]
  OBVIOUS
<1>5. /\ n1 \in [Ids -> Node]
      /\ \A j \in Ids : /\ n1[j].key = r.nodes[j].key
                        /\ n1[j].mode = IF j = n THEN mode ELSE r.nodes[j].mode
                        /\ n1[j].children = r.nodes[j].children /\ n1[j].inodes = r.nodes[j].inodes
  <2>1. n1 \in [Ids -> Node] /\ ModeIs(r.nodes, n1, n, mode)
    <3>1. PICK n0 : n0 = r.nodes
      OBVIOUS
    <3>2. n0 \in [Ids -> Node] /\ n \in Ids /\ n1 = [n0 EXCEPT ![n].mode = mode]
      BY <1>m, <1>r, <1>4, <1>n, <3>1
    <3>3. n1 \in [Ids -> Node] /\ ModeIs(n0, n1, n, mode)
      BY <1>3, <3>2, ModeSet, ZenonT(60)
    <3> QED
      BY <3>1, <3>3
  <2> QED
    BY <2>1 DEF ModeIs
<1>6. PICK n2 : n2 = [n1 EXCEPT ![i].children[x] = n]
  OBVIOUS
<1>7. n2 \in [Ids -> Node] /\ ChildIs(n1, n2, i, x, n)
  BY <1>2, <1>5, <1>6, <1>n, ChildSet DEF IdOrNil
<1>8. PICK v, n3 : /\ v = (IF n2[i].inodes[x] = NoNode THEN n ELSE n2[i].inodes[x])
                   /\ n3 = [n2 EXCEPT ![i].inodes[x] = v]
  OBVIOUS
<1>9. n3 \in [Ids -> Node] /\ InodeIs(n2, n3, i, x, v)
  <2>1. v \in IdOrNil
    BY <1>2, <1>7, <1>8, <1>n DEF Node, IdOrNil
  <2> QED
    BY <1>2, <1>7, <1>8, <2>1, InodeSet
<1>10. Run(m, n3, n, <<n, i>>)
  <2>1. n3 = [nodes[m] EXCEPT ![n].mode = mode,
                              ![i].children[x] = n,
                              ![i].inodes[x] = IF @ = NoNode THEN n ELSE @]
    <3>1. n3 = [n2 EXCEPT ![i].inodes[x] = IF @ = NoNode THEN n ELSE @]
      BY <1>2, <1>7, <1>8 DEF Node
    <3> QED
      BY <1>r, <1>4, <1>6, <3>1
  <2> QED
    BY <1>1, <2>1
<1>11. PICK ks, s1, s2, s : /\ ks = AddKnown(r, k, n).known
                            /\ s1 = [nodes |-> n1, known |-> ks]
                            /\ s2 = [nodes |-> n2, known |-> ks]
                            /\ s = [nodes |-> n3, known |-> ks]
  OBVIOUS
<1>12. ks \in [Keys -> IdOrNil]
  <2>1. OK(AddKnown(r, k, n), <<>>, Always)
    <3> DEFINE A == Always
    <3>1. OK(r, <<>>, A)
      BY <1>r
    <3> HIDE DEF A
    <3> QED
      BY <1>k, <1>n, <3>1, AddKnownOK DEF A
  <2> QED
    BY <1>11, <2>1 DEF OK, States
<1>s. /\ s1 \in States /\ s2 \in States /\ s \in States
      /\ s1.nodes = n1 /\ s2.nodes = n2 /\ s.nodes = n3 /\ s.known = ks
  BY <1>5, <1>7, <1>9, <1>11, <1>12 DEF States
<1>13. OK(s1, <<>>, All)
  <2>1. OK(r, <<>>, All)
    BY <1>r, Widened
  <2>2. Loaded(s1.nodes[n])
    BY <1>3, <1>5, <1>n, <1>s DEF Loaded
  <2> QED
    BY <1>5, <1>n, <1>s, <2>1, <2>2, ModeSetOK
<1> DEFINE u == <<i, x, n>>
<1>14. OK(s2, u, All)
  <2>1. Listable(s2.nodes, u, i, x, n)
    BY <1>3, <1>5, <1>7, <1>n, <1>s DEF Listable, ChildIs
  <2>2. Gone(s2.nodes, <<>>, u)
    BY NothingGone
  <2>3. Loaded(s1.nodes[i])
    BY <1>2, <1>5, <1>s DEF Loaded
  <2> HIDE DEF u
  <2> QED
    BY <1>2, <1>7, <1>13, <1>s, <2>1, <2>2, <2>3, SetChildOK
<1>15. OK(s, u, All)
  <2>1. Loaded(s2.nodes[i]) /\ Loaded(s.nodes[n]) /\ s.nodes[n].mode # "unused"
    BY <1>2, <1>3, <1>5, <1>7, <1>9, <1>n, <1>s DEF Loaded, ChildIs, InodeIs
  <2>2. v = s2.nodes[i].inodes[x] \/ (Listable(s.nodes, u, i, x, v) /\ (v # NoNode => Loaded(s.nodes[v])))
    BY <1>8, <1>n, <1>s, <2>1 DEF Listable
  <2>3. Gone(s.nodes, u, u)
    BY DEF Gone
  <2> HIDE DEF u
  <2> QED
    BY <1>2, <1>9, <1>14, <1>s, <2>1, <2>2, <2>3, SetInodeOK
<1>16. PICK c, B, w : c = call'[m] /\ B = Excepted(c) /\ w = <<n, i>>
  OBVIOUS
<1>17. w \in Seq(Ids) /\ n \in IdOrNil /\ Len(w) = 2 /\ w # <<>>
  BY <1>2, <1>n, <1>16 DEF IdOrNil
<1>18. c \in Call /\ c.kind = call[m].kind /\ c.dir = i /\ c.name = x /\ c.child = n /\ c.saves = w
  <2>1. Run(m, n3, n, w) /\ TypeOK /\ w \in Seq(Ids) /\ n \in IdOrNil /\ c = call'[m]
    BY <1>t, <1>10, <1>16, <1>17
  <2>2. /\ c \in Call /\ c.kind = call[m].kind /\ c.dir = call[m].dir /\ c.name = call[m].name
        /\ c.child = n /\ c.saves = w
    BY <2>1, RunFields
  <2> QED
    BY <1>0, <2>2
<1>19. B = (IF halfway THEN All ELSE {<<i, x>>}) /\ Unsaved(c) = u
  <2>1. c.saves # <<>> /\ c.kind # "Setattr" /\ c.kind # "Rename" /\ c.kind \in Creating
    BY <1>g, <1>17, <1>18 DEF Creating
  <2> QED
    BY <1>16, <1>17, <1>18, <2>1 DEF Excepted, Changing, All, Unsaved
<1>20. Agree(s.nodes, B)
  <2> SUFFICES ASSUME NEW j \in Ids, NEW y \in Names
               PROVE  <<j, y>> \in B \/ s.nodes[j].inodes[y] \in {NoNode, s.nodes[j].children[y]}
    BY Zenon DEF Agree
  <2>1. halfway \/ r.nodes[j].inodes[y] \in {NoNode, r.nodes[j].children[y]}
    BY <1>r DEF OK, Agree, Always
  <2>2. CASE j = i /\ y = x
    BY <1>19, <2>2 DEF All
  <2>3. CASE ~(j = i /\ y = x)
    <3>1. n1[j].inodes = r.nodes[j].inodes /\ n1[j].children = r.nodes[j].children
      BY <1>5
    <3>2. n2[j].inodes = n1[j].inodes /\ n2[j].children[y] = n1[j].children[y]
      BY <1>7, <2>3 DEF ChildIs
    <3>3. n3[j].inodes[y] = n2[j].inodes[y] /\ n3[j].children = n2[j].children
      BY <1>9, <2>3 DEF InodeIs
    <3> QED
      BY <1>19, <1>s, <2>1, <3>1, <3>2, <3>3 DEF All
  <2> QED
    BY <2>2, <2>3
<1>21. OK(s, Unsaved(c), B)
  <2> HIDE DEF u
  <2> QED
    BY <1>15, <1>19, <1>20, Narrowed
<1>22. ASSUME NEW j \in Ids, Loaded(r.nodes[j]) PROVE Loaded(s.nodes[j])
  BY <1>3, <1>5, <1>7, <1>9, <1>s, <1>22 DEF Loaded, ChildIs, InodeIs
<1>23. Roots(s.nodes)
  BY <1>22, <1>m, <1>r, Constants DEF Roots
<1>24. CallOK(s.nodes, c)'
  <2>1. Loaded(s.nodes[i]) /\ Loaded(s.nodes[n])
    BY <1>2, <1>22, <1>3, <1>5, <1>7, <1>9, <1>n, <1>s DEF Loaded, ChildIs, InodeIs
  <2>2. s.nodes[i].children[x] = n
    BY <1>2, <1>7, <1>9, <1>s DEF ChildIs, InodeIs
  <2>3. CreateOK(s.nodes, c)'
    BY <1>1, <1>2, <1>n, <1>16, <1>18, <2>1, <2>2 DEF CreateOK, Has, Loaded
  <2>4. Has(s.nodes, c.dir)'
    BY <1>2, <1>18, <2>1 DEF Has, Loaded
  <2> QED
    BY <1>g, <1>17, <1>18, <2>3, <2>4 DEF CallOK, Removing, Creating
<1>25. /\ Run(m, s.nodes, n, w) /\ known' = [known EXCEPT ![m] = s.known]
       /\ drawn \subseteq drawn' /\ drawn' \subseteq Fresh
  BY <1>t, <1>1, <1>10, <1>11, <1>16, <1>s DEF TypeOK
<1> QED
  BY <1>s, <1>16, <1>17, <1>21, <1>23, <1>24, <1>25, RunOK

\* What Rename has to save.
LEMMA NewFirstDef ==
    ASSUME NEW child \in Ids, NEW new \in Ids, NEW old \in Ids, NEW w, w = NewFirst(child, new, old)
    PROVE  w \in Seq(Ids) /\ w # <<>> /\ \A n \in 1..Len(w) : w[n] \in {old, new, child}
<1>1. CASE new = old
  <2>1. w = <<child, new>>
    BY <1>1 DEF NewFirst
  <2> QED
    BY <2>1
<1>2. CASE new # old
  <2>1. w = <<child, new, old>>
    BY <1>2 DEF NewFirst
  <2> QED
    BY <2>1
<1> QED
  BY <1>1, <1>2

\* Rename up to its first save.
LEMMA RenameStep ==
    ASSUME Inv, NEW m \in Mounts, Rename(m)
    PROVE  Inv'
<1>t. TypeOK
  BY DEF Inv
<1>m. /\ nodes[m] \in [Ids -> Node] /\ known[m] \in [Keys -> IdOrNil] /\ Roots(nodes[m])
      /\ State(m) \in States /\ call[m] \in Call /\ CallOK(nodes[m], call[m])
  BY IdleMount
<1>g. call[m].kind = "Rename" /\ ~Saving(m)
  BY DEF Rename, Looked
<1>0. PICK r, i, x, j, y, n, w :
          /\ r = State(m) /\ i = call[m].dir /\ x = call[m].name
          /\ j = call[m].to /\ y = call[m].newName /\ n = nodes[m][i].inodes[x] /\ w = NewFirst(n, j, i)
  OBVIOUS
<1>r. r \in States /\ OK(r, <<>>, Always) /\ r.nodes = nodes[m] /\ r.known = known[m]
  BY <1>0, <1>g, IdleMount DEF State
<1>1. /\ n # NoNode /\ known' = known /\ drawn' = drawn
      /\ Run(m, [nodes[m] EXCEPT ![j].children[y] = n, ![i].children[x] = NoNode], n, w)
  BY <1>0 DEF Rename
<1>2. /\ i \in Ids /\ Loaded(r.nodes[i]) /\ x \in Names /\ j \in Ids /\ Loaded(r.nodes[j]) /\ y \in Names
      /\ i # j \/ x # y
  BY <1>0, <1>m, <1>r, <1>g DEF CallOK, Has, Call
<1>n. n \in Ids /\ Loaded(r.nodes[n]) /\ Stored(r.nodes[n].key)
  <2>0. n = r.nodes[i].inodes[x]
    BY <1>0, <1>r
  <2>1. n \in Ids /\ n = r.nodes[i].inodes[x]
    <3>1. r.nodes[i].inodes \in [Names -> IdOrNil]
      BY <1>2, <1>r, NodeFields
    <3> QED
      BY <1>1, <1>2, <2>0, <3>1 DEF IdOrNil
  <2>2. Loaded(r.nodes[n])
    BY <1>1, <1>2, <1>r, <2>1 DEF OK, Inodes
  <2>3. <<>> # <<i, x, n>>
    OBVIOUS
  <2>4. Stored(r.nodes[n].key)
    BY <1>2, <1>r, <2>1, <2>3, Zenon DEF OK, Entries
  <2> QED
    BY <2>1, <2>2, <2>4
<1>w. w \in Seq(Ids) /\ w # <<>> /\ \A q \in 1..Len(w) : w[q] \in {i, j, n}
  <2>1. n \in Ids /\ j \in Ids /\ i \in Ids /\ w = NewFirst(n, j, i)
    BY <1>0, <1>2, <1>n
  <2> QED
    BY <2>1, NewFirstDef
<1>4. PICK n0, n1, n2 : /\ n0 = r.nodes /\ n1 = [n0 EXCEPT ![j].children[y] = n]
                        /\ n2 = [n1 EXCEPT ![i].children[x] = NoNode]
  OBVIOUS
<1>5. n1 \in [Ids -> Node] /\ ChildIs(n0, n1, j, y, n)
  <2>1. n0 \in [Ids -> Node] /\ n \in IdOrNil
    BY <1>m, <1>r, <1>4, <1>n DEF IdOrNil
  <2> QED
    BY <1>2, <1>4, <2>1, ChildSet
<1>6. n2 \in [Ids -> Node] /\ ChildIs(n1, n2, i, x, NoNode)
  <2>1. NoNode \in IdOrNil
    BY DEF IdOrNil
  <2> QED
    BY <1>2, <1>4, <1>5, <2>1, ChildSet
<1>10. Run(m, n2, n, w)
  <2>1. n2 = [nodes[m] EXCEPT ![j].children[y] = n, ![i].children[x] = NoNode]
    BY <1>r, <1>4
  <2> QED
    BY <1>1, <2>1
<1>11. PICK s1, s : s1 = [nodes |-> n1, known |-> known[m]] /\ s = [nodes |-> n2, known |-> known[m]]
  OBVIOUS
<1>s. s1 \in States /\ s \in States /\ s1.nodes = n1 /\ s.nodes = n2 /\ s.known = known[m]
  BY <1>m, <1>5, <1>6, <1>11 DEF States
<1>7. ASSUME NEW q \in Ids
      PROVE  /\ n1[q].key = r.nodes[q].key /\ n1[q].mode = r.nodes[q].mode /\ n1[q].inodes = r.nodes[q].inodes
             /\ n2[q].key = r.nodes[q].key /\ n2[q].mode = r.nodes[q].mode /\ n2[q].inodes = r.nodes[q].inodes
  <2>1. n0 = r.nodes
    BY <1>4
  <2>2. n1[q].key = n0[q].key /\ n1[q].mode = n0[q].mode /\ n1[q].inodes = n0[q].inodes
    BY <1>5 DEF ChildIs
  <2>3. n2[q].key = n1[q].key /\ n2[q].mode = n1[q].mode /\ n2[q].inodes = n1[q].inodes
    BY <1>6 DEF ChildIs
  <2> QED
    BY <2>1, <2>2, <2>3
<1>13. OK(s1, <<>>, All)
  <2>1. Listable(s1.nodes, <<>>, j, y, n)
    BY <1>7, <1>n, <1>s DEF Listable, Loaded
  <2>2. Gone(s1.nodes, <<>>, <<>>)
    BY NothingGone
  <2>3. OK(r, <<>>, Always) /\ ChildIs(r.nodes, s1.nodes, j, y, n) /\ Loaded(r.nodes[j])
    BY <1>2, <1>4, <1>5, <1>r, <1>s
  <2> QED
    BY <1>2, <1>s, <2>1, <2>2, <2>3, SetChildOK
<1>14. OK(s, <<>>, All)
  <2>1. Listable(s.nodes, <<>>, i, x, NoNode)
    BY DEF Listable
  <2>2. Gone(s.nodes, <<>>, <<>>)
    BY NothingGone
  <2>3. ChildIs(s1.nodes, s.nodes, i, x, NoNode) /\ Loaded(s1.nodes[i])
    BY <1>2, <1>6, <1>7, <1>s DEF Loaded
  <2> QED
    BY <1>2, <1>13, <1>s, <2>1, <2>2, <2>3, SetChildOK
<1>16. PICK c, B : c = call'[m] /\ B = Excepted(c)
  OBVIOUS
<1>18. /\ c \in Call /\ c.kind = "Rename" /\ c.dir = i /\ c.name = x /\ c.to = j /\ c.newName = y
       /\ c.child = n /\ c.saves = w
  <2>1. Run(m, n2, n, w) /\ TypeOK /\ w \in Seq(Ids) /\ n \in IdOrNil /\ c = call'[m]
    BY <1>t, <1>10, <1>16, <1>n, <1>w DEF IdOrNil
  <2>2. /\ c \in Call /\ c.kind = call[m].kind /\ c.dir = call[m].dir /\ c.name = call[m].name
        /\ c.to = call[m].to /\ c.newName = call[m].newName /\ c.child = n /\ c.saves = w
    BY <2>1, RunFields
  <2> QED
    BY <1>0, <1>g, <2>2
<1>19. B = (IF halfway THEN All ELSE {<<i, x>>, <<j, y>>}) /\ Unsaved(c) = <<>>
  <2>1. c.saves # <<>> /\ c.kind = "Rename" /\ c.kind \notin Creating
    BY <1>w, <1>18 DEF Creating
  <2> QED
    BY <1>16, <1>18, <2>1 DEF Excepted, Changing, All, Unsaved
<1>20. Agree(s.nodes, B)
  <2> SUFFICES ASSUME NEW q \in Ids, NEW z \in Names
               PROVE  <<q, z>> \in B \/ s.nodes[q].inodes[z] \in {NoNode, s.nodes[q].children[z]}
    BY Zenon DEF Agree
  <2>1. halfway \/ r.nodes[q].inodes[z] \in {NoNode, r.nodes[q].children[z]}
    BY <1>r DEF OK, Agree, Always
  <2>2. CASE (q = i /\ z = x) \/ (q = j /\ z = y)
    BY <1>19, <2>2 DEF All
  <2>3. CASE ~((q = i /\ z = x) \/ (q = j /\ z = y))
    <3>1. n1[q].children[z] = n0[q].children[z]
      BY <1>5, <2>3 DEF ChildIs
    <3>2. n2[q].children[z] = n1[q].children[z]
      BY <1>6, <2>3 DEF ChildIs
    <3> QED
      BY <1>4, <1>7, <1>19, <1>s, <2>1, <3>1, <3>2 DEF All
  <2> QED
    BY <2>2, <2>3
<1>21. OK(s, Unsaved(c), B)
  BY <1>14, <1>19, <1>20, Narrowed
<1>22. ASSUME NEW q \in Ids, Loaded(r.nodes[q]) PROVE Loaded(s.nodes[q])
  BY <1>7, <1>s, <1>22 DEF Loaded
<1>23. Roots(s.nodes)
  BY <1>22, <1>m, <1>r, Constants DEF Roots
<1>24. CallOK(s.nodes, c)'
  <2>1. Loaded(s.nodes[i]) /\ Loaded(s.nodes[j]) /\ Loaded(s.nodes[n]) /\ s.nodes[n].key = r.nodes[n].key
    BY <1>2, <1>7, <1>22, <1>n, <1>s
  <2>2. s.nodes[j].children[y] = n /\ s.nodes[i].children[x] = NoNode
    BY <1>2, <1>5, <1>6, <1>s DEF ChildIs
  <2>3. store' = store
    BY <1>1 DEF Run
  <2>4. Stored(s.nodes[n].key)'
    BY <1>n, <2>1, <2>3 DEF Stored
  <2>5. Has(s.nodes, c.child)' /\ Has(s.nodes, c.dir)' /\ Has(s.nodes, c.to)'
    BY <1>2, <1>18, <1>n, <2>1 DEF Has, Loaded
  <2>6. RenameOK(s.nodes, c)'
    BY <1>18, <1>w, <2>2, <2>4, <2>5 DEF RenameOK
  <2> QED
    BY <1>2, <1>18, <2>5, <2>6 DEF CallOK, Removing, Creating
<1>25. /\ Run(m, s.nodes, n, w) /\ known' = [known EXCEPT ![m] = s.known]
       /\ drawn \subseteq drawn' /\ drawn' \subseteq Fresh /\ n \in IdOrNil
  BY <1>t, <1>1, <1>10, <1>n, <1>s DEF TypeOK, IdOrNil
<1> QED
  BY <1>s, <1>w, <1>16, <1>21, <1>23, <1>24, <1>25, RunOK

--------------------------------------------------------------------------------
(* The saves. *)

\* The node that is saved next is loaded.
LEMMA SavedLoaded ==
    ASSUME Inv, NEW m \in Mounts, Saving(m)
    PROVE  /\ call[m].kind \in Creating \cup Removing \cup {"Rename", "Setattr"}
           /\ Saved(m) \in Ids /\ Loaded(nodes[m][Saved(m)])
           /\ Len(call[m].saves) \in Nat \ {0}
<1>m. call[m] \in Call /\ CallOK(nodes[m], call[m])
  BY IdleMount
<1>0. PICK c, ns, w : c = call[m] /\ ns = nodes[m] /\ w = c.saves
  OBVIOUS
<1>1. w # <<>> /\ w \in Seq(Ids) /\ CallOK(ns, c) /\ c \in Call
  BY <1>m, <1>0 DEF Saving, Call
<1>2. c.kind # "none"
  BY <1>0, <1>1 DEF CallOK
<1>3. c.kind \in Creating \cup Removing \cup {"Rename", "Setattr"}
  BY <1>1, <1>2 DEF Call
<1>4. Has(ns, c.dir)
  BY <1>1, <1>2 DEF CallOK
<1>5. Len(w) \in Nat \ {0} /\ Head(w) = w[1]
  BY <1>1
<1>6. Has(ns, w[1])
  <2>1. CASE c.kind \in Creating
    <3>1. CreateOK(ns, c)
      BY <1>0, <1>1, <2>1 DEF CallOK
    <3>2. Has(ns, c.child) /\ (w = <<c.child, c.dir>> \/ w = <<c.dir>>)
      BY <1>0, <3>1 DEF CreateOK
    <3> QED
      BY <1>4, <3>2
  <2>2. CASE c.kind \in Removing
    <3>1. RemoveOK(ns, c)
      BY <1>0, <1>1, <2>2 DEF CallOK
    <3> QED
      BY <1>0, <1>4, <3>1 DEF RemoveOK
  <2>3. CASE c.kind = "Rename"
    <3>1. RenameOK(ns, c) /\ Has(ns, c.to)
      BY <1>0, <1>1, <2>3 DEF CallOK
    <3>2. w[1] \in {c.dir, c.to, c.child} /\ Has(ns, c.child)
      BY <1>0, <1>5, <3>1 DEF RenameOK
    <3> QED
      BY <1>4, <3>1, <3>2
  <2>4. CASE c.kind = "Setattr"
    BY <1>0, <1>1, <1>4, <2>4 DEF CallOK
  <2> QED
    BY <1>3, <2>1, <2>2, <2>3, <2>4
<1> QED
  BY <1>0, <1>3, <1>5, <1>6 DEF Has, Saved

\* What the server makes of a save.
LEMMA PublishOK ==
    ASSUME Inv, NEW m \in Mounts, Saving(m), Publish(m, Saved(m)),
           NEW k, k = nodes[m][Saved(m)].key
    PROVE  /\ store' \in [Keys -> Entry]
           /\ pending' \in [Mounts -> SUBSET [key : Keys, version : Nat]]
           /\ NoDanglingEntry'
           /\ \A d \in Keys : Stored(d) => Stored(d)'
           /\ Stored(k)'
<1>t. TypeOK /\ NoDanglingEntry /\ MountOK(m)
  BY DEF Inv
<1>m. State(m) \in States /\ nodes[m] \in [Ids -> Node] /\ call[m] \in Call /\ CallOK(nodes[m], call[m])
  BY IdleMount
<1>p. PICK i, ns, e : i = Saved(m) /\ ns = nodes[m] /\ e = Serialized(m, i)
  OBVIOUS
<1>0. i = Saved(m) /\ ns = nodes[m] /\ e = Serialized(m, i) /\ k = ns[i].key
  BY <1>p
<1>1. /\ store' = [store EXCEPT ![k] = e]
      /\ pending' = [d \in Mounts |-> IF d = m THEN pending[d]
                                      ELSE pending[d] \cup {[key |-> k, version |-> e.version]}]
  BY <1>0 DEF Publish
<1>2. i \in Ids /\ Loaded(ns[i]) /\ ns \in [Ids -> Node]
  BY <1>0, <1>m, SavedLoaded
<1>3. /\ k \in Keys /\ ns[i].version \in Nat /\ ns[i].mode \in {"file", "dir"}
      /\ ns[i].children \in [Names -> IdOrNil]
  BY <1>0, <1>2 DEF Node, Loaded
<1>4. ASSUME NEW x \in Names, ns[i].children[x] # NoNode
      PROVE  ns[i].children[x] \in Ids /\ ns[ns[i].children[x]].key \in Keys
  <2>1. ns[i].children[x] \in Ids
    BY <1>3, <1>4 DEF IdOrNil
  <2> QED
    BY <1>2, <2>1 DEF Node
<1>5. /\ e.version = ns[i].version + 1 /\ e.mode = ns[i].mode
      /\ e.children = [x \in Names |-> IF ns[i].children[x] = NoNode THEN NoKey ELSE ns[ns[i].children[x]].key]
      /\ e = [version |-> e.version, mode |-> e.mode, children |-> e.children]
  BY <1>0 DEF Serialized
<1>6. e.children \in [Names -> Keys \cup {NoKey}]
  BY <1>4, <1>5
<1>7. e \in Entry /\ e.version \in Nat /\ e.version > 0
  BY <1>3, <1>5, <1>6 DEF Entry
<1>8. store \in [Keys -> Entry] /\ pending \in [Mounts -> SUBSET [key : Keys, version : Nat]]
  BY <1>t DEF TypeOK
<1>9. store' \in [Keys -> Entry] /\ store'[k] = e /\ \A d \in Keys \ {k} : store'[d] = store[d]
  BY <1>1, <1>3, <1>7, <1>8
<1>10. pending' \in [Mounts -> SUBSET [key : Keys, version : Nat]]
  BY <1>1, <1>3, <1>7, <1>8
<1>11. Stored(k)'
  BY <1>7, <1>9 DEF Stored
<1>12. \A d \in Keys : Stored(d) => Stored(d)'
  BY <1>9, <1>11 DEF Stored
<1>13. ASSUME NEW x \in Names, e.children[x] # NoKey PROVE e.children[x] \in Keys /\ Stored(e.children[x])'
  <2>1. PICK c : c = ns[i].children[x]
    OBVIOUS
  <2>2. c # NoNode /\ e.children[x] = ns[c].key
    BY <1>5, <1>13, <2>1
  <2>3. c \in Ids /\ ns[c].key \in Keys
    BY <1>4, <2>1, <2>2
  <2>4. Stored(ns[c].key) \/ Unsaved(call[m]) = <<i, x, c>>
    <3>1. Entries(ns, Unsaved(call[m]))
      BY <1>0, <1>t DEF MountOK, OK, State
    <3> QED
      BY <1>2, <2>1, <2>3, <3>1 DEF Entries
  <2>5. CASE Stored(ns[c].key)
    BY <1>12, <2>2, <2>3, <2>5
  <2>6. CASE Unsaved(call[m]) = <<i, x, c>>
    <3>1. PICK cm : cm = call[m]
      OBVIOUS
    <3>2. cm.kind \in Creating /\ Len(cm.saves) = 2 /\ <<cm.dir, cm.name, cm.child>> = <<i, x, c>>
      BY <2>6, <3>1 DEF Unsaved
    <3>3. cm.child = c
      BY <3>2
    <3>4. cm.saves # <<>>
      BY <3>1 DEF Saving
    <3>5. CreateOK(ns, cm)
      BY <1>0, <1>m, <3>1, <3>2, <3>4 DEF CallOK
    <3>6. cm.saves = <<cm.child, cm.dir>>
      BY <3>2, <3>5 DEF CreateOK
    <3>7. i = c
      BY <1>0, <3>1, <3>3, <3>6 DEF Saved
    <3> QED
      BY <1>0, <1>11, <2>2, <2>3, <3>7
  <2> QED
    BY <2>4, <2>5, <2>6
<1>14. NoDanglingEntry'
  <2> SUFFICES ASSUME NEW d \in Keys, NEW x \in Names, store'[d].children[x] # NoKey
               PROVE  store'[store'[d].children[x]].version > 0
    BY DEF NoDanglingEntry
  <2>1. CASE d = k
    BY <1>9, <1>13, <2>1 DEF Stored
  <2>2. CASE d # k
    <3>1. store'[d] = store[d]
      BY <1>9, <2>2
    <3>2. store[d].children[x] \in Keys /\ Stored(store[d].children[x])
      BY <1>t, <1>8, <3>1 DEF NoDanglingEntry, Stored, Entry
    <3> QED
      BY <1>12, <3>1, <3>2 DEF Stored
  <2> QED
    BY <2>1, <2>2
<1> QED
  BY <1>9, <1>10, <1>11, <1>12, <1>14

\* The end of a call.
LEMMA Finished ==
    ASSUME Inv, NEW m \in Mounts, NEW s \in States, NEW A, NEW B, B = Always', A \subseteq B, OK(s, <<>>, A),
           nodes' = [nodes EXCEPT ![m] = s.nodes], s.known = known[m], Return(m), Roots(s.nodes),
           UNCHANGED <<known, drawn, calls>>, halfway => halfway', halfway' \in BOOLEAN,
           alive' \subseteq drawn, store' \in [Keys -> Entry],
           pending' \in [Mounts -> SUBSET [key : Keys, version : Nat]],
           NoDanglingEntry', \A k \in Keys : Stored(k) => Stored(k)'
    PROVE  Inv'
<1>t. TypeOK
  BY DEF Inv
<1>u. call' = [call EXCEPT ![m] = NoCall]
  BY DEF Return
<1>0. PICK c : c = NoCall
  OBVIOUS
<1>c. c \in Call /\ Unsaved(c) = <<>> /\ c.kind = "none" /\ c.saves = <<>>
  BY <1>0, NoCallFields
<1>1. s.nodes \in [Ids -> Node]
  BY DEF States
<1>2. TypeOK'
  <2>1. nodes' \in [Mounts -> [Ids -> Node]] /\ call' \in [Mounts -> Call]
    BY <1>0, <1>1, <1>c, <1>u, <1>t DEF TypeOK
  <2> QED
    BY <1>t, <2>1 DEF TypeOK
<1>4. nodes'[m] = s.nodes /\ known'[m] = s.known /\ call'[m] = c
  BY <1>0, <1>1, <1>u, <1>t DEF TypeOK
<1>5. Apart(m)
  BY <1>u, <1>t DEF Apart, TypeOK
<1>6. CallOK(s.nodes, c)'
  BY <1>c DEF CallOK, Creating, Removing
<1>7. B = Excepted(c)'
  BY <1>c DEF Excepted, Changing, Always
<1>8. OK(s, Unsaved(c), B)'
  <2>1. OK(s, <<>>, B)'
    BY StoreGrows
  <2> QED
    BY <1>c, <2>1
<1> QED
  BY <1>c, <1>2, <1>4, <1>5, <1>6, <1>7, <1>8, ActorOK

\* What is known of the call, in a mount whose versions and marks have changed.
LEMMA SavingMount ==
    ASSUME Inv, NEW m \in Mounts, Saving(m), NEW ns \in [Ids -> Node], Alike(nodes[m], ns),
           NEW s, s = [nodes |-> ns, known |-> known[m]], NEW c, c = call[m]
    PROVE  /\ s \in States /\ s.nodes = ns /\ s.known = known[m]
           /\ OK(s, Unsaved(c), Excepted(c)) /\ Roots(ns) /\ CallOK(ns, c) /\ c \in Call
<1>1. MountOK(m) /\ known[m] \in [Keys -> IdOrNil] /\ c \in Call
  BY DEF Inv, TypeOK
<1>2. s \in States /\ s.nodes = ns /\ s.known = known[m]
  BY <1>1 DEF States
<1>3. PICK r, u, A : r = State(m) /\ u = Unsaved(c) /\ A = Excepted(c)
  OBVIOUS
<1>4. OK(r, u, A) /\ Alike(r.nodes, s.nodes) /\ CallOK(r.nodes, c) /\ Roots(r.nodes) /\ r \in States
  BY <1>1, <1>2, <1>3 DEF MountOK, State, OK
<1>5. OK(s, u, A)
  BY <1>2, <1>4, AlikeOK
<1>6. CallOK(s.nodes, c)
  BY <1>1, <1>2, <1>4, AlikeCall
<1>7. Roots(s.nodes)
  BY <1>4, Constants DEF Alike, Roots, Loaded
<1> QED
  BY <1>1, <1>2, <1>3, <1>5, <1>6, <1>7

\* The state of a mount from its two parts.
LEMMA StateOf ==
    ASSUME NEW ns \in [Ids -> Node], NEW ks \in [Keys -> IdOrNil], NEW t, t = [nodes |-> ns, known |-> ks]
    PROVE  t \in States /\ t.nodes = ns /\ t.known = ks
BY DEF States

\* Where entry i, x of the tree is set and all others agree, all of them do.
LEMMA InodeAgrees ==
    ASSUME NEW ns, NEW new, NEW i, NEW x, NEW v, InodeIs(ns, new, i, x, v), NEW A, NEW B,
           Agree(ns, A), A \subseteq B \cup {<<i, x>>},
           <<i, x>> \in B \/ v \in {NoNode, ns[i].children[x]}
    PROVE  Agree(new, B)
<1> SUFFICES ASSUME NEW j \in Ids, NEW y \in Names
             PROVE  <<j, y>> \in B \/ new[j].inodes[y] \in {NoNode, new[j].children[y]}
  BY Zenon DEF Agree
<1>1. <<j, y>> \in A \/ ns[j].inodes[y] \in {NoNode, ns[j].children[y]}
  BY Zenon DEF Agree
<1>2. new[j].children = ns[j].children /\ new[j].inodes[y] = IF j = i /\ y = x THEN v ELSE ns[j].inodes[y]
  BY Zenon DEF InodeIs
<1>3. CASE j = i /\ y = x
  BY <1>2, <1>3
<1>4. CASE ~(j = i /\ y = x)
  <2>1. <<j, y>> # <<i, x>>
    BY <1>4
  <2> QED
    BY <1>1, <1>2, <1>4, <2>1
<1> QED
  BY <1>3, <1>4

\* Where entry i, x of Children is set and all others agree, all of them do.
LEMMA ChildAgrees ==
    ASSUME NEW ns, NEW new, NEW i, NEW x, NEW v, ChildIs(ns, new, i, x, v), NEW A, NEW B,
           Agree(ns, A), A \subseteq B \cup {<<i, x>>},
           <<i, x>> \in B \/ ns[i].inodes[x] \in {NoNode, v}
    PROVE  Agree(new, B)
<1> SUFFICES ASSUME NEW j \in Ids, NEW y \in Names
             PROVE  <<j, y>> \in B \/ new[j].inodes[y] \in {NoNode, new[j].children[y]}
  BY Zenon DEF Agree
<1>1. <<j, y>> \in A \/ ns[j].inodes[y] \in {NoNode, ns[j].children[y]}
  BY Zenon DEF Agree
<1>2. new[j].inodes = ns[j].inodes /\ new[j].children[y] = IF j = i /\ y = x THEN v ELSE ns[j].children[y]
  BY Zenon DEF ChildIs
<1>3. CASE j = i /\ y = x
  BY <1>2, <1>3
<1>4. CASE ~(j = i /\ y = x)
  <2>1. <<j, y>> # <<i, x>>
    BY <1>4
  <2> QED
    BY <1>1, <1>2, <1>4, <2>1
<1> QED
  BY <1>3, <1>4

\* Entry i, x of the tree, or of Children, may be set to v.
InodeMay(s, A, B, i, x, v) ==
    /\ i \in Ids /\ x \in Names /\ Loaded(s.nodes[i])
    /\ v # NoNode => v \in Ids /\ Loaded(s.nodes[v]) /\ Stored(s.nodes[v].key)
    /\ A \subseteq B \cup {<<i, x>>}
    /\ <<i, x>> \in B \/ v \in {NoNode, s.nodes[i].children[x]}
ChildMay(s, A, B, i, x, v) ==
    /\ i \in Ids /\ x \in Names /\ Loaded(s.nodes[i])
    /\ v # NoNode => v \in Ids /\ s.nodes[v].mode # "unused" /\ Stored(s.nodes[v].key)
    /\ A \subseteq B \cup {<<i, x>>}
    /\ <<i, x>> \in B \/ s.nodes[i].inodes[x] \in {NoNode, v}
WithInode(s, i, x, v) == [nodes |-> [s.nodes EXCEPT ![i].inodes[x] = v], known |-> s.known]
WithChild(s, i, x, v) == [nodes |-> [s.nodes EXCEPT ![i].children[x] = v], known |-> s.known]

\* The entry that was not stored has been removed.
Dropped(s, u, w, i, x, v) ==
    w = u \/ (v = NoNode /\ s.nodes[i].inodes[x] = NoNode /\ \E n : u = <<i, x, n>>)

InodeDone(s, t, u, B, i, x, v) ==
    /\ t \in States /\ OK(t, u, B) /\ t.nodes = [s.nodes EXCEPT ![i].inodes[x] = v]
    /\ t.known = s.known /\ InodeIs(s.nodes, t.nodes, i, x, v)
ChildDone(s, t, u, B, i, x, v) ==
    /\ t \in States /\ OK(t, u, B) /\ t.nodes = [s.nodes EXCEPT ![i].children[x] = v]
    /\ t.known = s.known /\ ChildIs(s.nodes, t.nodes, i, x, v)

\* One entry of the tree is set.
LEMMA InodeStep ==
    ASSUME NEW s, NEW u, NEW A, OK(s, u, A), NEW i, NEW x, NEW v, NEW B,
           InodeMay(s, A, B, i, x, v), NEW t, t = WithInode(s, i, x, v)
    PROVE  InodeDone(s, t, u, B, i, x, v)
<1>m. /\ i \in Ids /\ x \in Names /\ Loaded(s.nodes[i])
      /\ v # NoNode => v \in Ids /\ Loaded(s.nodes[v]) /\ Stored(s.nodes[v].key)
      /\ A \subseteq B \cup {<<i, x>>}
      /\ <<i, x>> \in B \/ v \in {NoNode, s.nodes[i].children[x]}
  BY Zenon DEF InodeMay
<1>0. PICK ns, ks, new : ns = s.nodes /\ ks = s.known /\ new = [ns EXCEPT ![i].inodes[x] = v]
  OBVIOUS
<1>1. ns \in [Ids -> Node] /\ ks \in [Keys -> IdOrNil] /\ v \in IdOrNil
  BY <1>0, <1>m DEF OK, States, IdOrNil
<1>2. new \in [Ids -> Node] /\ InodeIs(ns, new, i, x, v)
  BY <1>0, <1>1, <1>m, InodeSet
<1>3. t = [nodes |-> new, known |-> ks]
  BY <1>0 DEF WithInode, WithChild
<1>4. t \in States /\ t.nodes = new /\ t.known = ks
  BY <1>1, <1>2, <1>3, StateOf
<1>5. InodeIs(s.nodes, t.nodes, i, x, v)
  BY <1>0, <1>2, <1>4
<1>6. Listable(t.nodes, u, i, x, v) /\ (v # NoNode => Loaded(t.nodes[v]))
  BY <1>5, <1>m DEF Listable, InodeIs, Loaded
<1>7. Gone(t.nodes, u, u)
  BY DEF Gone
<1>8. OK(t, u, All)
  BY <1>4, <1>5, <1>6, <1>7, <1>m, SetInodeOK
<1>9. Agree(t.nodes, B)
  <2>1. Agree(s.nodes, A)
    BY DEF OK
  <2> QED
    BY <1>5, <1>m, <2>1, InodeAgrees
<1>10. OK(t, u, B)
  BY <1>8, <1>9, Narrowed
<1> QED
  BY <1>0, <1>4, <1>5, <1>10 DEF InodeDone

\* One entry of Children is set.
LEMMA ChildStep ==
    ASSUME NEW s, NEW u, NEW A, OK(s, u, A), NEW i, NEW x, NEW v, NEW B,
           ChildMay(s, A, B, i, x, v), NEW w, Dropped(s, u, w, i, x, v),
           NEW t, t = WithChild(s, i, x, v)
    PROVE  ChildDone(s, t, w, B, i, x, v)
<1>m. /\ i \in Ids /\ x \in Names /\ Loaded(s.nodes[i])
      /\ v # NoNode => v \in Ids /\ s.nodes[v].mode # "unused" /\ Stored(s.nodes[v].key)
      /\ A \subseteq B \cup {<<i, x>>}
      /\ <<i, x>> \in B \/ s.nodes[i].inodes[x] \in {NoNode, v}
  BY Zenon DEF ChildMay
<1>d. w = u \/ (v = NoNode /\ s.nodes[i].inodes[x] = NoNode /\ \E n : u = <<i, x, n>>)
  BY Zenon DEF Dropped
<1>0. PICK ns, ks, new : ns = s.nodes /\ ks = s.known /\ new = [ns EXCEPT ![i].children[x] = v]
  OBVIOUS
<1>1. ns \in [Ids -> Node] /\ ks \in [Keys -> IdOrNil] /\ v \in IdOrNil
  BY <1>0, <1>m DEF OK, States, IdOrNil
<1>2. new \in [Ids -> Node] /\ ChildIs(ns, new, i, x, v)
  BY <1>0, <1>1, <1>m, ChildSet
<1>3. t = [nodes |-> new, known |-> ks]
  BY <1>0 DEF WithInode, WithChild
<1>4. t \in States /\ t.nodes = new /\ t.known = ks
  BY <1>1, <1>2, <1>3, StateOf
<1>5. ChildIs(s.nodes, t.nodes, i, x, v)
  BY <1>0, <1>2, <1>4
<1>6. Listable(t.nodes, w, i, x, v)
  BY <1>5, <1>m DEF Listable, ChildIs
<1>7. Gone(t.nodes, u, w)
  <2>1. CASE w = u
    BY <2>1 DEF Gone
  <2>2. CASE w # u
    <3>1. v = NoNode /\ s.nodes[i].inodes[x] = NoNode
      BY <1>d, <2>2
    <3>2. PICK n : u = <<i, x, n>>
      BY <1>d, <2>2
    <3>3. ASSUME NEW j \in Ids, NEW y \in Names, NEW c \in Ids, u = <<j, y, c>>
          PROVE  t.nodes[j].children[y] # c /\ t.nodes[j].inodes[y] # c
      <4>1. j = i /\ y = x /\ c # NoNode
        BY <3>2, <3>3, Constants
      <4> QED
        BY <1>5, <1>m, <3>1, <4>1 DEF ChildIs
    <3> QED
      BY <3>3 DEF Gone
  <2> QED
    BY <2>1, <2>2
<1>8. OK(t, w, All)
  BY <1>4, <1>5, <1>6, <1>7, <1>m, SetChildOK
<1>9. Agree(t.nodes, B)
  <2>1. Agree(s.nodes, A)
    BY DEF OK
  <2> QED
    BY <1>5, <1>m, <2>1, ChildAgrees
<1>10. OK(t, w, B)
  BY <1>8, <1>9, Narrowed
<1> QED
  BY <1>0, <1>4, <1>5, <1>10 DEF ChildDone

\* How many nodes are left to save.
LEMMA LastSave ==
    ASSUME NEW S, NEW q \in Seq(S), q # <<>>, ~(Len(q) > 1)
    PROVE  Len(q) = 1
<1>1. Len(q) \in Nat /\ Len(q) # 0
  OBVIOUS
<1> QED
  BY <1>1

\* One save is not two.
LEMMA TwoSaves == ASSUME NEW q, NEW a, NEW b, Len(q) = 1 PROVE q # <<a, b>>
<1>1. Len(<<a, b>>) = 2
  OBVIOUS
<1>2. ASSUME q = <<a, b>> PROVE FALSE
  <2>1. Len(q) = Len(<<a, b>>)
    BY <1>2
  <2> QED
    BY <1>1, <2>1
<1> QED
  BY <1>2

\* The entries that a call which saves has changed.
LEMMA ExceptedDef ==
    ASSUME NEW c, c.saves # <<>>
    PROVE  /\ c.kind = "Setattr" => Excepted(c) = Always
           /\ c.kind = "Rename" => Excepted(c) \subseteq Always \cup {<<c.dir, c.name>>, <<c.to, c.newName>>}
           /\ c.kind \in Creating \cup Removing => Excepted(c) \subseteq Always \cup {<<c.dir, c.name>>}
<1>1. CASE halfway
  BY <1>1 DEF Excepted, Always
<1>2. CASE ~halfway
  BY <1>2 DEF Excepted, Changing, Always, Creating, Removing
<1> QED
  BY <1>1, <1>2

\* The first directories stay loaded where no mode changes.
LEMMA RootsKept ==
    ASSUME NEW ns, NEW new, Roots(ns), \A j \in Ids : new[j].mode = ns[j].mode
    PROVE  Roots(new)
BY Constants DEF Roots, Loaded

\* A mount at the end of a call.
Ended(m, t, new, B) ==
    t \in States /\ t.nodes = new /\ t.known = known[m] /\ OK(t, <<>>, B) /\ Roots(t.nodes)

\* A new node is entered in the tree.
LEMMA AppliedCreate ==
    ASSUME NEW m, NEW s \in States, NEW c, c = call[m], NEW ns, s.nodes = ns, s.known = known[m], NEW A, NEW B,
           OK(s, <<>>, A), Roots(ns), A = Excepted(c), B = Always, c.saves # <<>>,
           c.kind \in Creating, Has(ns, c.dir), c.name \in Names,
           Has(ns, c.child), Stored(ns[c.child].key), ns[c.dir].children[c.name] = c.child
    PROVE  \E t : Ended(m, t, Applied(m, ns), B)
<1>1. PICK i, x, n, t : i = c.dir /\ x = c.name /\ n = c.child /\ t = WithInode(s, i, x, n)
  OBVIOUS
<1>2. Applied(m, ns) = [ns EXCEPT ![i].inodes[x] = n]
  BY <1>1 DEF Applied, Creating, Removing
<1>3. A \subseteq B \cup {<<i, x>>}
  BY <1>1, ExceptedDef
<1>4. InodeMay(s, A, B, i, x, n)
  BY <1>1, <1>3 DEF InodeMay, Has
<1>5. t = WithInode(s, i, x, n)
  BY <1>1
<1>6. InodeDone(s, t, <<>>, B, i, x, n)
  BY <1>4, <1>5, InodeStep, Zenon
<1>7. Roots(t.nodes)
  BY <1>6, RootsKept DEF InodeDone, InodeIs
<1>8. Ended(m, t, Applied(m, ns), B)
  BY <1>2, <1>6, <1>7 DEF Ended, InodeDone
<1> QED
  BY <1>8

\* A removed node leaves the tree.
LEMMA AppliedRemove ==
    ASSUME NEW m, NEW s \in States, NEW c, c = call[m], NEW ns, s.nodes = ns, s.known = known[m], NEW A, NEW B,
           OK(s, <<>>, A), Roots(ns), A = Excepted(c), B = Always, c.saves # <<>>,
           c.kind \in Removing, Has(ns, c.dir), c.name \in Names
    PROVE  \E t : Ended(m, t, Applied(m, ns), B)
<1>1. PICK i, x, n, t : i = c.dir /\ x = c.name /\ n = NoNode /\ t = WithInode(s, i, x, n)
  OBVIOUS
<1>2. Applied(m, ns) = [ns EXCEPT ![i].inodes[x] = n]
  BY <1>1 DEF Applied, Creating, Removing
<1>3. A \subseteq B \cup {<<i, x>>}
  BY <1>1, ExceptedDef
<1>4. InodeMay(s, A, B, i, x, n)
  BY <1>1, <1>3 DEF InodeMay, Has
<1>5. t = WithInode(s, i, x, n)
  BY <1>1
<1>6. InodeDone(s, t, <<>>, B, i, x, n)
  BY <1>4, <1>5, InodeStep, Zenon
<1>7. Roots(t.nodes)
  BY <1>6, RootsKept DEF InodeDone, InodeIs
<1>8. Ended(m, t, Applied(m, ns), B)
  BY <1>2, <1>6, <1>7 DEF Ended, InodeDone
<1> QED
  BY <1>8

\* A renamed node leaves its old place in the tree and gets the new one.
LEMMA AppliedRename ==
    ASSUME NEW m, NEW s \in States, NEW c, c = call[m], NEW ns, s.nodes = ns, s.known = known[m], NEW A, NEW B,
           OK(s, <<>>, A), Roots(ns), A = Excepted(c), B = Always, c.saves # <<>>,
           c.kind = "Rename", Has(ns, c.dir), c.name \in Names, Has(ns, c.to), c.newName \in Names,
           Has(ns, c.child), Stored(ns[c.child].key), ns[c.to].children[c.newName] = c.child
    PROVE  \E t : Ended(m, t, Applied(m, ns), B)
<1>1. PICK i, x, j, y, n, no, D, r, t :
        /\ i = c.dir /\ x = c.name /\ j = c.to /\ y = c.newName /\ n = c.child /\ no = NoNode
        /\ D = B \cup {<<j, y>>} /\ r = WithInode(s, i, x, no) /\ t = WithInode(r, j, y, n)
  OBVIOUS
<1>2. Applied(m, ns) = [ns EXCEPT ![i].inodes[x] = no, ![j].inodes[y] = n]
  BY <1>1 DEF Applied, Creating, Removing
<1>3. A \subseteq D \cup {<<i, x>>} /\ D \subseteq B \cup {<<j, y>>}
  BY <1>1, ExceptedDef
<1>4. InodeMay(s, A, D, i, x, no)
  BY <1>1, <1>3 DEF InodeMay, Has
<1>5. r = WithInode(s, i, x, no)
  BY <1>1
<1>6. InodeDone(s, r, <<>>, D, i, x, no)
  BY <1>4, <1>5, InodeStep, Zenon
<1>7. InodeMay(r, D, B, j, y, n)
  <2>1. j \in Ids /\ y \in Names /\ Loaded(s.nodes[j]) /\ n \in Ids /\ Loaded(s.nodes[n]) /\ Stored(s.nodes[n].key)
        /\ s.nodes[j].children[y] = n
    BY <1>1 DEF Has
  <2>2. /\ Loaded(r.nodes[j]) /\ Loaded(r.nodes[n]) /\ Stored(r.nodes[n].key) /\ r.nodes[j].children[y] = n
    BY <1>6, <2>1 DEF InodeDone, InodeIs, Loaded
  <2> QED
    BY <1>3, <2>1, <2>2 DEF InodeMay
<1>8. t = WithInode(r, j, y, n)
  BY <1>1
<1>9. InodeDone(r, t, <<>>, B, j, y, n)
  <2>1. OK(r, <<>>, D)
    BY <1>6 DEF InodeDone
  <2> QED
    BY <1>7, <1>8, <2>1, InodeStep, Zenon
<1>10. Roots(t.nodes)
  <2>1. Roots(r.nodes)
    BY <1>6, RootsKept DEF InodeDone, InodeIs
  <2> QED
    BY <1>9, <2>1, RootsKept DEF InodeDone, InodeIs
<1>11. t.nodes = Applied(m, ns)
  BY <1>2, <1>6, <1>9 DEF InodeDone
<1>12. Ended(m, t, Applied(m, ns), B)
  BY <1>6, <1>9, <1>10, <1>11 DEF Ended, InodeDone
<1> QED
  BY <1>12

\* go-fuse's part of a call that is done.
LEMMA AppliedOK ==
    ASSUME Inv, NEW m \in Mounts, Saving(m), ~(Len(call[m].saves) > 1),
           NEW ns \in [Ids -> Node], Alike(nodes[m], ns)
    PROVE  \E t : Ended(m, t, Applied(m, ns), Always)
<1>0. PICK s, c, A, B : /\ s = [nodes |-> ns, known |-> known[m]] /\ c = call[m]
                        /\ A = Excepted(c) /\ B = Always
  OBVIOUS
<1>1. /\ s \in States /\ s.nodes = ns /\ s.known = known[m]
      /\ OK(s, Unsaved(c), A) /\ Roots(ns) /\ CallOK(ns, c) /\ c \in Call
  BY <1>0, SavingMount
<1>2. c.kind \in Creating \cup Removing \cup {"Rename", "Setattr"} /\ Len(c.saves) = 1 /\ c.saves # <<>>
  <2>1. c.saves # <<>> /\ c.saves \in Seq(Ids) /\ ~(Len(c.saves) > 1)
    BY <1>0, <1>1 DEF Saving, Call
  <2>2. Len(c.saves) = 1
    BY <2>1, LastSave
  <2>3. c.kind # "none"
    BY <1>1, <2>1 DEF CallOK
  <2> QED
    BY <1>1, <2>1, <2>2, <2>3 DEF Call
<1>3. OK(s, <<>>, A)
  BY <1>1, <1>2 DEF Unsaved
<1>4. Has(ns, c.dir) /\ c.name \in Names /\ c.newName \in Names
  BY <1>1, <1>2 DEF CallOK, Call, Creating, Removing
<1>5. c = call[m] /\ A = Excepted(c) /\ B = Always
  BY <1>0
<1>6. CASE c.kind \in Creating
  <2>1. CreateOK(ns, c)
    BY <1>1, <1>2, <1>6 DEF CallOK
  <2>2. Has(ns, c.child) /\ Stored(ns[c.child].key) /\ ns[c.dir].children[c.name] = c.child
    <3>1. c.saves # <<c.child, c.dir>>
      BY <1>2, TwoSaves
    <3> QED
      BY <2>1, <3>1 DEF CreateOK
  <2> QED
    BY <1>1, <1>2, <1>3, <1>4, <1>5, <1>6, <2>2, AppliedCreate
<1>7. CASE c.kind \in Removing
  BY <1>1, <1>2, <1>3, <1>4, <1>5, <1>7, AppliedRemove
<1>8. CASE c.kind = "Rename"
  <2>1. Has(ns, c.to) /\ Has(ns, c.child) /\ Stored(ns[c.child].key) /\ ns[c.to].children[c.newName] = c.child
    BY <1>1, <1>2, <1>8 DEF CallOK, RenameOK
  <2> QED
    BY <1>1, <1>2, <1>3, <1>4, <1>5, <1>8, <2>1, AppliedRename
<1>9. CASE c.kind = "Setattr"
  <2>1. Applied(m, ns) = ns
    BY <1>0, <1>9 DEF Applied, Creating, Removing
  <2>2. A = B
    BY <1>0, <1>2, <1>9, ExceptedDef
  <2>3. Ended(m, s, Applied(m, ns), B)
    BY <1>1, <1>3, <2>1, <2>2 DEF Ended, InodeDone
  <2> QED
    BY <1>5, <2>3
<1> QED
  BY <1>2, <1>6, <1>7, <1>8, <1>9

\* A new node that could not be saved is taken out of both trees.
LEMMA RolledCreate ==
    ASSUME NEW m, NEW s \in States, NEW c, c = call[m], NEW ns, s.nodes = ns, s.known = known[m], NEW A, NEW B,
           NEW u, u = Unsaved(c), OK(s, u, A), Roots(ns), A = Excepted(c), B = Always, c.saves # <<>>,
           c.kind \in Creating, Has(ns, c.dir), c.name \in Names
    PROVE  \E t : Ended(m, t, RolledBack(m, ns), B)
<1>1. PICK i, x, no, e, r, t :
        /\ i = c.dir /\ x = c.name /\ no = NoNode /\ e = <<>>
        /\ r = WithInode(s, i, x, no) /\ t = WithChild(r, i, x, no)
  OBVIOUS
<1>2. RolledBack(m, ns) = [ns EXCEPT ![i].inodes[x] = no, ![i].children[x] = no]
  BY <1>1 DEF RolledBack, Creating, Removing
<1>3. A \subseteq B \cup {<<i, x>>}
  BY <1>1, ExceptedDef
<1>4. InodeMay(s, A, B, i, x, no)
  BY <1>1, <1>3 DEF InodeMay, Has
<1>5. r = WithInode(s, i, x, no)
  BY <1>1
<1>6. InodeDone(s, r, u, B, i, x, no)
  BY <1>4, <1>5, InodeStep, Zenon
<1>7. i \in Ids /\ x \in Names /\ Loaded(s.nodes[i])
  BY <1>1 DEF Has
<1>8. Loaded(r.nodes[i]) /\ r.nodes[i].inodes[x] = NoNode
  BY <1>1, <1>6, <1>7 DEF InodeDone, InodeIs, Loaded
<1>9. ChildMay(r, B, B, i, x, no)
  BY <1>1, <1>7, <1>8 DEF ChildMay
<1>10. Dropped(r, u, e, i, x, no)
  BY <1>1, <1>8 DEF Dropped, Unsaved
<1>11. t = WithChild(r, i, x, no)
  BY <1>1
<1>12. OK(r, u, B)
  BY <1>6 DEF InodeDone
<1>13. ChildDone(r, t, e, B, i, x, no)
  BY <1>9, <1>10, <1>11, <1>12, ChildStep, Zenon
<1>14. Roots(t.nodes)
  <2>1. Roots(r.nodes)
    BY <1>6, RootsKept DEF InodeDone, InodeIs
  <2> QED
    BY <1>13, <2>1, RootsKept DEF ChildDone, ChildIs
<1>15. t.nodes = RolledBack(m, ns)
  BY <1>2, <1>6, <1>13 DEF InodeDone, ChildDone
<1>16. Ended(m, t, RolledBack(m, ns), B)
  BY <1>1, <1>6, <1>13, <1>14, <1>15 DEF Ended, InodeDone, ChildDone
<1> QED
  BY <1>16

\* A node that could not be removed is put back in Children.
LEMMA RolledRemove ==
    ASSUME NEW m, NEW s \in States, NEW c, c = call[m], NEW ns, s.nodes = ns, s.known = known[m], NEW A, NEW B,
           OK(s, <<>>, A), Roots(ns), A = Excepted(c), B = Always, c.saves # <<>>,
           c.kind \in Removing, Has(ns, c.dir), c.name \in Names, RemoveOK(ns, c)
    PROVE  \E t : Ended(m, t, RolledBack(m, ns), B)
<1>1. PICK i, x, n, e, t :
        /\ i = c.dir /\ x = c.name /\ n = c.child /\ e = <<>> /\ t = WithChild(s, i, x, n)
  OBVIOUS
<1>2. RolledBack(m, ns) = [ns EXCEPT ![i].children[x] = n]
  BY <1>1 DEF RolledBack, Creating, Removing
<1>3. A \subseteq B \cup {<<i, x>>}
  BY <1>1, ExceptedDef
<1>7. i \in Ids /\ x \in Names /\ Loaded(s.nodes[i])
  BY <1>1 DEF Has
<1>8. halfway => <<i, x>> \in B
  BY <1>7 DEF Always
<1>9. ChildMay(s, A, B, i, x, n)
  BY <1>1, <1>3, <1>7, <1>8 DEF ChildMay, RemoveOK
<1>10. Dropped(s, e, e, i, x, n) /\ OK(s, e, A)
  BY <1>1 DEF Dropped
<1>11. t = WithChild(s, i, x, n)
  BY <1>1
<1>13. ChildDone(s, t, e, B, i, x, n)
  BY <1>9, <1>10, <1>11, ChildStep, Zenon
<1>14. Roots(t.nodes)
  BY <1>13, RootsKept DEF ChildDone, ChildIs
<1>15. t.nodes = RolledBack(m, ns)
  BY <1>2, <1>13 DEF ChildDone
<1>16. Ended(m, t, RolledBack(m, ns), B)
  BY <1>1, <1>13, <1>14, <1>15 DEF Ended, ChildDone
<1> QED
  BY <1>16

\* The entries that need not agree after a call has failed.
AfterFail(c) == IF halfway \/ c.kind = "Rename" THEN All ELSE {}

\* The rollback of a call that has failed.
LEMMA RolledBackOK ==
    ASSUME Inv, NEW m \in Mounts, Saving(m), NEW ns \in [Ids -> Node], Alike(nodes[m], ns)
    PROVE  \E t : Ended(m, t, RolledBack(m, ns), AfterFail(call[m]))
<1>0. PICK s, c, u, A, B : /\ s = [nodes |-> ns, known |-> known[m]] /\ c = call[m]
                           /\ u = Unsaved(c) /\ A = Excepted(c) /\ B = Always
  OBVIOUS
<1>1. /\ s \in States /\ s.nodes = ns /\ s.known = known[m]
      /\ OK(s, u, A) /\ Roots(ns) /\ CallOK(ns, c) /\ c \in Call
  BY <1>0, SavingMount
<1>2. c.kind \in Creating \cup Removing \cup {"Rename", "Setattr"} /\ c.saves # <<>>
  BY <1>0, SavedLoaded DEF Saving
<1>3. c.kind \notin Creating => OK(s, <<>>, A)
  BY <1>0, <1>1 DEF Unsaved
<1>4. Has(ns, c.dir) /\ c.name \in Names /\ c.newName \in Names
  BY <1>1, <1>2 DEF CallOK, Call, Creating, Removing
<1>5. c = call[m] /\ u = Unsaved(c) /\ A = Excepted(c) /\ B = Always
  BY <1>0
<1>b. c.kind # "Rename" => B = AfterFail(call[m])
  BY <1>5 DEF Always, AfterFail, All
<1>6. CASE c.kind \in Creating
  <2>1. \E t : Ended(m, t, RolledBack(m, ns), B)
    BY <1>1, <1>2, <1>4, <1>5, <1>6, RolledCreate
  <2> QED
    BY <1>6, <1>b, <2>1 DEF Creating
<1>7. CASE c.kind \in Removing
  <2>1. RemoveOK(ns, c) /\ OK(s, <<>>, A)
    BY <1>1, <1>2, <1>3, <1>7 DEF CallOK, Creating, Removing
  <2>2. \E t : Ended(m, t, RolledBack(m, ns), B)
    BY <1>1, <1>2, <1>4, <1>5, <1>7, <2>1, RolledRemove
  <2> QED
    BY <1>7, <1>b, <2>2 DEF Removing
<1>8. CASE c.kind \in {"Rename", "Setattr"}
  <2>1. RolledBack(m, ns) = ns /\ OK(s, <<>>, A)
    BY <1>0, <1>3, <1>8 DEF RolledBack, Creating, Removing
  <2>2. PICK D : D = AfterFail(call[m])
    OBVIOUS
  <2>4. OK(s, <<>>, D)
    <3>1. CASE c.kind = "Rename"
      <4>1. D = All
        BY <1>5, <2>2, <3>1 DEF AfterFail
      <4> QED
        BY <2>1, <4>1, Widened
    <3>2. CASE c.kind = "Setattr"
      <4>1. A = D
        BY <1>2, <1>5, <1>b, <2>2, <3>2, ExceptedDef
      <4> QED
        BY <2>1, <4>1
    <3> QED
      BY <1>8, <3>1, <3>2
  <2>5. Ended(m, s, RolledBack(m, ns), D)
    BY <1>1, <2>1, <2>4 DEF Ended
  <2> QED
    BY <2>2, <2>5
<1> QED
  BY <1>2, <1>6, <1>7, <1>8

\* A call that fails.
LEMMA FailOK ==
    ASSUME Inv, NEW m \in Mounts, Saving(m), NEW ns \in [Ids -> Node], Alike(nodes[m], ns), Fail(m, ns),
           alive' \subseteq drawn, store' \in [Keys -> Entry],
           pending' \in [Mounts -> SUBSET [key : Keys, version : Nat]],
           NoDanglingEntry', \A k \in Keys : Stored(k) => Stored(k)'
    PROVE  Inv'
<1>1. PICK new, A, B, t : new = RolledBack(m, ns) /\ A = AfterFail(call[m]) /\ B = Always' /\ Ended(m, t, new, A)
  BY RolledBackOK
<1>2. t \in States /\ t.nodes = new /\ t.known = known[m] /\ OK(t, <<>>, A) /\ Roots(t.nodes)
  BY <1>1 DEF Ended
<1>3. /\ nodes' = [nodes EXCEPT ![m] = t.nodes] /\ halfway' = (halfway \/ call[m].kind = "Rename")
      /\ Return(m) /\ UNCHANGED <<known, drawn, calls>>
  BY <1>1, <1>2 DEF Fail
<1>4. B = Always' /\ A \subseteq B /\ (halfway => halfway') /\ halfway' \in BOOLEAN
  BY <1>1, <1>3 DEF AfterFail, Always, All
<1> QED
  BY <1>2, <1>3, <1>4, Finished

\* A save that the server refuses as stale.
LEMMA SyncStaleOK ==
    ASSUME Inv, NEW m \in Mounts, SyncStale(m)
    PROVE  Inv'
<1>1. PICK i, ns, new, b : i = Saved(m) /\ ns = nodes[m] /\ b = TRUE /\ new = [ns EXCEPT ![i].shouldReload = b]
  OBVIOUS
<1>2. Saving(m) /\ Fail(m, new) /\ UNCHANGED <<store, pending, alive>>
  BY <1>1 DEF SyncStale
<1>3. i \in Ids /\ ns \in [Ids -> Node] /\ b \in BOOLEAN
  BY <1>1, <1>2, SavedLoaded DEF Inv, TypeOK
<1>4. new \in [Ids -> Node] /\ Alike(ns, new)
  BY <1>1, <1>3, MarkSet
<1>5. Alike(nodes[m], new)
  BY <1>1, <1>4
<1>6. /\ alive' \subseteq drawn /\ store' \in [Keys -> Entry]
      /\ pending' \in [Mounts -> SUBSET [key : Keys, version : Nat]]
      /\ NoDanglingEntry' /\ \A k \in Keys : Stored(k) => Stored(k)'
  BY <1>2 DEF Inv, TypeOK, NoDanglingEntry, Stored
<1> QED
  BY <1>2, <1>4, <1>5, <1>6, FailOK

\* A save that fails, and may be applied late.
LEMMA SyncFailsOK ==
    ASSUME Inv, NEW m \in Mounts, SyncFails(m)
    PROVE  Inv'
<1>1. PICK ns : ns = nodes[m]
  OBVIOUS
<1>2. /\ Saving(m) /\ Fail(m, ns)
      /\ \/ Publish(m, Saved(m)) /\ alive' = alive \ Removed(m)
         \/ UNCHANGED <<store, pending, alive>>
  BY <1>1 DEF SyncFails
<1>3. ns \in [Ids -> Node] /\ Alike(nodes[m], ns)
  BY <1>1 DEF Alike, Inv, TypeOK
<1>4. /\ alive' \subseteq drawn /\ store' \in [Keys -> Entry]
      /\ pending' \in [Mounts -> SUBSET [key : Keys, version : Nat]]
      /\ NoDanglingEntry' /\ \A k \in Keys : Stored(k) => Stored(k)'
  <2>1. CASE UNCHANGED <<store, pending, alive>>
    BY <2>1 DEF Inv, TypeOK, NoDanglingEntry, Stored
  <2>2. CASE Publish(m, Saved(m)) /\ alive' = alive \ Removed(m)
    <3>1. alive' \subseteq drawn
      BY <2>2 DEF Inv, TypeOK
    <3>2. PICK k : k = nodes[m][Saved(m)].key
      OBVIOUS
    <3> QED
      BY <1>2, <2>2, <3>1, <3>2, PublishOK
  <2> QED
    BY <1>2, <2>1, <2>2
<1> QED
  BY <1>2, <1>3, <1>4, FailOK

\* The last save of a call.
LEMMA LastSyncOK ==
    ASSUME Inv, NEW m \in Mounts, Sync(m), ~(Len(call[m].saves) > 1)
    PROVE  Inv'
<1>1. PICK i, ns, new, r : i = Saved(m) /\ ns = nodes[m] /\ new = [ns EXCEPT ![i].version = @ + 1]
                           /\ r = Applied(m, new)
  OBVIOUS
<1>2. Saving(m) /\ Publish(m, Saved(m)) /\ UNCHANGED <<known, drawn, halfway, calls>>
  BY DEF Sync
<1>3. i \in Ids /\ ns \in [Ids -> Node]
  BY <1>1, <1>2, SavedLoaded DEF Inv, TypeOK
<1>4. new \in [Ids -> Node] /\ Alike(ns, new)
  BY <1>1, <1>3, VersionSet
<1>5. Alike(nodes[m], new)
  BY <1>1, <1>4
<1>6. Succeed(m, new)
  BY <1>1 DEF Sync
<1>7. nodes' = [nodes EXCEPT ![m] = r] /\ Return(m) /\ alive' = (alive \cup Made(m)) \ Removed(m)
  BY <1>1, <1>6 DEF Succeed
<1>8. PICK A, t : A = Always /\ Ended(m, t, r, A)
  BY <1>1, <1>2, <1>4, <1>5, AppliedOK
<1>9. t \in States /\ t.nodes = r /\ t.known = known[m] /\ OK(t, <<>>, A) /\ Roots(t.nodes)
  BY <1>8 DEF Ended
<1>10. alive' \subseteq drawn
  <2>1. Made(m) \subseteq drawn
    <3>1. CASE call[m].kind \in Creating
      <4>1. CallOK(nodes[m], call[m])
        BY DEF Inv, MountOK
      <4>2. CreateOK(nodes[m], call[m])
        BY <1>2, <3>1, <4>1 DEF CallOK, Saving
      <4> QED
        BY <3>1, <4>2 DEF CreateOK, Made
    <3>2. CASE call[m].kind \notin Creating
      BY <3>2 DEF Made
    <3> QED
      BY <3>1, <3>2
  <2>2. alive \subseteq drawn
    BY DEF Inv, TypeOK
  <2> QED
    BY <1>7, <2>1, <2>2
<1>11. /\ store' \in [Keys -> Entry]
       /\ pending' \in [Mounts -> SUBSET [key : Keys, version : Nat]]
       /\ NoDanglingEntry' /\ \A k \in Keys : Stored(k) => Stored(k)'
  <2>1. PICK k : k = nodes[m][Saved(m)].key
    OBVIOUS
  <2> QED
    BY <1>2, <2>1, PublishOK
<1>12. PICK B : B = Always'
  OBVIOUS
<1>13. B = Always' /\ A \subseteq B /\ (halfway => halfway') /\ halfway' \in BOOLEAN
  BY <1>2, <1>8, <1>12 DEF Always, Inv, TypeOK
<1>14. nodes' = [nodes EXCEPT ![m] = t.nodes] /\ Return(m) /\ UNCHANGED <<known, drawn, calls>>
  BY <1>2, <1>7, <1>9
<1> QED
  BY <1>9, <1>10, <1>11, <1>13, <1>14, Finished

\* A call that has one node less to save.
Advanced(c, d) ==
    /\ d.kind = c.kind /\ d.dir = c.dir /\ d.name = c.name /\ d.to = c.to
    /\ d.newName = c.newName /\ d.child = c.child /\ d.saves = Tail(c.saves)

\* Several saves are not one.
LEMMA OneSave == ASSUME NEW q, NEW a, Len(q) > 1 PROVE q # <<a>>
<1>1. Len(<<a>>) = 1
  OBVIOUS
<1>2. ASSUME q = <<a>> PROVE FALSE
  <2>1. Len(q) = Len(<<a>>)
    BY <1>2
  <2> QED
    BY <1>1, <2>1
<1> QED
  BY <1>2

\* What is left to save after the first.
LEMMA TailSaves ==
    ASSUME NEW S, NEW q \in Seq(S), Len(q) > 1
    PROVE  /\ Tail(q) \in Seq(S) /\ Tail(q) # <<>> /\ q # <<>>
           /\ \A n \in 1..Len(Tail(q)) : \E k \in 1..Len(q) : Tail(q)[n] = q[k]
<1>1. q # <<>> /\ Len(q) \in Nat
  OBVIOUS
<1>2. Tail(q) \in Seq(S) /\ Len(Tail(q)) = Len(q) - 1 /\ \A n \in 1..Len(Tail(q)) : Tail(q)[n] = q[n + 1]
  BY <1>1
<1>3. Tail(q) # <<>>
  <2>1. Len(Tail(q)) # 0
    BY <1>1, <1>2
  <2>2. Len(<<>>) = 0
    OBVIOUS
  <2> QED
    BY <2>1, <2>2
<1>4. ASSUME NEW n \in 1..Len(Tail(q)) PROVE \E k \in 1..Len(q) : Tail(q)[n] = q[k]
  <2>1. n + 1 \in 1..Len(q) /\ Tail(q)[n] = q[n + 1]
    BY <1>1, <1>2
  <2> QED
    BY <2>1
<1> QED
  BY <1>1, <1>2, <1>3, <1>4

\* The call after a save that is not its last.
LEMMA AdvancedOK ==
    ASSUME NEW c \in Call, NEW d, Advanced(c, d), Len(c.saves) > 1, NEW ns \in [Ids -> Node], CallOK(ns, c),
           \A k \in Keys : Stored(k) => Stored(k)', Stored(ns[Head(c.saves)].key)',
           UNCHANGED <<drawn, halfway>>
    PROVE  /\ CallOK(ns, d)' /\ Changing(d) = Changing(c) /\ d.saves # <<>> /\ Unsaved(d) = <<>>
           /\ Unsaved(c) = <<>> \/ (Unsaved(c) = <<c.dir, c.name, c.child>> /\ Stored(ns[c.child].key)')
<1>1. PICK q : q = c.saves
  OBVIOUS
<1>2. q \in Seq(Ids) /\ Len(q) > 1 /\ d.saves = Tail(q)
  BY <1>1 DEF Call, Advanced
<1>3. /\ Tail(q) \in Seq(Ids) /\ Tail(q) # <<>> /\ q # <<>>
      /\ \A n \in 1..Len(Tail(q)) : \E k \in 1..Len(q) : Tail(q)[n] = q[k]
  BY <1>2, TailSaves
<1>4. c.kind \in Creating \cup {"Rename"}
  <2>1. c.saves # <<c.dir>>
    BY <1>1, <1>2, OneSave
  <2>2. c.kind # "none" /\ c.kind # "Setattr" /\ c.kind \notin Removing
    BY <1>1, <1>3, <2>1 DEF CallOK, RemoveOK
  <2> QED
    BY <2>2 DEF Call
<1>5. Changing(d) = Changing(c) /\ d.saves # <<>>
  BY <1>1, <1>2, <1>3 DEF Changing, Advanced
<1>6. Has(ns, c.dir) /\ (c.kind = "Rename" => Has(ns, c.to) /\ (c.dir # c.to \/ c.name # c.newName))
  BY <1>4 DEF CallOK, Creating
<1>7. CASE c.kind \in Creating
  <2>1. CreateOK(ns, c)
    BY <1>1, <1>3, <1>7 DEF CallOK
  <2>2. q = <<c.child, c.dir>>
    <3>1. q # <<c.dir>>
      BY <1>2, OneSave
    <3> QED
      BY <1>1, <2>1, <3>1 DEF CreateOK
  <2>3. Head(q) = c.child /\ Tail(q) = <<c.dir>> /\ Len(q) = 2 /\ Len(<<c.dir>>) = 1
    BY <2>2
  <2>4. Stored(ns[c.child].key)'
    BY <1>1, <2>3
  <2>5. CreateOK(ns, d)'
    BY <1>2, <2>1, <2>3, <2>4 DEF CreateOK, Advanced, Has, Loaded
  <2>6. CallOK(ns, d)'
    BY <1>6, <1>7, <2>5 DEF CallOK, Advanced, Has, Loaded, Creating, Removing
  <2>7. Unsaved(d) = <<>>
    BY <1>2, <2>3 DEF Unsaved
  <2>8. Unsaved(c) = <<c.dir, c.name, c.child>>
    BY <1>1, <1>7, <2>3 DEF Unsaved
  <2> QED
    BY <1>5, <2>4, <2>6, <2>7, <2>8
<1>8. CASE c.kind = "Rename"
  <2>1. RenameOK(ns, c)
    BY <1>1, <1>3, <1>8 DEF CallOK
  <2>2. \A n \in 1..Len(Tail(q)) : Tail(q)[n] \in {c.dir, c.to, c.child}
    BY <1>1, <1>3, <2>1 DEF RenameOK
  <2>3. Stored(ns[c.child].key)'
    BY <2>1 DEF RenameOK, Has, Node
  <2>5. RenameOK(ns, d)'
    BY <1>2, <2>1, <2>2, <2>3 DEF RenameOK, Advanced, Has, Loaded
  <2>6. CallOK(ns, d)'
    BY <1>6, <1>8, <2>5 DEF CallOK, Advanced, Has, Loaded, Creating, Removing
  <2>7. Unsaved(d) = <<>> /\ Unsaved(c) = <<>>
    BY <1>8 DEF Unsaved, Advanced, Creating
  <2> QED
    BY <1>5, <2>6, <2>7
<1> QED
  BY <1>4, <1>7, <1>8

\* A save that is not the last one of its call.
LEMMA EarlySyncOK ==
    ASSUME Inv, NEW m \in Mounts, Sync(m), Len(call[m].saves) > 1
    PROVE  Inv'
<1>t. TypeOK
  BY DEF Inv
<1>1. PICK i, ns, new, f, w, g, c, d, k, s :
        /\ i = Saved(m) /\ ns = nodes[m] /\ new = [ns EXCEPT ![i].version = @ + 1]
        /\ f = call /\ c = f[m] /\ w = Tail(c.saves) /\ g = [f EXCEPT ![m].saves = w] /\ d = g[m]
        /\ k = nodes[m][Saved(m)].key /\ s = [nodes |-> new, known |-> known[m]]
  OBVIOUS
<1>2. /\ Saving(m) /\ Publish(m, Saved(m)) /\ UNCHANGED <<known, drawn, halfway, calls>> /\ Succeed(m, new)
  BY <1>1 DEF Sync
<1>3. i \in Ids /\ ns \in [Ids -> Node]
  BY <1>1, <1>2, SavedLoaded DEF Inv, TypeOK
<1>4. new \in [Ids -> Node] /\ Alike(ns, new)
  BY <1>1, <1>3, VersionSet
<1>5. Alike(nodes[m], new) /\ c = call[m] /\ s = [nodes |-> new, known |-> known[m]]
  BY <1>1, <1>4
<1>6. /\ s \in States /\ s.nodes = new /\ s.known = known[m]
      /\ OK(s, Unsaved(c), Excepted(c)) /\ Roots(new) /\ CallOK(new, c) /\ c \in Call
  BY <1>2, <1>4, <1>5, SavingMount
<1>7. nodes' = [nodes EXCEPT ![m] = new] /\ call' = g /\ alive' = alive \ Removed(m)
  BY <1>1, <1>2 DEF Succeed
<1>8. f \in [Mounts -> Call] /\ w \in Seq(Ids)
  <2>1. c.saves \in Seq(Ids) /\ Len(c.saves) > 1
    BY <1>5, <1>6 DEF Call
  <2>2. w \in Seq(Ids)
    BY <1>1, <2>1, TailSaves
  <2> QED
    BY <1>1, <1>t, <2>2 DEF TypeOK
<1>9. /\ g \in [Mounts -> Call] /\ \A j \in Mounts \ {m} : g[j] = f[j]
      /\ g[m].kind = f[m].kind /\ g[m].dir = f[m].dir /\ g[m].name = f[m].name
      /\ g[m].to = f[m].to /\ g[m].newName = f[m].newName
      /\ g[m].child = f[m].child /\ g[m].saves = w
  <2>1. g = [f EXCEPT ![m].saves = w]
    BY <1>1
  <2> QED
    BY <1>8, <2>1, SavesSet
<1>10. Advanced(c, d) /\ d \in Call /\ call'[m] = d
  BY <1>1, <1>7, <1>9 DEF Advanced
<1>11. /\ store' \in [Keys -> Entry]
       /\ pending' \in [Mounts -> SUBSET [key : Keys, version : Nat]]
       /\ NoDanglingEntry' /\ (\A j \in Keys : Stored(j) => Stored(j)') /\ Stored(k)'
  BY <1>1, <1>2, PublishOK
<1>12. TypeOK'
  <2>1. nodes' \in [Mounts -> [Ids -> Node]] /\ call' \in [Mounts -> Call]
    BY <1>4, <1>7, <1>9, <1>t DEF TypeOK
  <2>2. alive' \subseteq drawn
    BY <1>7, <1>t DEF TypeOK
  <2> QED
    BY <1>2, <1>11, <1>t, <2>1, <2>2 DEF TypeOK
<1>13. Apart(m)
  <2>1. ASSUME NEW j \in Mounts \ {m} PROVE nodes'[j] = nodes[j] /\ known'[j] = known[j] /\ call'[j] = call[j]
    <3>1. call'[j] = call[j]
      BY <1>1, <1>7, <1>9
    <3> QED
      BY <1>2, <1>7, <1>t, <3>1 DEF TypeOK
  <2> QED
    BY <1>2, <1>11, <2>1 DEF Apart
<1>14. nodes'[m] = s.nodes /\ known'[m] = s.known
  BY <1>2, <1>6, <1>7, <1>t DEF TypeOK
<1>15. Len(c.saves) > 1 /\ Stored(new[Head(c.saves)].key)' /\ UNCHANGED <<drawn, halfway>>
  <2>1. new[i].key = k
    BY <1>1, <1>3, <1>4 DEF Alike
  <2>2. Head(c.saves) = i
    BY <1>1 DEF Saved
  <2>3. new[Head(c.saves)].key = k
    BY <2>1, <2>2
  <2> QED
    BY <1>2, <1>5, <1>11, <2>3
<1>16. /\ CallOK(new, d)' /\ Changing(d) = Changing(c) /\ d.saves # <<>> /\ Unsaved(d) = <<>>
       /\ (Unsaved(c) = <<>> \/ (Unsaved(c) = <<c.dir, c.name, c.child>> /\ Stored(new[c.child].key)'))
  BY <1>4, <1>6, <1>10, <1>11, <1>15, AdvancedOK
<1>17. PICK u, v, A, B : u = Unsaved(c) /\ v = Unsaved(d) /\ A = Excepted(c) /\ B = Excepted(d)'
  OBVIOUS
<1>18. OK(s, u, A) /\ A \subseteq B
  BY <1>2, <1>6, <1>16, <1>17 DEF Excepted, Changing
<1>19. \A j \in Ids, y \in Names, n \in Ids : u = <<j, y, n>> => v = u \/ Stored(s.nodes[n].key)'
  <2> SUFFICES ASSUME NEW j \in Ids, NEW y \in Names, NEW n \in Ids, u = <<j, y, n>>
               PROVE  v = u \/ Stored(s.nodes[n].key)'
    OBVIOUS
  <2>1. CASE u = <<>>
    BY <1>16, <1>17, <2>1
  <2>2. CASE u = <<c.dir, c.name, c.child>> /\ Stored(new[c.child].key)'
    <3>1. n = c.child
      BY <2>2
    <3> QED
      BY <1>6, <2>2, <3>1
  <2> QED
    BY <1>16, <1>17, <2>1, <2>2
<1>20. OK(s, v, B)'
  <2>1. \A j \in Keys : Stored(j) => Stored(j)'
    BY <1>11
  <2> QED
    BY <1>18, <1>19, <2>1, StoreGrows
<1>21. OK(s, Unsaved(d), B)' /\ B = Excepted(d)'
  BY <1>17, <1>20
<1>22. Roots(s.nodes) /\ CallOK(s.nodes, d)'
  BY <1>6, <1>16
<1> QED
  BY <1>6, <1>10, <1>11, <1>12, <1>13, <1>14, <1>21, <1>22, ActorOK

\* sync() of a node that is stored.
LEMMA SyncOK == ASSUME Inv, NEW m \in Mounts, Sync(m) PROVE Inv'
BY EarlySyncOK, LastSyncOK

--------------------------------------------------------------------------------
(* The theorems. *)

\* The first state: a store of empty directories, mounts that have loaded them.
LEMMA InitOK == Init => Inv
<1> SUFFICES ASSUME Init PROVE Inv
  OBVIOUS
<1>1. store \in [Keys -> Entry]
  BY DEF Init, Entry
<1>2. NoDanglingEntry
  BY DEF Init, NoDanglingEntry
<1>3. StoreOK
  BY <1>1, <1>2 DEF StoreOK
<1>4. PICK s, c, A : s = Started /\ c = NoCall /\ A = Always
  OBVIOUS
<1>5. OK(s, <<>>, A) /\ Roots(s.nodes)
  BY <1>3, <1>4, StartedOK DEF Roots
<1>6. s \in States /\ s.nodes \in [Ids -> Node] /\ s.known \in [Keys -> IdOrNil]
  BY <1>5 DEF OK, States
<1>7. c \in Call /\ c.kind = "none" /\ c.saves = <<>> /\ Unsaved(c) = <<>> /\ Excepted(c) = A
  BY <1>4, NoCallFields
<1>8. /\ nodes = [m \in Mounts |-> s.nodes] /\ known = [m \in Mounts |-> s.known] /\ call = [m \in Mounts |-> c]
      /\ pending = [m \in Mounts |-> {}] /\ drawn = {} /\ alive = {} /\ halfway = FALSE /\ calls = 0
  BY <1>4 DEF Init
<1>9. TypeOK
  <2>1. nodes \in [Mounts -> [Ids -> Node]] /\ known \in [Mounts -> [Keys -> IdOrNil]] /\ call \in [Mounts -> Call]
    BY <1>6, <1>7, <1>8
  <2>2. calls \in 0..MaxCalls
    BY <1>8, DirAssumption
  <2> QED
    BY <1>1, <1>8, <2>1, <2>2 DEF TypeOK
<1>10. ASSUME NEW m \in Mounts PROVE MountOK(m)
  <2>1. nodes[m] = s.nodes /\ known[m] = s.known /\ call[m] = c
    BY <1>8
  <2>2. State(m) = s
    BY <1>6, <2>1 DEF State, States
  <2>3. CallOK(s.nodes, c)
    BY <1>7 DEF CallOK, Creating, Removing
  <2> QED
    BY <1>5, <1>7, <2>1, <2>2, <2>3 DEF MountOK
<1> QED
  BY <1>2, <1>9, <1>10 DEF Inv

\* A step that changes nothing.
LEMMA UnchangedOK == ASSUME Inv, UNCHANGED vars PROVE Inv'
<1>1. UNCHANGED <<store, nodes, known, call, pending, drawn, alive, halfway, calls>>
  BY DEF vars, history
<1>2. TypeOK' /\ NoDanglingEntry'
  BY <1>1 DEF Inv, TypeOK, NoDanglingEntry
<1>3. ASSUME NEW m \in Mounts PROVE MountOK(m)'
  <2>1. Apart(m)
    BY <1>1 DEF Apart, Stored
  <2>2. PICK s, c, A : s = State(m) /\ c = call[m] /\ A = Excepted(c)
    OBVIOUS
  <2>3. MountOK(m)
    BY DEF Inv
  <2>4. s \in States /\ c \in Call /\ s.nodes = nodes[m] /\ s.known = known[m]
    BY <2>2, IdleMount DEF State
  <2>5. OK(s, Unsaved(c), A) /\ Roots(s.nodes) /\ CallOK(s.nodes, c)
    BY <2>2, <2>3, <2>4 DEF MountOK
  <2>6. A = Excepted(c)' /\ nodes'[m] = s.nodes /\ known'[m] = s.known /\ call'[m] = c
    BY <1>1, <2>2, <2>4 DEF Excepted
  <2>7. OK(s, Unsaved(c), A)'
    BY <1>1, <2>5 DEF OK, Entries, Stored, Blank, Inodes, Agree
  <2>8. CallOK(s.nodes, c)'
    BY <1>1, <2>5 DEF CallOK, CreateOK, RemoveOK, RenameOK, Has, Stored
  <2>9. Inv'
    BY <1>2, <2>1, <2>4, <2>5, <2>6, <2>7, <2>8, ActorOK
  <2> QED
    BY <2>9 DEF Inv
<1> QED
  BY <1>2, <1>3 DEF Inv

\* One step of a mount.
LEMMA StepOK == Inv /\ [Next]_vars => Inv'
<1> SUFFICES ASSUME Inv, [Next]_vars PROVE Inv'
  OBVIOUS
<1>1. CASE UNCHANGED vars
  BY <1>1, UnchangedOK
<1>2. CASE Next
  <2>0. PICK m \in Mounts :
        \/ \E i \in TreeDirs(m), x \in Names :
              \/ \E kind \in Creating : LookupForCreate(m, kind, i, x)
              \/ \E kind \in Removing : LookupForRemove(m, kind, i, x)
              \/ \E j \in TreeDirs(m), y \in Names : LookupForRename(m, i, x, j, y)
        \/ \E k \in Fresh : MakeChild(m, k)
        \/ MakeChildFails(m)
        \/ Unlink(m)
        \/ Rmdir(m)
        \/ Rename(m)
        \/ Sync(m)
        \/ SyncStale(m)
        \/ SyncFails(m)
        \/ \E i \in Tree(m) : Setattr(m, i) \/ Getattr(m, i)
        \/ \E i \in TreeDirs(m) : Opendir(m, i)
        \/ \E n \in pending[m] : InvalidateCache(m, n)
        \/ Crash(m)
    BY <1>2, Zenon DEF Next
  <2>1. CASE \E i \in TreeDirs(m), x \in Names :
              \/ \E kind \in Creating : LookupForCreate(m, kind, i, x)
              \/ \E kind \in Removing : LookupForRemove(m, kind, i, x)
              \/ \E j \in TreeDirs(m), y \in Names : LookupForRename(m, i, x, j, y)
    BY <2>1, LookupForCreateOK, LookupForRemoveOK, LookupForRenameOK, Zenon
  <2>2. CASE \E k \in Fresh : MakeChild(m, k)
    BY <2>2, MakeChildOK, Zenon
  <2>3. CASE MakeChildFails(m)
    BY <2>3, MakeChildFailsOK, Zenon
  <2>4. CASE Unlink(m)
    BY <2>4, UnlinkOK, Zenon
  <2>5. CASE Rmdir(m)
    BY <2>5, RmdirOK, Zenon
  <2>6. CASE Rename(m)
    BY <2>6, RenameStep, Zenon
  <2>7. CASE Sync(m)
    BY <2>7, SyncOK, Zenon
  <2>8. CASE SyncStale(m)
    BY <2>8, SyncStaleOK, Zenon
  <2>9. CASE SyncFails(m)
    BY <2>9, SyncFailsOK, Zenon
  <2>10. CASE \E i \in Tree(m) : Setattr(m, i) \/ Getattr(m, i)
    BY <2>10, SetattrOK, GetattrOK, Zenon
  <2>11. CASE \E i \in TreeDirs(m) : Opendir(m, i)
    BY <2>11, OpendirOK, Zenon
  <2>12. CASE \E n \in pending[m] : InvalidateCache(m, n)
    BY <2>12, InvalidateCacheOK, Zenon
  <2>13. CASE Crash(m)
    BY <2>13, CrashOK, Zenon
  <2> QED
    BY <2>0, <2>1, <2>2, <2>3, <2>4, <2>5, <2>6, <2>7, <2>8, <2>9, <2>10, <2>11, <2>12, <2>13, Zenon
<1> QED
  BY <1>1, <1>2

\* The inductive invariant holds in every reachable state.
THEOREM Invariance == Spec => []Inv
BY InitOK, StepOK, PTL DEF Spec

\* Every variable keeps its type, for all mounts, keys, names and faults; in
\* particular no node is counted among those users have made before its key
\* was drawn.
THEOREM TypeCorrectness == Spec => []TypeOK
<1>1. Inv => TypeOK
  BY DEF Inv
<1> QED
  BY Invariance, <1>1, PTL

\* An entry of a stored directory names a stored node: createLockedChild saves
\* the child before the directory that lists it, and a call that fails takes
\* the entry back, so that no later save of the directory can publish it.
THEOREM EntriesAreStored == Spec => []NoDanglingEntry
<1>1. Inv => NoDanglingEntry
  BY DEF Inv
<1> QED
  BY Invariance, <1>1, PTL

\* Between calls, go-fuse has under a name nothing, or what the directory would
\* save: the rollbacks of Create, Mkdir, Unlink and Rmdir undo both trees alike,
\* and reloads in between leave them so.  A failed Rename is excepted.
THEOREM TreeAgrees == Spec => []TreeIsSaved
<1>1. Inv => TreeIsSaved
  <2> SUFFICES ASSUME Inv, NEW m \in Mounts, Idle(m), ~halfway, NEW i \in TreeDirs(m), NEW x \in Names
               PROVE  nodes[m][i].inodes[x] \in {NoNode, nodes[m][i].children[x]}
    BY Zenon DEF TreeIsSaved
  <2>1. i \in Ids
    BY TreeLoaded DEF TreeDirs
  <2>2. CallOK(nodes[m], call[m]) /\ (~Saving(m) => OK(State(m), <<>>, Always))
    BY IdleMount
  <2>3. ~Saving(m)
    BY <2>2 DEF CallOK, Idle, Saving
  <2>4. OK(State(m), <<>>, Always) /\ State(m).nodes = nodes[m]
    BY <2>2, <2>3 DEF State
  <2>5. Agree(nodes[m], Always)
    BY <2>4 DEF OK
  <2>6. <<i, x>> \in Always \/ nodes[m][i].inodes[x] \in {NoNode, nodes[m][i].children[x]}
    BY <2>1, <2>5, Zenon DEF Agree
  <2> QED
    BY <2>6 DEF Always
<1> QED
  BY Invariance, <1>1, PTL
================================================================================
