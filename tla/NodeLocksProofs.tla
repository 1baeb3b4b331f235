--------------------------- MODULE NodeLocksProofs ---------------------------
(***************************************************************************)
(* Proofs about NodeLocks for any goroutines and any tree of nodes.        *)
(***************************************************************************)
EXTENDS NodeLocks, SequenceTheorems, TLAPS

\* A call k that will take the lock of its node with the one of b held.
Linking(k, b) ==
    \/ k.steps = CreateSteps(b, k.node) /\ k.held = {}
    \/ k.steps = RmdirSteps(b, k.node) /\ k.held = {}
    \/ /\ k.steps = <<Lock(Factory), Unlock(Factory), Lock(k.node), Unlock(k.node), Unlock(b)>>
       /\ k.held = {b}
    \/ /\ k.steps = <<Unlock(Factory), Lock(k.node), Unlock(k.node), Unlock(b)>>
       /\ k.held = {b, Factory}
    \/ k.steps = <<Lock(k.node), Unlock(k.node), Unlock(b)>> /\ k.held = {b}

\* The same once it has taken it.
Leaving(k, b) ==
    \/ k.steps = <<Unlock(k.node), Unlock(b)>> /\ k.held = {b, k.node}
    \/ k.steps = <<Unlock(b)>> /\ k.held = {b}

\* A call that takes no other node's lock than the one of b.
Alone(k, b) ==
    \/ k.steps = ReloadSteps(b) /\ k.held = {}
    \/ k.steps = <<Lock(Factory), Unlock(Factory), Unlock(b)>> /\ k.held = {b}
    \/ k.steps = <<Unlock(Factory), Unlock(b)>> /\ k.held = {b, Factory}
    \/ k.steps = InvalidateSteps(b) /\ k.held = {}
    \/ k.steps = <<Unlock(Factory), Lock(b), Unlock(b)>> /\ k.held = {Factory}
    \/ k.steps = <<Lock(b), Unlock(b)>> /\ k.held = {}
    \/ k.steps = <<Unlock(b)>> /\ k.held = {b}

\* b is the parent of n, or will be.
Below(b, n, tree, taken) == <<b, n>> \in taken \/ tree[n] = "new"

\* How far a call k that starts at b has come, in a tree and with an order in
\* which locks were taken.
Stage(k, b, tree, taken) ==
    /\ tree[b] # "new"
    /\ \/ Linking(k, b) /\ k.place \in {b, "gone"} /\ Below(b, k.node, tree, taken)
       \/ Leaving(k, b) /\ k.place \in {b, "gone"} /\ <<b, k.node>> \in taken
       \/ Alone(k, b) /\ (k.dirs = {} \/ k.place = "gone")

Staged == \A p \in Procs : ~Idle(p) => \E b \in Nodes : Stage(call[p], b, parent, order)

\* A node that is being made is in one call.
MadeOnce ==
    \A p, q \in Procs :
        (p # q /\ ~Idle(p) /\ ~Idle(q) /\ call[p].node = call[q].node)
            => parent[call[p].node] # "new"

\* Locks are taken from parents to children, never back, and a node that is not
\* there yet or the factory come before nothing.
Downward ==
    /\ \A pair \in order : pair[1] \in Nodes /\ parent[pair[1]] # "new"
    /\ \A a, b \in Locks : <<a, b>> \in order => <<b, a>> \notin order
    /\ \A n \in Nodes : parent[n] \in Nodes => <<parent[n], n>> \in order

Orderly == ~crossed => Staged /\ MadeOnce /\ Downward /\ exited # "inversion"

\* Who waits for a lock has asked for it, and go-deadlock has noted the locks it
\* held meanwhile.
Recorded ==
    \A p \in waiting :
        /\ call[p].steps # <<>> /\ Head(call[p].steps)[1] = "lock"
        /\ \A h \in Held(p) : <<h, Target(p)>> \in order

Inv == TypeOK /\ Recorded /\ Orderly
--------------------------------------------------------------------------------
(* Sequences of steps, written out. *)

LEMMA OneAndTwo ==
    ASSUME NEW a, NEW b, NEW c
    PROVE  <<a>> \o <<b, c>> = <<a, b, c>>
<1> DEFINE S == {a, b, c}
<1>1. <<a>> \in Seq(S) /\ <<b, c>> \in Seq(S) /\ <<a, b, c>> \in Seq(S)
  OBVIOUS
<1>2. Len(<<a>>) = 1 /\ Len(<<b, c>>) = 2 /\ Len(<<a, b, c>>) = 3
  OBVIOUS
<1>3. /\ <<a>> \o <<b, c>> \in Seq(S) /\ Len(<<a>> \o <<b, c>>) = 3
      /\ \A i \in 1..3 : (<<a>> \o <<b, c>>)[i] = <<a, b, c>>[i]
  BY <1>1, <1>2, ConcatProperties
<1> QED
  BY <1>1, <1>2, <1>3, SeqEqual

LEMMA ThreeAndThree ==
    ASSUME NEW a, NEW b, NEW c, NEW d, NEW e, NEW f
    PROVE  <<a, b, c>> \o <<d, e, f>> = <<a, b, c, d, e, f>>
<1> DEFINE S == {a, b, c, d, e, f}
<1>1. <<a, b, c>> \in Seq(S) /\ <<d, e, f>> \in Seq(S) /\ <<a, b, c, d, e, f>> \in Seq(S)
  OBVIOUS
<1>2. Len(<<a, b, c>>) = 3 /\ Len(<<d, e, f>>) = 3 /\ Len(<<a, b, c, d, e, f>>) = 6
  OBVIOUS
<1>3. /\ <<a, b, c>> \o <<d, e, f>> \in Seq(S) /\ Len(<<a, b, c>> \o <<d, e, f>>) = 6
      /\ \A i \in 1..6 : (<<a, b, c>> \o <<d, e, f>>)[i] = <<a, b, c, d, e, f>>[i]
  BY <1>1, <1>2, ConcatProperties
<1> QED
  BY <1>1, <1>2, <1>3, SeqEqual

LEMMA ThreeAndOne ==
    ASSUME NEW a, NEW b, NEW c, NEW d
    PROVE  <<a, b, c>> \o <<d>> = <<a, b, c, d>>
<1> DEFINE S == {a, b, c, d}
<1>1. <<a, b, c>> \in Seq(S) /\ <<d>> \in Seq(S) /\ <<a, b, c, d>> \in Seq(S)
  OBVIOUS
<1>2. Len(<<a, b, c>>) = 3 /\ Len(<<d>>) = 1 /\ Len(<<a, b, c, d>>) = 4
  OBVIOUS
<1>3. /\ <<a, b, c>> \o <<d>> \in Seq(S) /\ Len(<<a, b, c>> \o <<d>>) = 4
      /\ \A i \in 1..4 : (<<a, b, c>> \o <<d>>)[i] = <<a, b, c, d>>[i]
  BY <1>1, <1>2, ConcatProperties
<1> QED
  BY <1>1, <1>2, <1>3, SeqEqual

LEMMA TwoAndTwo ==
    ASSUME NEW a, NEW b, NEW c, NEW d
    PROVE  <<a, b>> \o <<c, d>> = <<a, b, c, d>>
<1> DEFINE S == {a, b, c, d}
<1>1. <<a, b>> \in Seq(S) /\ <<c, d>> \in Seq(S) /\ <<a, b, c, d>> \in Seq(S)
  OBVIOUS
<1>2. Len(<<a, b>>) = 2 /\ Len(<<c, d>>) = 2 /\ Len(<<a, b, c, d>>) = 4
  OBVIOUS
<1>3. /\ <<a, b>> \o <<c, d>> \in Seq(S) /\ Len(<<a, b>> \o <<c, d>>) = 4
      /\ \A i \in 1..4 : (<<a, b>> \o <<c, d>>)[i] = <<a, b, c, d>>[i]
  BY <1>1, <1>2, ConcatProperties
<1> QED
  BY <1>1, <1>2, <1>3, SeqEqual

LEMMA StepsWritten ==
    ASSUME NEW d, NEW n
    PROVE  /\ CreateSteps(d, n) = <<Lock(d), Lock(Factory), Unlock(Factory),
                                    Lock(n), Unlock(n), Unlock(d)>>
           /\ ReloadSteps(n) = <<Lock(n), Lock(Factory), Unlock(Factory), Unlock(n)>>
           /\ InvalidateSteps(n) = <<Lock(Factory), Unlock(Factory), Lock(n), Unlock(n)>>
           /\ RenameSteps(d, n, d) = RmdirSteps(d, n)
<1>1. CreateSteps(d, n) = <<Lock(d), Lock(Factory), Unlock(Factory),
                            Lock(n), Unlock(n), Unlock(d)>>
  <2>1. <<Lock(d)>> \o Known = <<Lock(d), Lock(Factory), Unlock(Factory)>>
    BY OneAndTwo, Zenon DEF Known
  <2>2. <<Lock(d), Lock(Factory), Unlock(Factory)>> \o <<Lock(n), Unlock(n), Unlock(d)>>
          = <<Lock(d), Lock(Factory), Unlock(Factory), Lock(n), Unlock(n), Unlock(d)>>
    BY ThreeAndThree, SMTT(30)
  <2> QED
    BY <2>1, <2>2, Zenon DEF CreateSteps
<1>2. ReloadSteps(n) = <<Lock(n), Lock(Factory), Unlock(Factory), Unlock(n)>>
  <2>1. <<Lock(n)>> \o Known = <<Lock(n), Lock(Factory), Unlock(Factory)>>
    BY OneAndTwo, Zenon DEF Known
  <2>2. <<Lock(n), Lock(Factory), Unlock(Factory)>> \o <<Unlock(n)>>
          = <<Lock(n), Lock(Factory), Unlock(Factory), Unlock(n)>>
    BY ThreeAndOne, Zenon
  <2> QED
    BY <2>1, <2>2, Zenon DEF ReloadSteps
<1>3. InvalidateSteps(n) = <<Lock(Factory), Unlock(Factory), Lock(n), Unlock(n)>>
  BY TwoAndTwo, Zenon DEF InvalidateSteps, Known
<1>4. RenameSteps(d, n, d) = RmdirSteps(d, n)
  BY Zenon DEF RenameSteps, RmdirSteps
<1> QED
  BY <1>1, <1>2, <1>3, <1>4

LEMMA LockTyped ==
    ASSUME NEW l \in Locks
    PROVE  /\ Lock(l) \in Step /\ Lock(l)[1] = "lock" /\ Lock(l)[2] = l
           /\ Unlock(l) \in Step /\ Unlock(l)[1] = "unlock" /\ Unlock(l)[2] = l
BY DEF Lock, Unlock, Step

LEMMA StepsTyped ==
    ASSUME NEW d \in Nodes, NEW n \in Nodes, NEW e \in Nodes
    PROVE  /\ CreateSteps(d, n) \in Seq(Step) /\ UnlinkSteps(d) \in Seq(Step)
           /\ RmdirSteps(d, n) \in Seq(Step) /\ RenameSteps(d, n, e) \in Seq(Step)
           /\ ReloadSteps(n) \in Seq(Step) /\ InvalidateSteps(n) \in Seq(Step)
<1>1. d \in Locks /\ n \in Locks /\ e \in Locks /\ Factory \in Locks
  BY DEF Locks
<1>2. /\ Lock(d) \in Step /\ Lock(n) \in Step /\ Lock(e) \in Step /\ Lock(Factory) \in Step
      /\ Unlock(d) \in Step /\ Unlock(n) \in Step /\ Unlock(e) \in Step
      /\ Unlock(Factory) \in Step
  BY <1>1, LockTyped
<1>3. CreateSteps(d, n) \in Seq(Step)
  <2>1. <<Lock(d), Lock(Factory), Unlock(Factory), Lock(n), Unlock(n), Unlock(d)>> \in Seq(Step)
    BY <1>2
  <2> QED
    BY <2>1, StepsWritten, Zenon
<1>4. ReloadSteps(n) \in Seq(Step) /\ InvalidateSteps(n) \in Seq(Step)
  <2>1. /\ <<Lock(n), Lock(Factory), Unlock(Factory), Unlock(n)>> \in Seq(Step)
        /\ <<Lock(Factory), Unlock(Factory), Lock(n), Unlock(n)>> \in Seq(Step)
    BY <1>2
  <2> QED
    BY <2>1, StepsWritten, Zenon
<1>5. UnlinkSteps(d) \in Seq(Step) /\ RmdirSteps(d, n) \in Seq(Step)
  BY <1>1, <1>2 DEF UnlinkSteps, RmdirSteps
<1>6. RenameSteps(d, n, e) \in Seq(Step)
  BY <1>1, <1>2 DEF RenameSteps
<1> QED
  BY <1>3, <1>4, <1>5, <1>6

--------------------------------------------------------------------------------
(* Types. *)

LEMMA NoCallTyped == NoCall \in Call /\ NoCall.steps = <<>> /\ NoCall.dirs = {}
                     /\ NoCall.node = Root /\ Root \in Nodes
<1>1. Root \in Tops
  BY LockAssumption DEF Root
<1>2. Root \in Nodes
  BY <1>1 DEF Nodes
<1> QED
  BY <1>2 DEF NoCall, Call, Place

LEMMA StartTyped ==
    ASSUME TypeOK, NEW p \in Procs, NEW steps \in Seq(Step), NEW dirs \in SUBSET Nodes,
           NEW node \in Nodes, NEW place \in Place, Start(p, steps, dirs, node, place)
    PROVE  call' \in [Procs -> Call] /\ UNCHANGED <<parent, owner, waiting, order, exited>>
<1>1. [steps |-> steps, held |-> {}, dirs |-> dirs, node |-> node, place |-> place] \in Call
  BY DEF Call
<1> QED
  BY <1>1 DEF Start, TypeOK

LEMMA AdvanceTyped ==
    ASSUME TypeOK, NEW p \in Procs, ~Idle(p), NEW held \in SUBSET Locks, Advance(p, held)
    PROVE  call' \in [Procs -> Call] /\ parent' \in [Nodes -> Place]
<1>1. /\ call[p] \in Call /\ call[p].steps \in Seq(Step) /\ call[p].steps # <<>>
      /\ call[p].node \in Nodes /\ call[p].place \in Place
  BY DEF TypeOK, Call, Idle
<1>2. Tail(call[p].steps) \in Seq(Step)
  BY <1>1
<1>3. [call[p] EXCEPT !.steps = Tail(call[p].steps), !.held = held] \in Call
  BY <1>1, <1>2 DEF Call
<1>4. call' \in [Procs -> Call]
  <2> DEFINE k == IF Len(call[p].steps) = 1 THEN NoCall
                  ELSE [call[p] EXCEPT !.steps = Tail(call[p].steps), !.held = held]
  <2>1. k \in Call
    BY <1>3, NoCallTyped
  <2>2. call' = [call EXCEPT ![p] = k]
    BY Zenon DEF Advance
  <2> HIDE DEF k
  <2> QED
    BY <2>1, <2>2 DEF TypeOK
<1>5. parent' \in [Nodes -> Place]
  BY <1>1 DEF Advance, TypeOK
<1> QED
  BY <1>4, <1>5

LEMMA TypeStep == ASSUME TypeOK, [Next]_vars PROVE TypeOK'
<1>0. Nodes \subseteq Place /\ "gone" \in Place
  BY DEF Place
<1>1. ASSUME NEW p \in Procs, NEW n \in Nodes, NEW d \in Nodes, Create(p, d, n)
      PROVE  TypeOK'
  BY <1>0, <1>1, StartTyped, StepsTyped DEF Create, TypeOK
<1>2. ASSUME NEW p \in Procs, NEW n \in Nodes, NEW e \in Nodes, Rename(p, n, e)
      PROVE  TypeOK'
  <2>1. /\ parent[n] \in Nodes
        /\ Start(p, RenameSteps(parent[n], n, e), {parent[n], e}, n, e)
        /\ crossed' \in BOOLEAN
    BY <1>2 DEF Rename, TypeOK
  <2>2. RenameSteps(parent[n], n, e) \in Seq(Step) /\ {parent[n], e} \in SUBSET Nodes
    BY <2>1, StepsTyped
  <2>3. call' \in [Procs -> Call] /\ UNCHANGED <<parent, owner, waiting, order, exited>>
    BY <1>0, <2>1, <2>2, StartTyped
  <2> QED
    BY <2>1, <2>3 DEF TypeOK
<1>3. ASSUME NEW p \in Procs, NEW n \in Nodes, Unlink(p, n) PROVE TypeOK'
  <2>1. /\ parent[n] \in Nodes /\ crossed' = crossed
        /\ Start(p, UnlinkSteps(parent[n]), {parent[n], n}, n, "gone")
    BY <1>3 DEF Unlink
  <2>2. UnlinkSteps(parent[n]) \in Seq(Step) /\ {parent[n], n} \in SUBSET Nodes
    BY <2>1, StepsTyped
  <2>3. call' \in [Procs -> Call] /\ UNCHANGED <<parent, owner, waiting, order, exited>>
    BY <1>0, <2>1, <2>2, StartTyped
  <2> QED
    BY <2>1, <2>3 DEF TypeOK
<1>4. ASSUME NEW p \in Procs, NEW n \in Nodes, Rmdir(p, n) PROVE TypeOK'
  <2> DEFINE place == IF Empty(n) THEN "gone" ELSE parent[n]
  <2>1. /\ parent[n] \in Nodes /\ crossed' = crossed /\ place \in Place
        /\ Start(p, RmdirSteps(parent[n], n), {parent[n], n}, n, place)
    BY <1>0, <1>4 DEF Rmdir
  <2>2. RmdirSteps(parent[n], n) \in Seq(Step) /\ {parent[n], n} \in SUBSET Nodes
    BY <2>1, StepsTyped
  <2> HIDE DEF place
  <2>3. call' \in [Procs -> Call] /\ UNCHANGED <<parent, owner, waiting, order, exited>>
    BY <2>1, <2>2, StartTyped
  <2> QED
    BY <2>1, <2>3 DEF TypeOK
<1>5. ASSUME NEW p \in Procs, NEW n \in Nodes, Reload(p, n) \/ InvalidateCache(p, n)
      PROVE  TypeOK'
  <2>1. parent[n] \in Place /\ {} \in SUBSET Nodes
    BY DEF TypeOK
  <2>2. call' \in [Procs -> Call] /\ UNCHANGED <<parent, owner, waiting, order, exited, crossed>>
    BY <1>5, <2>1, StepsTyped, StartTyped DEF Reload, InvalidateCache
  <2> QED
    BY <2>2 DEF TypeOK
<1>6. ASSUME NEW p \in Procs, DoLock(p) \/ DoUnlock(p) PROVE TypeOK'
  <2>1. ~Idle(p) /\ call[p] \in Call /\ call[p].steps \in Seq(Step) /\ call[p].steps # <<>>
    BY <1>6 DEF DoLock, DoUnlock, At, Idle, TypeOK, Call
  <2>2. Target(p) \in Locks /\ Held(p) \subseteq Locks
    BY <2>1 DEF Target, Held, Step, Call
  <2>3. /\ UNCHANGED <<order, exited, crossed>> /\ waiting' \subseteq Procs
        /\ owner' \in [Locks -> Procs \cup {NoProc}]
    BY <1>6, <2>2 DEF DoLock, DoUnlock, TypeOK
  <2>4. PICK held \in SUBSET Locks : Advance(p, held)
    BY <1>6, <2>2 DEF DoLock, DoUnlock
  <2>5. call' \in [Procs -> Call] /\ parent' \in [Nodes -> Place]
    BY <2>1, <2>4, AdvanceTyped
  <2> QED
    BY <2>3, <2>5 DEF TypeOK
<1>7. ASSUME NEW p \in Procs, PreLock(p) PROVE TypeOK'
  <2>1. call[p] \in Call /\ call[p].steps \in Seq(Step) /\ call[p].steps # <<>>
    BY <1>7 DEF PreLock, At, Idle, TypeOK, Call
  <2>2. Target(p) \in Locks /\ Held(p) \subseteq Locks
    BY <2>1 DEF Target, Held, Step, Call
  <2> QED
    BY <1>7, <2>2 DEF PreLock, TypeOK
<1>8. ASSUME NEW p \in Procs, Exit(p) \/ LockTimeout(p) PROVE TypeOK'
  BY <1>8 DEF Exit, LockTimeout, TypeOK
<1>9. CASE UNCHANGED vars
  BY <1>9 DEF vars, TypeOK
<1> QED
  BY <1>1, <1>2, <1>3, <1>4, <1>5, <1>6, <1>7, <1>8, <1>9 DEF Next
--------------------------------------------------------------------------------
(* The stages of a call. *)

\* Other calls do not disturb the stage of a call.
LEMMA StageKept ==
    ASSUME NEW k, NEW b, NEW tree, NEW taken, NEW tree2, NEW taken2,
           Stage(k, b, tree, taken), taken \subseteq taken2, tree2[b] # "new",
           tree[k.node] = "new" => tree2[k.node] = "new"
    PROVE  Stage(k, b, tree2, taken2)
BY DEF Stage, Below

\* k2 is the call k after its next step, a Lock.
Took(k, k2, taken, taken2) ==
    /\ k2.steps = Tail(k.steps) /\ k2.held = k.held \cup {Head(k.steps)[2]}
    /\ k2.node = k.node /\ k2.place = k.place /\ k2.dirs = k.dirs
    /\ taken \subseteq taken2 /\ \A h \in k.held : <<h, Head(k.steps)[2]>> \in taken2

\* Where a call goes from a Lock: with no lock held, or with the one of b and
\* to the factory's or the one of a node below b.
LEMMA LockStage ==
    ASSUME NEW k, NEW k2, NEW b \in Nodes, NEW tree, NEW taken, NEW taken2,
           k.node \in Nodes, Stage(k, b, tree, taken), Head(k.steps)[1] = "lock",
           Took(k, k2, taken, taken2)
    PROVE  /\ Len(k.steps) # 1
           /\ Stage(k2, b, tree, taken2)
           /\ \/ k.held = {}
              \/ k.held = {b} /\ Head(k.steps)[2] = Factory
              \/ /\ k.held = {b} /\ Head(k.steps)[2] = k.node
                 /\ Below(b, k.node, tree, taken)
<1>t. /\ k2.steps = Tail(k.steps) /\ k2.held = k.held \cup {Head(k.steps)[2]}
      /\ k2.node = k.node /\ k2.place = k.place /\ k2.dirs = k.dirs
      /\ taken \subseteq taken2 /\ \A h \in k.held : <<h, Head(k.steps)[2]>> \in taken2
  BY Zenon DEF Took
<1> USE <1>t
<1>l. b \in Locks /\ k.node \in Locks /\ Factory \in Locks
  BY DEF Locks
<1>u. \A l \in Locks : /\ Lock(l)[1] = "lock" /\ Lock(l)[2] = l /\ Unlock(l)[1] # "lock"
  BY LockTyped
<1>1. CASE Linking(k, b) /\ k.place \in {b, "gone"} /\ Below(b, k.node, tree, taken)
  <2>1. CASE k.steps = CreateSteps(b, k.node) /\ k.held = {}
    <3>1. k.steps = <<Lock(b), Lock(Factory), Unlock(Factory),
                      Lock(k.node), Unlock(k.node), Unlock(b)>>
      BY <2>1, StepsWritten
    <3>2. /\ Len(k.steps) # 1 /\ Head(k.steps) = Lock(b)
          /\ k2.steps = <<Lock(Factory), Unlock(Factory), Lock(k.node), Unlock(k.node), Unlock(b)>>
      BY <3>1
    <3>3. k2.held = {b}
      BY <1>l, <1>u, <2>1, <3>2
    <3>4. Linking(k2, b)
      BY <3>2, <3>3 DEF Linking
    <3> QED
      BY <1>1, <2>1, <3>2, <3>4 DEF Stage, Below
  <2>2. CASE k.steps = RmdirSteps(b, k.node) /\ k.held = {}
    <3>2. /\ Len(k.steps) # 1 /\ Head(k.steps) = Lock(b)
          /\ k2.steps = <<Lock(k.node), Unlock(k.node), Unlock(b)>>
      BY <2>2 DEF RmdirSteps
    <3>3. k2.held = {b}
      BY <1>l, <1>u, <2>2, <3>2
    <3>4. Linking(k2, b)
      BY <3>2, <3>3 DEF Linking
    <3> QED
      BY <1>1, <2>2, <3>2, <3>4 DEF Stage, Below
  <2>3. CASE /\ k.steps = <<Lock(Factory), Unlock(Factory), Lock(k.node), Unlock(k.node), Unlock(b)>>
             /\ k.held = {b}
    <3>2. /\ Len(k.steps) # 1 /\ Head(k.steps) = Lock(Factory)
          /\ k2.steps = <<Unlock(Factory), Lock(k.node), Unlock(k.node), Unlock(b)>>
      BY <2>3
    <3>3. k2.held = {b, Factory} /\ Head(k.steps)[2] = Factory
      BY <1>l, <1>u, <2>3, <3>2
    <3>4. Linking(k2, b)
      BY <3>2, <3>3 DEF Linking
    <3> QED
      BY <1>1, <2>3, <3>2, <3>3, <3>4 DEF Stage, Below
  <2>4. CASE k.steps = <<Unlock(Factory), Lock(k.node), Unlock(k.node), Unlock(b)>>
    BY <1>l, <1>u, <2>4
  <2>5. CASE k.steps = <<Lock(k.node), Unlock(k.node), Unlock(b)>> /\ k.held = {b}
    <3>2. /\ Len(k.steps) # 1 /\ Head(k.steps) = Lock(k.node)
          /\ k2.steps = <<Unlock(k.node), Unlock(b)>>
      BY <2>5
    <3>3. /\ k2.held = {b, k.node} /\ Head(k.steps)[2] = k.node
          /\ <<b, k.node>> \in taken2
      BY <1>l, <1>u, <2>5, <3>2
    <3>4. Leaving(k2, b)
      BY <3>2, <3>3 DEF Leaving
    <3> QED
      BY <1>1, <2>5, <3>2, <3>3, <3>4 DEF Stage
  <2> QED
    BY <1>1, <2>1, <2>2, <2>3, <2>4, <2>5 DEF Linking
<1>2. CASE Leaving(k, b)
  BY <1>l, <1>u, <1>2 DEF Leaving
<1>3. CASE Alone(k, b) /\ (k.dirs = {} \/ k.place = "gone")
  <2>1. CASE k.steps = ReloadSteps(b) /\ k.held = {}
    <3>1. k.steps = <<Lock(b), Lock(Factory), Unlock(Factory), Unlock(b)>>
      BY <2>1, StepsWritten
    <3>2. /\ Len(k.steps) # 1 /\ Head(k.steps) = Lock(b)
          /\ k2.steps = <<Lock(Factory), Unlock(Factory), Unlock(b)>>
      BY <3>1
    <3>3. k2.held = {b}
      BY <1>l, <1>u, <2>1, <3>2
    <3>4. Alone(k2, b)
      BY <3>2, <3>3 DEF Alone
    <3> QED
      BY <1>3, <2>1, <3>2, <3>4 DEF Stage
  <2>2. CASE k.steps = <<Lock(Factory), Unlock(Factory), Unlock(b)>> /\ k.held = {b}
    <3>2. /\ Len(k.steps) # 1 /\ Head(k.steps) = Lock(Factory)
          /\ k2.steps = <<Unlock(Factory), Unlock(b)>>
      BY <2>2
    <3>3. k2.held = {b, Factory} /\ Head(k.steps)[2] = Factory
      BY <1>l, <1>u, <2>2, <3>2
    <3>4. Alone(k2, b)
      BY <3>2, <3>3 DEF Alone
    <3> QED
      BY <1>3, <2>2, <3>2, <3>3, <3>4 DEF Stage
  <2>3. CASE k.steps = InvalidateSteps(b) /\ k.held = {}
    <3>1. k.steps = <<Lock(Factory), Unlock(Factory), Lock(b), Unlock(b)>>
      BY <2>3, StepsWritten
    <3>2. /\ Len(k.steps) # 1 /\ Head(k.steps) = Lock(Factory)
          /\ k2.steps = <<Unlock(Factory), Lock(b), Unlock(b)>>
      BY <3>1
    <3>3. k2.held = {Factory}
      BY <1>l, <1>u, <2>3, <3>2
    <3>4. Alone(k2, b)
      BY <3>2, <3>3 DEF Alone
    <3> QED
      BY <1>3, <2>3, <3>2, <3>4 DEF Stage
  <2>4. CASE k.steps = <<Lock(b), Unlock(b)>> /\ k.held = {}
    <3>2. /\ Len(k.steps) # 1 /\ Head(k.steps) = Lock(b)
          /\ k2.steps = <<Unlock(b)>>
      BY <2>4
    <3>3. k2.held = {b}
      BY <1>l, <1>u, <2>4, <3>2
    <3>4. Alone(k2, b)
      BY <3>2, <3>3 DEF Alone
    <3> QED
      BY <1>3, <2>4, <3>2, <3>4 DEF Stage
  <2>5. CASE \/ k.steps = <<Unlock(Factory), Unlock(b)>>
             \/ k.steps = <<Unlock(Factory), Lock(b), Unlock(b)>>
             \/ k.steps = <<Unlock(b)>>
    BY <1>l, <1>u, <2>5
  <2> QED
    BY <1>3, <2>1, <2>2, <2>3, <2>4, <2>5 DEF Alone
<1> QED
  BY <1>1, <1>2, <1>3 DEF Stage

\* Where a call goes from an Unlock.  After the last one it may put its node
\* where it was locked under, or take it away.
LEMMA UnlockStage ==
    ASSUME NEW k, NEW k2, NEW b \in Nodes, NEW tree, NEW taken,
           k.node \in Nodes, Stage(k, b, tree, taken), Head(k.steps)[1] = "unlock",
           <<b, k.node>> \in taken => b # k.node,
           k2.steps = Tail(k.steps), k2.held = k.held \ {Head(k.steps)[2]},
           k2.node = k.node, k2.place = k.place, k2.dirs = k.dirs
    PROVE  /\ Len(k.steps) # 1 => Stage(k2, b, tree, taken)
           /\ Len(k.steps) = 1 =>
                 k.dirs = {} \/ k.place = "gone" \/ (k.place = b /\ <<b, k.node>> \in taken)
<1>l. b \in Locks /\ k.node \in Locks /\ Factory \in Locks /\ b # Factory
  BY LockAssumption DEF Locks, Nodes
<1>u. \A l \in Locks : /\ Unlock(l)[1] = "unlock" /\ Unlock(l)[2] = l /\ Lock(l)[1] # "unlock"
  BY LockTyped
<1>1. CASE Linking(k, b) /\ k.place \in {b, "gone"} /\ Below(b, k.node, tree, taken)
  <2>1. CASE k.steps = CreateSteps(b, k.node)
    BY <1>l, <1>u, <2>1, StepsWritten
  <2>2. CASE k.steps = RmdirSteps(b, k.node)
    BY <1>l, <1>u, <2>2 DEF RmdirSteps
  <2>3. CASE \/ k.steps = <<Lock(Factory), Unlock(Factory), Lock(k.node), Unlock(k.node), Unlock(b)>>
             \/ k.steps = <<Lock(k.node), Unlock(k.node), Unlock(b)>>
    BY <1>l, <1>u, <2>3
  <2>4. CASE /\ k.steps = <<Unlock(Factory), Lock(k.node), Unlock(k.node), Unlock(b)>>
             /\ k.held = {b, Factory}
    <3>1. /\ Len(k.steps) # 1 /\ Head(k.steps) = Unlock(Factory)
          /\ k2.steps = <<Lock(k.node), Unlock(k.node), Unlock(b)>>
      BY <2>4
    <3>2. k2.held = {b}
      BY <1>l, <1>u, <2>4, <3>1
    <3>3. Linking(k2, b)
      BY <3>1, <3>2 DEF Linking
    <3> QED
      BY <1>1, <3>1, <3>3 DEF Stage
  <2> QED
    BY <1>1, <2>1, <2>2, <2>3, <2>4 DEF Linking
<1>2. CASE Leaving(k, b) /\ k.place \in {b, "gone"} /\ <<b, k.node>> \in taken
  <2>1. CASE k.steps = <<Unlock(k.node), Unlock(b)>> /\ k.held = {b, k.node}
    <3>1. /\ Len(k.steps) # 1 /\ Head(k.steps) = Unlock(k.node)
          /\ k2.steps = <<Unlock(b)>>
      BY <2>1
    <3>2. k2.held = {b}
      BY <1>l, <1>u, <1>2, <2>1, <3>1
    <3>3. Leaving(k2, b)
      BY <3>1, <3>2 DEF Leaving
    <3> QED
      BY <1>2, <3>1, <3>3 DEF Stage
  <2>2. CASE k.steps = <<Unlock(b)>>
    BY <1>2, <2>2
  <2> QED
    BY <1>2, <2>1, <2>2 DEF Leaving
<1>3. CASE Alone(k, b) /\ (k.dirs = {} \/ k.place = "gone")
  <2>1. CASE k.steps = ReloadSteps(b) \/ k.steps = InvalidateSteps(b)
    <3>1. \/ k.steps = <<Lock(b), Lock(Factory), Unlock(Factory), Unlock(b)>>
          \/ k.steps = <<Lock(Factory), Unlock(Factory), Lock(b), Unlock(b)>>
      BY <2>1, StepsWritten, Zenon
    <3>2. Head(k.steps) = Lock(b) \/ Head(k.steps) = Lock(Factory)
      BY <3>1
    <3> QED
      BY <1>l, <1>u, <3>2
  <2>2. CASE k.steps = <<Unlock(Factory), Unlock(b)>> /\ k.held = {b, Factory}
    <3>1. /\ Len(k.steps) # 1 /\ Head(k.steps) = Unlock(Factory)
          /\ k2.steps = <<Unlock(b)>>
      BY <2>2
    <3>2. k2.held = {b}
      BY <1>l, <1>u, <2>2, <3>1
    <3>3. Alone(k2, b)
      BY <3>1, <3>2 DEF Alone
    <3> QED
      BY <1>3, <3>1, <3>3 DEF Stage
  <2>3. CASE k.steps = <<Unlock(Factory), Lock(b), Unlock(b)>> /\ k.held = {Factory}
    <3>1. /\ Len(k.steps) # 1 /\ Head(k.steps) = Unlock(Factory)
          /\ k2.steps = <<Lock(b), Unlock(b)>>
      BY <2>3
    <3>2. k2.held = {}
      BY <1>l, <1>u, <2>3, <3>1
    <3>3. Alone(k2, b)
      BY <3>1, <3>2 DEF Alone
    <3> QED
      BY <1>3, <3>1, <3>3 DEF Stage
  <2>4. CASE \/ k.steps = <<Lock(Factory), Unlock(Factory), Unlock(b)>>
             \/ k.steps = <<Lock(b), Unlock(b)>>
    BY <1>l, <1>u, <2>4
  <2>5. CASE k.steps = <<Unlock(b)>>
    BY <1>3, <2>5
  <2> QED
    BY <1>3, <2>1, <2>2, <2>3, <2>4, <2>5 DEF Alone
<1> QED
  BY <1>1, <1>2, <1>3 DEF Stage
--------------------------------------------------------------------------------
(* The order is kept. *)

LEMMA Places ==
    ASSUME NEW n \in Nodes
    PROVE  n # "new" /\ n # "top" /\ n # "gone" /\ n # Factory /\ n \in Locks
BY LockAssumption DEF Nodes, Locks

\* A call that starts at a stage leaves the others at theirs.
LEMMA StartOrderly ==
    ASSUME TypeOK, Staged, MadeOnce, Downward, exited # "inversion",
           NEW p \in Procs, NEW steps \in Seq(Step), NEW dirs \in SUBSET Nodes,
           NEW node \in Nodes, NEW place \in Place, NEW b \in Nodes,
           Start(p, steps, dirs, node, place),
           Stage([steps |-> steps, held |-> {}, dirs |-> dirs, node |-> node, place |-> place],
                 b, parent, order),
           parent[node] = "new" => \A q \in Procs : call[q].node # node
    PROVE  (Staged /\ MadeOnce /\ Downward /\ exited # "inversion")'
<1> DEFINE k == [steps |-> steps, held |-> {}, dirs |-> dirs, node |-> node, place |-> place]
<1>1. /\ UNCHANGED <<parent, owner, waiting, order, exited>>
      /\ call'[p] = k
      /\ \A q \in Procs : q # p => call'[q] = call[q]
  BY DEF Start, TypeOK
<1>2. k.node = node /\ Stage(k, b, parent, order)
  OBVIOUS
<1> HIDE DEF k
<1>3. Staged'
  <2> SUFFICES ASSUME NEW q \in Procs, call'[q].steps # <<>>
               PROVE  \E c \in Nodes : Stage(call'[q], c, parent', order')
    BY DEF Staged, Idle
  <2>1. CASE q = p
    BY <1>1, <1>2, <2>1
  <2>2. CASE q # p
    BY <1>1, <2>2 DEF Staged, Idle
  <2> QED
    BY <2>1, <2>2
<1>4. MadeOnce'
  <2> SUFFICES ASSUME NEW q \in Procs, NEW r \in Procs, q # r, call'[q].steps # <<>>,
                      call'[r].steps # <<>>, call'[q].node = call'[r].node
               PROVE  parent'[call'[q].node] # "new"
    BY DEF MadeOnce, Idle
  <2>1. CASE q = p
    BY <1>1, <1>2, <2>1
  <2>2. CASE r = p
    BY <1>1, <1>2, <2>2
  <2>3. CASE q # p /\ r # p
    BY <1>1, <2>3 DEF MadeOnce, Idle
  <2> QED
    BY <2>1, <2>2, <2>3
<1>5. Downward' /\ exited' # "inversion"
  BY <1>1 DEF Downward
<1> QED
  BY <1>3, <1>4, <1>5

\* The calls the kernel may make start at a stage.
LEMMA StartStage ==
    ASSUME NEW d \in Nodes, NEW n \in Nodes, NEW tree, NEW taken, NEW dirs, NEW place,
           tree[d] # "new"
    PROVE  /\ (Below(d, n, tree, taken) /\ place \in {d, "gone"}) =>
                 \A steps \in {CreateSteps(d, n), RmdirSteps(d, n)} :
                    Stage([steps |-> steps, held |-> {}, dirs |-> dirs, node |-> n,
                           place |-> place], d, tree, taken)
           /\ place = "gone" =>
                 Stage([steps |-> UnlinkSteps(d), held |-> {}, dirs |-> dirs, node |-> n,
                        place |-> place], d, tree, taken)
           /\ dirs = {} =>
                 \A steps \in {ReloadSteps(d), InvalidateSteps(d)} :
                    Stage([steps |-> steps, held |-> {}, dirs |-> dirs, node |-> n,
                           place |-> place], d, tree, taken)
<1> DEFINE k(steps) == [steps |-> steps, held |-> {}, dirs |-> dirs, node |-> n, place |-> place]
<1>1. \A steps : /\ k(steps).steps = steps /\ k(steps).held = {} /\ k(steps).dirs = dirs
                 /\ k(steps).node = n /\ k(steps).place = place
  OBVIOUS
<1> HIDE DEF k
<1>2. ASSUME Below(d, n, tree, taken), place \in {d, "gone"},
             NEW steps \in {CreateSteps(d, n), RmdirSteps(d, n)}
      PROVE  Stage(k(steps), d, tree, taken)
  BY <1>1, <1>2, Zenon DEF Stage, Linking
<1>3. ASSUME place = "gone" PROVE Stage(k(UnlinkSteps(d)), d, tree, taken)
  BY <1>1, <1>3, Zenon DEF Stage, Alone, UnlinkSteps
<1>4. ASSUME dirs = {}, NEW steps \in {ReloadSteps(d), InvalidateSteps(d)}
      PROVE  Stage(k(steps), d, tree, taken)
  BY <1>1, <1>4, Zenon DEF Stage, Alone
<1> QED
  BY <1>2, <1>3, <1>4, Zenon DEF k

LEMMA StartKeeps ==
    ASSUME Inv, ~crossed', NEW p \in Procs, NEW n \in Nodes,
           \/ \E d \in Nodes : Create(p, d, n) \/ Rename(p, n, d)
           \/ Unlink(p, n) \/ Rmdir(p, n) \/ Reload(p, n) \/ InvalidateCache(p, n)
    PROVE  (Staged /\ MadeOnce /\ Downward /\ exited # "inversion")'
<1>1. ~crossed
  BY DEF Create, Rename, Unlink, Rmdir, Reload, InvalidateCache
<1>2. TypeOK /\ Staged /\ MadeOnce /\ Downward /\ exited # "inversion"
  BY <1>1 DEF Inv, Orderly
<1>3. Nodes \subseteq Place /\ "gone" \in Place /\ parent[n] \in Place
  BY <1>2 DEF Place, TypeOK
\* A node in a directory: its directory is there and comes before it.
<1>4. ASSUME parent[n] \in Nodes
      PROVE  /\ parent[parent[n]] # "new" /\ parent[n] # "new"
             /\ Below(parent[n], n, parent, order)
  <2>1. <<parent[n], n>> \in order
    BY <1>2, <1>4 DEF Downward
  <2>2. parent[parent[n]] # "new"
    BY <1>2, <2>1 DEF Downward
  <2> QED
    BY <1>4, <2>1, <2>2, Places DEF Below
<1>5. ASSUME NEW d \in Nodes, Create(p, d, n)
      PROVE  (Staged /\ MadeOnce /\ Downward /\ exited # "inversion")'
  <2>1. /\ parent[d] # "new" /\ parent[n] = "new" /\ \A q \in Procs : call[q].node # n
        /\ Start(p, CreateSteps(d, n), {d}, n, d)
    BY <1>5, Places DEF Create, Present
  <2>2. Stage([steps |-> CreateSteps(d, n), held |-> {}, dirs |-> {d}, node |-> n, place |-> d],
              d, parent, order)
    BY <2>1, StartStage, Zenon DEF Below
  <2> QED
    BY <1>2, <1>3, <2>1, <2>2, StartOrderly, StepsTyped
<1>6. ASSUME NEW e \in Nodes, Rename(p, n, e)
      PROVE  (Staged /\ MadeOnce /\ Downward /\ exited # "inversion")'
  <2>1. /\ parent[n] \in Nodes /\ e = parent[n]
        /\ Start(p, RenameSteps(e, n, e), {e}, n, e)
    BY <1>6 DEF Rename
  <2>2. RenameSteps(e, n, e) = RmdirSteps(e, n)
    BY StepsWritten
  <2>3. Stage([steps |-> RmdirSteps(e, n), held |-> {}, dirs |-> {e}, node |-> n, place |-> e],
              e, parent, order)
    BY <1>4, <2>1, StartStage, Zenon
  <2>4. RmdirSteps(e, n) \in Seq(Step) /\ Start(p, RmdirSteps(e, n), {e}, n, e)
    BY <2>1, <2>2, StepsTyped
  <2> QED
    BY <1>2, <1>3, <1>4, <2>1, <2>3, <2>4, StartOrderly
<1>7. CASE Unlink(p, n)
  <2> DEFINE d == parent[n]
  <2>1. d \in Nodes /\ Start(p, UnlinkSteps(d), {d, n}, n, "gone")
    BY <1>7 DEF Unlink
  <2>2. Stage([steps |-> UnlinkSteps(d), held |-> {}, dirs |-> {d, n}, node |-> n,
               place |-> "gone"], d, parent, order)
    BY <1>4, <2>1, StartStage, Zenon
  <2>3. UnlinkSteps(d) \in Seq(Step) /\ {d, n} \in SUBSET Nodes /\ parent[n] # "new"
    BY <1>4, <2>1, StepsTyped
  <2> HIDE DEF d
  <2> QED
    BY <1>2, <1>3, <2>1, <2>2, <2>3, StartOrderly
<1>8. CASE Rmdir(p, n)
  <2> DEFINE d == parent[n]
             place == IF Empty(n) THEN "gone" ELSE d
  <2>1. d \in Nodes /\ Start(p, RmdirSteps(d, n), {d, n}, n, place) /\ place \in {d, "gone"}
    BY <1>8 DEF Rmdir
  <2>2. RmdirSteps(d, n) \in Seq(Step) /\ {d, n} \in SUBSET Nodes /\ parent[n] # "new"
    BY <1>4, <2>1, StepsTyped
  <2>3. Below(d, n, parent, order) /\ parent[d] # "new" /\ place \in Place
    BY <1>3, <1>4, <2>1
  <2> HIDE DEF d, place
  <2>4. Stage([steps |-> RmdirSteps(d, n), held |-> {}, dirs |-> {d, n}, node |-> n,
               place |-> place], d, parent, order)
    BY <2>1, <2>3, StartStage, Zenon
  <2> QED
    BY <1>2, <2>1, <2>2, <2>3, <2>4, StartOrderly
<1>9. CASE Reload(p, n) \/ InvalidateCache(p, n)
  <2>1. PICK steps \in {ReloadSteps(n), InvalidateSteps(n)} : Start(p, steps, {}, n, parent[n])
    BY <1>9 DEF Reload, InvalidateCache
  <2>2. parent[n] # "new"
    BY <1>9, Places DEF Reload, InvalidateCache, Present
  <2>3. Stage([steps |-> steps, held |-> {}, dirs |-> {}, node |-> n, place |-> parent[n]],
              n, parent, order)
    BY <2>2, StartStage, Zenon
  <2>4. steps \in Seq(Step) /\ {} \in SUBSET Nodes
    BY StepsTyped
  <2> QED
    BY <1>2, <1>3, <2>1, <2>2, <2>3, <2>4, StartOrderly
<1> QED
  BY <1>5, <1>6, <1>7, <1>8, <1>9

\* What a step of p does to the calls and the tree.
LEMMA AdvanceFrame ==
    ASSUME TypeOK, NEW p \in Procs, ~Idle(p), NEW held \in SUBSET Locks, Advance(p, held)
    PROVE  /\ \A q \in Procs : q # p => call'[q] = call[q]
           /\ Len(call[p].steps) # 1 =>
                 /\ parent' = parent
                 /\ call'[p].steps = Tail(call[p].steps) /\ call'[p].held = held
                 /\ call'[p].node = call[p].node /\ call'[p].place = call[p].place
                 /\ call'[p].dirs = call[p].dirs
           /\ Len(call[p].steps) = 1 =>
                 /\ call'[p] = NoCall
                 /\ call[p].dirs = {} => parent' = parent
                 /\ call[p].dirs # {} =>
                       \A n \in Nodes : parent'[n] = IF n = call[p].node THEN call[p].place
                                                     ELSE parent[n]
<1> DEFINE k == IF Len(call[p].steps) = 1 THEN NoCall
                ELSE [call[p] EXCEPT !.steps = Tail(call[p].steps), !.held = held]
<1>0. call[p] \in Call
  BY DEF TypeOK
<1>1. Len(call[p].steps) # 1 =>
                 /\ k.steps = Tail(call[p].steps) /\ k.held = held
                 /\ k.node = call[p].node /\ k.place = call[p].place
                 /\ k.dirs = call[p].dirs
  BY <1>0 DEF Call
<1>2. Len(call[p].steps) = 1 => k = NoCall
  OBVIOUS
<1>3. call' = [call EXCEPT ![p] = k]
  BY Zenon DEF Advance
<1> HIDE DEF k
<1>4. call'[p] = k /\ \A q \in Procs : q # p => call'[q] = call[q]
  BY <1>3 DEF TypeOK
<1>5. /\ Len(call[p].steps) # 1 => parent' = parent
      /\ Len(call[p].steps) = 1 =>
            /\ call[p].dirs = {} => parent' = parent
            /\ call[p].dirs # {} =>
                  \A n \in Nodes : parent'[n] = IF n = call[p].node THEN call[p].place
                                                ELSE parent[n]
  BY DEF Advance, TypeOK
<1> QED
  BY <1>1, <1>2, <1>4, <1>5, Zenon

\* A step of p leaves the other calls at their stages.
LEMMA AdvanceKeeps ==
    ASSUME TypeOK, Staged, MadeOnce, NEW p \in Procs, ~Idle(p), NEW held \in SUBSET Locks,
           Advance(p, held), order \subseteq order',
           Len(call[p].steps) # 1 => \E b \in Nodes : Stage(call'[p], b, parent', order'),
           Len(call[p].steps) = 1 => call[p].dirs = {} \/ call[p].place # "new"
    PROVE  /\ Staged' /\ MadeOnce'
           /\ \A n \in Nodes : parent[n] # "new" => parent'[n] # "new"
<1>1. \A n \in Nodes : parent[n] # "new" => parent'[n] # "new"
  BY AdvanceFrame
<1>2. \A n \in Nodes : n # call[p].node => parent'[n] = parent[n]
  BY AdvanceFrame
<1>3. call'[p].steps # <<>> =>
         Len(call[p].steps) # 1 /\ call'[p].node = call[p].node
  BY AdvanceFrame, NoCallTyped
<1>4. \A q \in Procs : q # p => call'[q] = call[q]
  BY AdvanceFrame
<1>5. \A q \in Procs : call[q].node \in Nodes
  BY DEF TypeOK, Call
<1>6. Staged'
  <2> SUFFICES ASSUME NEW q \in Procs, call'[q].steps # <<>>
               PROVE  \E c \in Nodes : Stage(call'[q], c, parent', order')
    BY DEF Staged, Idle
  <2>1. CASE q = p
    BY <1>3, <2>1
  <2>2. CASE q # p
    <3>1. call'[q] = call[q] /\ call[q].steps # <<>>
      BY <1>4, <2>2
    <3>2. PICK c \in Nodes : Stage(call[q], c, parent, order)
      BY <3>1 DEF Staged, Idle
    <3>3. parent[c] # "new"
      BY <3>2 DEF Stage
    <3>4. parent[call[q].node] = "new" => parent'[call[q].node] = "new"
      BY <1>2, <1>5, <2>2, <3>1 DEF MadeOnce, Idle
    <3>5. Stage(call[q], c, parent', order')
      BY <1>1, <3>2, <3>3, <3>4, StageKept
    <3> QED
      BY <3>1, <3>5
  <2> QED
    BY <2>1, <2>2
<1>7. MadeOnce'
  <2> SUFFICES ASSUME NEW q \in Procs, NEW r \in Procs, q # r, call'[q].steps # <<>>,
                      call'[r].steps # <<>>, call'[q].node = call'[r].node
               PROVE  parent'[call'[q].node] # "new"
    BY DEF MadeOnce, Idle
  <2>1. /\ call[q].steps # <<>> /\ call[r].steps # <<>>
        /\ call'[q].node = call[q].node /\ call'[r].node = call[r].node
    BY <1>3, <1>4 DEF Idle
  <2> QED
    BY <1>1, <1>5, <2>1 DEF MadeOnce, Idle
<1> QED
  BY <1>1, <1>6, <1>7

\* The lock that a call takes next comes before none that it holds.
LEMMA Descends ==
    ASSUME TypeOK, Staged, Downward, NEW p \in Procs, At(p, "lock")
    PROVE  /\ ~Inverted(p) /\ ~Idle(p) /\ Len(call[p].steps) # 1
           /\ Target(p) \in Locks
           /\ \A h \in Held(p) :
                 /\ h \in Nodes /\ parent[h] # "new"
                 /\ h # Target(p) /\ <<Target(p), h>> \notin order
           /\ \E b \in Nodes : \A k2, taken2 :
                 Took(call[p], k2, order, taken2) => Stage(k2, b, parent, taken2)
<1>1. /\ call[p] \in Call /\ call[p].steps \in Seq(Step) /\ call[p].steps # <<>>
      /\ call[p].node \in Nodes /\ Head(call[p].steps)[1] = "lock" /\ ~Idle(p)
  BY DEF At, TypeOK, Call, Idle
<1>2. PICK b \in Nodes : Stage(call[p], b, parent, order)
  BY <1>1 DEF Staged
<1>3. parent[b] # "new"
  BY <1>2 DEF Stage
<1>4. ASSUME NEW k2, NEW taken2, Took(call[p], k2, order, taken2)
      PROVE  /\ Len(call[p].steps) # 1 /\ Stage(k2, b, parent, taken2)
             /\ \/ call[p].held = {}
                \/ call[p].held = {b} /\ Head(call[p].steps)[2] = Factory
                \/ /\ call[p].held = {b} /\ Head(call[p].steps)[2] = call[p].node
                   /\ Below(b, call[p].node, parent, order)
  BY <1>1, <1>2, <1>4, LockStage, Zenon
<1>5. /\ Len(call[p].steps) # 1
      /\ \/ Held(p) = {}
         \/ Held(p) = {b} /\ Target(p) = Factory
         \/ /\ Held(p) = {b} /\ Target(p) = call[p].node
            /\ Below(b, call[p].node, parent, order)
  <2> DEFINE l == Head(call[p].steps)[2]
             k2 == [call[p] EXCEPT !.steps = Tail(call[p].steps), !.held = call[p].held \cup {l}]
             taken2 == order \cup {<<h, l>> : h \in call[p].held}
  <2>1. /\ k2.steps = Tail(call[p].steps) /\ k2.held = call[p].held \cup {l}
        /\ k2.node = call[p].node /\ k2.place = call[p].place /\ k2.dirs = call[p].dirs
    BY <1>1 DEF Call
  <2>2. order \subseteq taken2 /\ \A h \in call[p].held : <<h, l>> \in taken2
    OBVIOUS
  <2> HIDE DEF k2, taken2
  <2>3. Took(call[p], k2, order, taken2)
    BY <2>1, <2>2, Zenon DEF Took
  <2> QED
    BY <1>4, <2>3, Zenon DEF Held, Target
<1>6. \A h \in Held(p) : /\ h \in Nodes /\ parent[h] # "new"
                         /\ h # Target(p) /\ <<Target(p), h>> \notin order
  <2> SUFFICES ASSUME NEW h \in Held(p)
               PROVE  /\ h \in Nodes /\ parent[h] # "new"
                      /\ h # Target(p) /\ <<Target(p), h>> \notin order
    OBVIOUS
  <2>1. h = b
    BY <1>5
  <2>2. CASE Target(p) = Factory
    BY <1>3, <2>1, <2>2, Places DEF Downward
  <2>3. CASE Target(p) = call[p].node /\ <<b, call[p].node>> \in order
    <3>1. b \in Locks /\ call[p].node \in Locks
      BY <1>1, Places
    <3> QED
      BY <1>3, <2>1, <2>3, <3>1 DEF Downward
  <2>4. CASE Target(p) = call[p].node /\ parent[call[p].node] = "new"
    BY <1>3, <2>1, <2>4 DEF Downward
  <2> QED
    BY <1>5, <2>2, <2>3, <2>4 DEF Below
<1>7. ~Inverted(p)
  BY <1>6 DEF Inverted
<1>8. Target(p) \in Locks
  BY <1>1 DEF Target, Step
<1>9. \E c \in Nodes : \A k2, taken2 :
         Took(call[p], k2, order, taken2) => Stage(k2, c, parent, taken2)
  BY <1>4, Zenon
<1> QED
  BY <1>1, <1>5, <1>6, <1>7, <1>8, <1>9

LEMMA PreLockKeeps ==
    ASSUME Inv, ~crossed, NEW p \in Procs, PreLock(p)
    PROVE  (Staged /\ MadeOnce /\ Downward /\ exited # "inversion")'
<1>1. TypeOK /\ Staged /\ MadeOnce /\ Downward /\ exited # "inversion"
  BY DEF Inv, Orderly
<1>2. /\ At(p, "lock") /\ UNCHANGED <<parent, call, exited>>
      /\ order' = order \cup {<<h, Target(p)>> : h \in Held(p)}
  BY DEF PreLock
<1>3. /\ Target(p) \in Locks
      /\ \A h \in Held(p) : /\ h \in Nodes /\ parent[h] # "new"
                            /\ h # Target(p) /\ <<Target(p), h>> \notin order
  BY <1>1, <1>2, Descends
<1>4. Staged'
  <2> SUFFICES ASSUME NEW q \in Procs, call[q].steps # <<>>
               PROVE  \E c \in Nodes : Stage(call[q], c, parent, order')
    BY <1>2 DEF Staged, Idle
  <2>1. PICK c \in Nodes : Stage(call[q], c, parent, order)
    BY <1>1 DEF Staged, Idle
  <2>2. parent[c] # "new" /\ order \subseteq order'
    BY <1>2, <2>1 DEF Stage
  <2> QED
    BY <2>1, <2>2, StageKept
<1>5. MadeOnce'
  BY <1>1, <1>2 DEF MadeOnce, Idle
<1>6. Downward'
  <2>1. ASSUME NEW pair \in order' PROVE pair[1] \in Nodes /\ parent[pair[1]] # "new"
    <3>1. CASE pair \in order
      BY <1>1, <3>1 DEF Downward
    <3>2. CASE pair \in {<<h, Target(p)>> : h \in Held(p)}
      <4>1. PICK h \in Held(p) : pair = <<h, Target(p)>>
        BY <3>2
      <4>2. pair[1] = h
        BY <4>1
      <4> QED
        BY <1>3, <4>2
    <3> QED
      BY <1>2, <3>1, <3>2
  <2>2. ASSUME NEW a \in Locks, NEW c \in Locks, <<a, c>> \in order', <<c, a>> \in order'
        PROVE  FALSE
    <3>1. <<a, c>> \in order \/ (a \in Held(p) /\ c = Target(p))
      BY <1>2, <2>2
    <3>2. <<c, a>> \in order \/ (c \in Held(p) /\ a = Target(p))
      BY <1>2, <2>2
    <3> QED
      BY <1>1, <1>3, <3>1, <3>2 DEF Downward
  <2>3. \A n \in Nodes : parent[n] \in Nodes => <<parent[n], n>> \in order'
    BY <1>1, <1>2 DEF Downward
  <2> QED
    BY <1>2, <2>1, <2>2, <2>3 DEF Downward
<1> QED
  BY <1>1, <1>2, <1>4, <1>5, <1>6

LEMMA LockKeeps ==
    ASSUME Inv, ~crossed, NEW p \in Procs, DoLock(p)
    PROVE  (Staged /\ MadeOnce /\ Downward /\ exited # "inversion")'
<1>1. TypeOK /\ Staged /\ MadeOnce /\ Downward /\ exited # "inversion" /\ Recorded
  BY DEF Inv, Orderly
<1>2. /\ At(p, "lock") /\ p \in waiting /\ Advance(p, Held(p) \cup {Target(p)})
      /\ order' = order /\ exited' = exited
  BY DEF DoLock
<1>3. /\ ~Idle(p) /\ Len(call[p].steps) # 1 /\ Target(p) \in Locks
      /\ \A h \in Held(p) : h \in Nodes
  BY <1>1, <1>2, Descends
<1>4. PICK b \in Nodes : \A k2, taken2 :
         Took(call[p], k2, order, taken2) => Stage(k2, b, parent, taken2)
  BY <1>1, <1>2, Descends
<1>5. Held(p) \cup {Target(p)} \in SUBSET Locks
  BY <1>3, Places
<1>6. /\ parent' = parent
      /\ call'[p].steps = Tail(call[p].steps) /\ call'[p].held = Held(p) \cup {Target(p)}
      /\ call'[p].node = call[p].node /\ call'[p].place = call[p].place
      /\ call'[p].dirs = call[p].dirs
  BY <1>1, <1>2, <1>3, <1>5, AdvanceFrame
<1>7. order \subseteq order' /\ \A h \in Held(p) : <<h, Target(p)>> \in order'
  BY <1>1, <1>2 DEF Recorded
<1>8. Took(call[p], call'[p], order, order')
  BY <1>6, <1>7, Zenon DEF Took, Held, Target
<1>9. Staged' /\ MadeOnce'
  BY <1>1, <1>2, <1>3, <1>4, <1>5, <1>6, <1>7, <1>8, AdvanceKeeps
<1>10. Downward'
  BY <1>1, <1>2, <1>6 DEF Downward
<1> QED
  BY <1>1, <1>2, <1>9, <1>10

LEMMA UnlockKeeps ==
    ASSUME Inv, ~crossed, NEW p \in Procs, DoUnlock(p)
    PROVE  (Staged /\ MadeOnce /\ Downward /\ exited # "inversion")'
<1>1. TypeOK /\ Staged /\ MadeOnce /\ Downward /\ exited # "inversion"
  BY DEF Inv, Orderly
<1>2. /\ At(p, "unlock") /\ Advance(p, Held(p) \ {Target(p)})
      /\ order' = order /\ exited' = exited
  BY DEF DoUnlock
<1>3. /\ call[p] \in Call /\ call[p].steps \in Seq(Step) /\ call[p].steps # <<>> /\ ~Idle(p)
      /\ call[p].node \in Nodes /\ Head(call[p].steps)[1] = "unlock" /\ Held(p) \subseteq Locks
  BY <1>1, <1>2 DEF At, TypeOK, Call, Idle, Held
<1>4. PICK b \in Nodes : Stage(call[p], b, parent, order)
  BY <1>1, <1>3 DEF Staged
<1>5. <<b, call[p].node>> \in order => b # call[p].node
  BY <1>1, <1>3, Places DEF Downward
<1>6. Held(p) \ {Target(p)} \in SUBSET Locks
  BY <1>3
<1>7. ASSUME Len(call[p].steps) # 1 PROVE Stage(call'[p], b, parent', order')
  <2>1. /\ parent' = parent
        /\ call'[p].steps = Tail(call[p].steps)
        /\ call'[p].held = call[p].held \ {Head(call[p].steps)[2]}
        /\ call'[p].node = call[p].node /\ call'[p].place = call[p].place
        /\ call'[p].dirs = call[p].dirs
    BY <1>1, <1>2, <1>3, <1>6, <1>7, AdvanceFrame DEF Held, Target
  <2>2. Stage(call'[p], b, parent, order)
    BY <1>3, <1>4, <1>5, <1>7, <2>1, UnlockStage, Zenon
  <2> QED
    BY <1>2, <2>1, <2>2
<1>8. ASSUME Len(call[p].steps) = 1
      PROVE  \/ call[p].dirs = {} \/ call[p].place = "gone"
             \/ call[p].place = b /\ <<b, call[p].node>> \in order
  <2> DEFINE k == [call[p] EXCEPT !.steps = Tail(call[p].steps),
                                  !.held = call[p].held \ {Head(call[p].steps)[2]}]
  <2>1. /\ k.steps = Tail(call[p].steps)
        /\ k.held = call[p].held \ {Head(call[p].steps)[2]}
        /\ k.node = call[p].node /\ k.place = call[p].place /\ k.dirs = call[p].dirs
    BY <1>3 DEF Call
  <2> HIDE DEF k
  <2> QED
    BY <1>3, <1>4, <1>5, <1>8, <2>1, UnlockStage, Zenon
<1>9. Staged' /\ MadeOnce' /\ \A n \in Nodes : parent[n] # "new" => parent'[n] # "new"
  <2>1. Len(call[p].steps) = 1 => call[p].dirs = {} \/ call[p].place # "new"
    BY <1>8, Places
  <2>2. order \subseteq order'
    BY <1>2
  <2> QED
    BY <1>1, <1>2, <1>3, <1>6, <1>7, <2>1, <2>2, AdvanceKeeps
<1>10. \A n \in Nodes : parent'[n] \in Nodes => <<parent'[n], n>> \in order'
  <2> SUFFICES ASSUME NEW n \in Nodes, parent'[n] \in Nodes PROVE <<parent'[n], n>> \in order
    BY <1>2
  <2>1. CASE parent'[n] = parent[n]
    BY <1>1, <2>1 DEF Downward
  <2>2. CASE parent'[n] # parent[n]
    <3>1. /\ Len(call[p].steps) = 1 /\ call[p].dirs # {}
          /\ n = call[p].node /\ parent'[n] = call[p].place
      BY <1>1, <1>2, <1>3, <1>6, <2>2, AdvanceFrame
    <3> QED
      BY <1>8, <3>1, Places
  <2> QED
    BY <2>1, <2>2
<1>11. Downward'
  <2>1. /\ \A pair \in order' : pair[1] \in Nodes /\ parent'[pair[1]] # "new"
        /\ \A a, c \in Locks : <<a, c>> \in order' => <<c, a>> \notin order'
    BY <1>1, <1>2, <1>9 DEF Downward
  <2> QED
    BY <1>10, <2>1 DEF Downward
<1> QED
  BY <1>1, <1>2, <1>9, <1>11

\* A call that waits for a lock changes only by getting it.
LEMMA RecordedStep == ASSUME TypeOK, Recorded, [Next]_vars PROVE Recorded'
<1>0. \A q \in Procs : call[q] \in Call
  BY DEF TypeOK
<1>1. ASSUME NEW p \in Procs, NEW steps, NEW dirs, NEW node, NEW place,
             Start(p, steps, dirs, node, place)
      PROVE  Recorded'
  <2>1. /\ call[p].steps = <<>> /\ UNCHANGED <<waiting, order>>
        /\ \A q \in Procs : q # p => call'[q] = call[q]
    BY <1>1 DEF Start, Idle, TypeOK
  <2> QED
    BY <2>1 DEF Recorded, Held, Target, TypeOK
<1>2. ASSUME NEW p \in Procs, PreLock(p) PROVE Recorded'
  BY <1>2 DEF PreLock, At, Idle, Recorded, Held, Target
<1>3. ASSUME NEW p \in Procs, DoLock(p) \/ DoUnlock(p) PROVE Recorded'
  <2>1. /\ waiting' \subseteq waiting /\ p \notin waiting' /\ order' = order
    BY <1>3 DEF DoLock, DoUnlock, At, Recorded
  <2>2. /\ ~Idle(p) /\ call[p].steps \in Seq(Step) /\ call[p].steps # <<>>
    BY <1>0, <1>3 DEF DoLock, DoUnlock, At, Idle, Call
  <2>3. Target(p) \in Locks /\ Held(p) \subseteq Locks
    BY <1>0, <2>2 DEF Target, Held, Step, Call
  <2>4. PICK held \in SUBSET Locks : Advance(p, held)
    BY <1>3, <2>3 DEF DoLock, DoUnlock
  <2>5. \A q \in Procs : q # p => call'[q] = call[q]
    BY <2>2, <2>4, AdvanceFrame
  <2> QED
    BY <2>1, <2>5 DEF Recorded, Held, Target, TypeOK
<1>4. ASSUME NEW p \in Procs, Exit(p) \/ LockTimeout(p) PROVE Recorded'
  BY <1>4 DEF Exit, LockTimeout, Recorded, Held, Target
<1>5. CASE UNCHANGED vars
  BY <1>5 DEF vars, Recorded, Held, Target
<1>6. ASSUME NEW p \in Procs, NEW n \in Nodes,
             \/ \E d \in Nodes : Create(p, d, n) \/ Rename(p, n, d)
             \/ Unlink(p, n) \/ Rmdir(p, n) \/ Reload(p, n) \/ InvalidateCache(p, n)
      PROVE  Recorded'
  <2>1. \E steps, dirs, node, place : Start(p, steps, dirs, node, place)
    BY <1>6, Zenon DEF Create, Rename, Unlink, Rmdir, Reload, InvalidateCache
  <2> QED
    BY <1>1, <2>1
<1> QED
  BY <1>2, <1>3, <1>4, <1>5, <1>6 DEF Next

--------------------------------------------------------------------------------
(* The theorems. *)

LEMMA InitInv == Init => Inv
<1> SUFFICES ASSUME Init PROVE Inv
  OBVIOUS
<1>1. TypeOK
  <2>1. {"top", "new"} \subseteq Place /\ "top" \notin Nodes /\ "new" \notin Nodes
    BY LockAssumption DEF Place, Nodes
  <2> QED
    BY <2>1, NoCallTyped DEF Init, TypeOK
<1>2. \A p \in Procs : Idle(p)
  BY NoCallTyped DEF Init, Idle
<1>3. \A n \in Nodes : parent[n] \notin Nodes
  BY LockAssumption DEF Init, Nodes
<1>4. Staged /\ MadeOnce /\ Downward /\ exited # "inversion"
  BY <1>2, <1>3 DEF Staged, MadeOnce, Downward, Init
<1>5. Recorded
  BY DEF Init, Recorded
<1> QED
  BY <1>1, <1>4, <1>5 DEF Inv, Orderly

LEMMA StepInv == Inv /\ [Next]_vars => Inv'
<1> SUFFICES ASSUME Inv, [Next]_vars PROVE Inv'
  OBVIOUS
<1>1. TypeOK'
  BY TypeStep DEF Inv
<1>r. Recorded'
  BY RecordedStep DEF Inv
<1>2. ASSUME ~crossed' PROVE (Staged /\ MadeOnce /\ Downward /\ exited # "inversion")'
  <2>1. ASSUME NEW p \in Procs, NEW n \in Nodes,
               \/ \E d \in Nodes : Create(p, d, n) \/ Rename(p, n, d)
               \/ Unlink(p, n) \/ Rmdir(p, n) \/ Reload(p, n) \/ InvalidateCache(p, n)
        PROVE  (Staged /\ MadeOnce /\ Downward /\ exited # "inversion")'
    BY <1>2, <2>1, StartKeeps
  <2>2. ASSUME NEW p \in Procs, DoLock(p)
        PROVE  (Staged /\ MadeOnce /\ Downward /\ exited # "inversion")'
    BY <1>2, <2>2, LockKeeps DEF DoLock
  <2>3. ASSUME NEW p \in Procs, DoUnlock(p)
        PROVE  (Staged /\ MadeOnce /\ Downward /\ exited # "inversion")'
    BY <1>2, <2>3, UnlockKeeps DEF DoUnlock
  <2>4. ASSUME NEW p \in Procs, Exit(p) PROVE FALSE
    BY <1>2, <2>4, Descends DEF Exit, Inv, Orderly
  <2>6. ASSUME NEW p \in Procs, PreLock(p)
        PROVE  (Staged /\ MadeOnce /\ Downward /\ exited # "inversion")'
    BY <1>2, <2>6, PreLockKeeps DEF PreLock
  <2>7. ASSUME NEW p \in Procs, LockTimeout(p)
        PROVE  (Staged /\ MadeOnce /\ Downward /\ exited # "inversion")'
    <3>1. /\ Staged /\ MadeOnce /\ Downward /\ exited' = "timeout"
          /\ UNCHANGED <<parent, call, order>>
      BY <1>2, <2>7 DEF LockTimeout, Inv, Orderly
    <3> QED
      BY <3>1 DEF Staged, MadeOnce, Downward, Idle
  <2>5. CASE UNCHANGED vars
    <3>1. ~crossed /\ Staged /\ MadeOnce /\ Downward /\ exited # "inversion"
      BY <1>2, <2>5 DEF Inv, Orderly, vars
    <3> QED
      BY <2>5, <3>1 DEF vars, Staged, MadeOnce, Downward, Idle
  <2> QED
    BY <2>1, <2>2, <2>3, <2>4, <2>5, <2>6, <2>7 DEF Next
<1> QED
  BY <1>1, <1>r, <1>2 DEF Inv, Orderly

LEMMA Invariance == Spec => []Inv
BY InitInv, StepInv, PTL DEF Spec

\* The calls, the owners of the locks and the order of go-deadlock keep their
\* types, whatever the tree and however many requests run at once.
THEOREM TypeCorrectness == Spec => []TypeOK
<1>1. Inv => TypeOK
  BY DEF Inv
<1> QED
  BY <1>1, Invariance, PTL

\* As long as nothing is moved between directories, Create, Unlink, Rmdir,
\* Rename, the reloads and InvalidateCache ask for mu of the parent before mu of
\* the child and for mu of the factory last, so that go-deadlock's check of the
\* order never ends the mount, however many requests run at once.
THEOREM NoInversion == Spec => []OrderKept
<1>1. Inv => OrderKept
  BY DEF Inv, Orderly, OrderKept
<1> QED
  BY <1>1, Invariance, PTL
==============================================================================
