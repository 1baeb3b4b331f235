---------------------------- MODULE BlobPathProofs ----------------------------
(***************************************************************************)
(* Proofs about BlobPath for any blobs, callers, kinds of store, capacity  *)
(* of the channel and number of failures.                                  *)
(***************************************************************************)
EXTENDS BlobPath, Integers, TLAPS

--------------------------------------------------------------------------------
(* What Append and Tail do to the set of the queue's elements. *)

\* An element is what some index has.
LEMMA ToSetElement ==
    ASSUME NEW S, NEW s \in Seq(S), NEW x
    PROVE  x \in ToSet(s) <=> \E i \in 1..Len(s) : s[i] = x
BY DEF ToSet

\* Append adds its element.
LEMMA ToSetAppend ==
    ASSUME NEW S, NEW s \in Seq(S), NEW e \in S
    PROVE  ToSet(Append(s, e)) = ToSet(s) \cup {e}
<1>1. Append(s, e) \in Seq(S) /\ Len(Append(s, e)) = Len(s) + 1 /\ Len(s) \in Nat
  OBVIOUS
<1>2. \A i \in 1..Len(s) : Append(s, e)[i] = s[i]
  OBVIOUS
<1>3. Append(s, e)[Len(s) + 1] = e
  OBVIOUS
<1>4. ASSUME NEW x PROVE x \in ToSet(Append(s, e)) <=> x \in ToSet(s) \cup {e}
  <2>1. x \in ToSet(Append(s, e)) <=> \E i \in 1..(Len(s) + 1) : Append(s, e)[i] = x
    BY <1>1, ToSetElement
  <2>2. x \in ToSet(s) <=> \E i \in 1..Len(s) : s[i] = x
    BY ToSetElement
  <2> QED
    BY <1>1, <1>2, <1>3, <2>1, <2>2
<1> QED
  BY <1>4

\* The elements of a sequence are its head and those of its tail.
LEMMA ToSetTail ==
    ASSUME NEW S, NEW s \in Seq(S), s # <<>>
    PROVE  ToSet(s) = ToSet(Tail(s)) \cup {Head(s)}
<1> DEFINE t == Tail(s)
<1>1. t \in Seq(S) /\ Len(t) = Len(s) - 1 /\ Head(s) = s[1]
  OBVIOUS
<1>2. Len(s) \in Nat /\ Len(s) > 0
  OBVIOUS
<1>3. \A i \in 1..(Len(s) - 1) : t[i] = s[i + 1]
  OBVIOUS
<1> HIDE DEF t
<1>4. ASSUME NEW x PROVE x \in ToSet(s) <=> x \in ToSet(t) \cup {Head(s)}
  <2>1. x \in ToSet(t) <=> \E i \in 1..Len(t) : t[i] = x
    BY <1>1, ToSetElement
  <2>2. x \in ToSet(s) <=> \E i \in 1..Len(s) : s[i] = x
    BY ToSetElement
  <2>3. ASSUME NEW i \in 1..Len(s)
        PROVE  i = 1 \/ (i - 1 \in 1..Len(t) /\ s[i] = t[i - 1])
    <3> SUFFICES ASSUME i # 1 PROVE i - 1 \in 1..Len(t) /\ s[i] = t[i - 1]
      OBVIOUS
    <3>1. i - 1 \in 1..(Len(s) - 1) /\ (i - 1) + 1 = i
      BY <1>2
    <3> QED
      BY <1>1, <1>3, <3>1
  <2>4. ASSUME NEW i \in 1..Len(t)
        PROVE  i + 1 \in 1..Len(s) /\ s[i + 1] = t[i]
    BY <1>1, <1>2, <1>3
  <2> QED
    BY <1>1, <1>2, <2>1, <2>2, <2>3, <2>4
<1> QED
  BY <1>4 DEF t

--------------------------------------------------------------------------------

Inv == TypeOK /\ AckedNotForgotten

--------------------------------------------------------------------------------
(* Stores. *)

\* g is f but for the file of k.
Changed(f, k, g) == \E what \in File : g = [f EXCEPT ![k] = what]

\* A Put changes what the store holds for its key, or nothing.
LEMMA StorePutFile ==
    ASSUME NEW store, NEW f \in [Keys -> File], NEW k \in Keys, NEW made,
           NEW out \in StorePut(store, f, k, made)
    PROVE  Changed(f, k, out.file)
<1> DEFINE g(what) == [f EXCEPT ![k] = what]
<1>1. out.file \in {f, g("whole"), g("partial")}
  <2>1. CASE out \in MemoryPut(f, k)
    BY <2>1 DEF MemoryPut
  <2>2. CASE out \in DiskPut(f, k, made)
    <3>1. \/ out = [file |-> f, err |-> FALSE, failed |-> FALSE]
          \/ out = [file |-> g("whole"), err |-> TRUE, failed |-> FALSE]
          \/ out = [file |-> g("partial"), err |-> FALSE, failed |-> TRUE]
      BY <2>2, Zenon DEF DiskPut
    <3> HIDE DEF g
    <3> QED
      BY <3>1
  <2> QED
    BY <2>1, <2>2 DEF StorePut
<1>2. f = g(f[k]) /\ f[k] \in File
  OBVIOUS
<1> HIDE DEF g
<1>3. \E what \in File : out.file = g(what)
  BY <1>1, <1>2 DEF File
<1> QED
  BY <1>3 DEF g, Changed

LEMMA CountedTyped ==
    ASSUME TypeOK, NEW out, Counted(out)
    PROVE  failures' \in 0..MaxFailures
BY PathAssumption DEF TypeOK, Counted

\* What the slow store is left with by a request that reaches it.
LEMMA RemotePutTyped ==
    ASSUME TypeOK, NEW k \in Keys, NEW out \in RemotePut(k)
    PROVE  out.file \in [Keys -> File]
<1>1. slow \in [Keys -> File]
  BY DEF TypeOK
<1> DEFINE store == kind.slow
           made == dirs["slow"]
<1>2. out \in StorePut(store, slow, k, made)
  BY DEF RemotePut
<1> HIDE DEF store, made
<1>3. Changed(slow, k, out.file)
  BY <1>1, <1>2, StorePutFile
<1> QED
  BY <1>1, <1>3 DEF Changed

--------------------------------------------------------------------------------

LEMMA PutStep ==
    ASSUME TypeOK, NEW c \in Callers, NEW k \in Keys, Put(c, k)
    PROVE  TypeOK'
<1>1. PICK out \in StorePut(kind.fast, fast, k, dirs["fast"]) :
          /\ Counted(out) /\ fast' = out.file
          /\ callers' = IF out.err THEN callers ELSE [callers EXCEPT ![c] = k]
  BY DEF Put
<1>2. fast \in [Keys -> File]
  BY DEF TypeOK
<1>3. fast' \in [Keys -> File]
  <2>1. Changed(fast, k, out.file)
    BY <1>1, <1>2, StorePutFile
  <2> QED
    BY <1>1, <1>2, <2>1 DEF Changed
<1>4. failures' \in 0..MaxFailures
  BY <1>1, <1>3, CountedTyped
<1>5. callers' \in [Callers -> Keys \cup {NoKey}]
  BY <1>1 DEF TypeOK
<1> QED
  BY <1>3, <1>4, <1>5 DEF Put, TypeOK

LEMMA EnqueueStep ==
    ASSUME Inv, NEW c \in Callers, Enqueue(c)
    PROVE  Inv'
<1> DEFINE k == callers[c]
<1>1. /\ k \in Keys /\ queue \in Seq(Keys) /\ queue' = Append(queue, k)
      /\ Len(queue) < Capacity /\ Len(queue) \in Nat
      /\ acked' = acked \cup {k} /\ callers' = [callers EXCEPT ![c] = NoKey]
      /\ UNCHANGED <<kind, fast, slow, dirs, writing, granted, failures>>
  BY DEF Inv, Enqueue, TypeOK
<1> HIDE DEF k
<1>2. queue' \in Seq(Keys) /\ Len(queue') <= Capacity
  BY <1>1, PathAssumption
<1>3. ToSet(queue') = ToSet(queue) \cup {k}
  BY <1>1, ToSetAppend
<1>4. callers' \in [Callers -> Keys \cup {NoKey}]
  BY <1>1 DEF Inv, TypeOK
<1>5. TypeOK'
  BY <1>1, <1>2, <1>4 DEF Inv, TypeOK
<1>6. AckedNotForgotten'
  BY <1>1, <1>3 DEF Inv, AckedNotForgotten
<1> QED
  BY <1>5, <1>6 DEF Inv

LEMMA WritebackStep ==
    ASSUME Inv, Writeback
    PROVE  Inv'
<1>1. /\ queue \in Seq(Keys) /\ queue # <<>> /\ Len(queue) <= Capacity
      /\ writing = NoKey /\ writing' = Head(queue) /\ queue' = Tail(queue)
      /\ UNCHANGED <<kind, fast, slow, dirs, callers, acked, granted, failures>>
  BY DEF Inv, Writeback, TypeOK
<1>2. /\ Head(queue) \in Keys /\ Tail(queue) \in Seq(Keys)
      /\ Len(Tail(queue)) = Len(queue) - 1 /\ Len(queue) \in Nat
  BY <1>1
<1>3. Len(queue') <= Capacity
  BY <1>1, <1>2, PathAssumption
<1>4. ToSet(queue) = ToSet(queue') \cup {writing'}
  BY <1>1, ToSetTail
<1>5. TypeOK'
  BY <1>1, <1>2, <1>3 DEF Inv, TypeOK
<1>6. acked \subseteq Keys
  BY DEF Inv, TypeOK
<1>7. AckedNotForgotten'
  BY <1>1, <1>4, <1>6, PathAssumption DEF Inv, AckedNotForgotten
<1> QED
  BY <1>5, <1>7 DEF Inv

\* A round of writeback1 that reaches the blob server.
LEMMA Writeback1Step ==
    ASSUME Inv, Writeback1
    PROVE  Inv'
<1>1. PICK out \in RemotePut(writing) :
          /\ Counted(out) /\ slow' = out.file
          /\ writing' = IF out.err THEN writing ELSE NoKey
          /\ granted' = IF out.err THEN granted ELSE granted \cup {writing}
  BY DEF Writeback1
<1>2. /\ writing # NoKey
      /\ UNCHANGED <<kind, fast, dirs, callers, queue, acked>>
  BY DEF Writeback1
<1>3. TypeOK /\ writing \in Keys
  BY <1>2 DEF Inv, TypeOK
<1>4. slow' \in [Keys -> File]
  BY <1>1, <1>3, RemotePutTyped
<1>5. failures' \in 0..MaxFailures
  BY <1>1, <1>3, <1>4, CountedTyped
<1>6. TypeOK'
  BY <1>1, <1>2, <1>3, <1>4, <1>5 DEF TypeOK
<1>7. AckedNotForgotten'
  BY <1>1, <1>2 DEF Inv, AckedNotForgotten
<1> QED
  BY <1>6, <1>7 DEF Inv

\* A round whose request or answer is lost.
LEMMA Writeback1FailsStep ==
    ASSUME Inv, Writeback1Fails
    PROVE  Inv'
<1>1. /\ writing # NoKey /\ failures < MaxFailures /\ failures' = failures + 1
      /\ UNCHANGED <<kind, fast, dirs, callers, queue, writing, acked, granted>>
      /\ slow' = slow \/ \E out \in RemotePut(writing) : slow' = out.file
  BY DEF Writeback1Fails
<1>2. TypeOK /\ writing \in Keys /\ slow \in [Keys -> File]
  BY <1>1 DEF Inv, TypeOK
<1>3. slow' \in [Keys -> File]
  BY <1>1, <1>2, RemotePutTyped
<1>4. failures' \in 0..MaxFailures
  BY <1>1, <1>2, PathAssumption DEF TypeOK
<1>5. TypeOK'
  BY <1>1, <1>2, <1>3, <1>4 DEF TypeOK
<1>6. AckedNotForgotten'
  BY <1>1 DEF Inv, AckedNotForgotten
<1> QED
  BY <1>5, <1>6 DEF Inv

\* A put of another mount.
LEMMA ForeignPutStep ==
    ASSUME Inv, NEW k \in Keys, ForeignPut(k)
    PROVE  Inv'
<1>1. PICK out \in RemotePut(k) : Counted(out) /\ slow' = out.file
  BY DEF ForeignPut
<1>2. UNCHANGED <<kind, fast, dirs, callers, queue, writing, acked, granted>>
  BY DEF ForeignPut
<1>3. TypeOK
  BY DEF Inv
<1>4. slow' \in [Keys -> File]
  BY <1>1, <1>3, RemotePutTyped
<1>5. failures' \in 0..MaxFailures
  BY <1>1, <1>3, <1>4, CountedTyped
<1>6. TypeOK'
  BY <1>2, <1>3, <1>4, <1>5 DEF TypeOK
<1>7. AckedNotForgotten'
  BY <1>2 DEF Inv, AckedNotForgotten
<1> QED
  BY <1>6, <1>7 DEF Inv

--------------------------------------------------------------------------------

LEMMA InitInv == ASSUME Init PROVE Inv
<1>1. queue \in Seq(Keys) /\ Len(queue) <= Capacity
  BY PathAssumption DEF Init
<1>2. TypeOK
  BY <1>1, PathAssumption DEF Init, TypeOK, Nothing, File
<1> QED
  BY <1>2 DEF Inv, Init, AckedNotForgotten

\* The inductive invariant holds in every reachable state.
THEOREM Invariance == Spec => []Inv
<1>1. Init => Inv
  BY InitInv
<1>2. ASSUME Inv, [Next]_vars PROVE Inv'
  <2>1. ASSUME NEW c \in Callers, NEW k \in Keys, Put(c, k) PROVE Inv'
    <3>1. TypeOK'
      BY <1>2, <2>1, PutStep DEF Inv
    <3>2. AckedNotForgotten'
      BY <1>2, <2>1 DEF Inv, Put, AckedNotForgotten
    <3> QED
      BY <3>1, <3>2 DEF Inv
  <2>2. CASE UNCHANGED vars
    BY <1>2, <2>2 DEF vars, Inv, TypeOK, AckedNotForgotten
  <2> QED
    BY <1>2, <2>1, <2>2, EnqueueStep, WritebackStep, Writeback1Step,
       Writeback1FailsStep, ForeignPutStep DEF Next
<1> QED
  BY <1>1, <1>2, PTL DEF Spec

\* Stores, callers and the channel keep their types: the channel never holds
\* more than its capacity, however many callers wait to send.
THEOREM TypeCorrectness == Spec => []TypeOK
<1>1. Inv => TypeOK
  BY DEF Inv
<1> QED
  BY <1>1, Invariance, PTL

\* What Paired has acknowledged was granted by the slow store or is on its way
\* there, whatever stores lie on either side, for any number of blobs, callers,
\* mounts' puts and failures and any capacity of the channel.
THEOREM NothingForgotten == Spec => []AckedNotForgotten
<1>1. Inv => AckedNotForgotten
  BY DEF Inv
<1> QED
  BY <1>1, Invariance, PTL
================================================================================
