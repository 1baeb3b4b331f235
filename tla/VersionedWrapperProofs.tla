------------------------ MODULE VersionedWrapperProofs ------------------------
(***************************************************************************)
(* Proofs about VersionedWrapper for any number of clients, any versions   *)
(* and any number of failing puts.                                         *)
(*                                                                         *)
(* Types and the mutex are proved of every delegate store.  That versions  *)
(* rise, and that one Put wins per version, is proved of a delegate whose  *)
(* Get tells the truth, and of versions below the last word: past it the   *)
(* expected version is 0 and any Put is accepted.                          *)
(***************************************************************************)
EXTENDS VersionedWrapper, TLAPS

\* Inside the wrapper, between Lock and Unlock.
Inside(c) == call[c].at \in {"get", "put"}

\* The mutex is held by whoever is inside, so at most one call is.
Exclusive ==
    /\ \A c \in Clients : Inside(c) => mutex = c
    /\ \A c \in Clients : call[c].op = "none" => call[c].at = "none"

\* Whoever is about to write has a version that is newer than the entry.
Checked ==
    \A c \in Clients : call[c].at = "put" =>
        (Absent(entry) \/ call[c].version > entry.version)

\* Versions offered are below the last word, and so are those stored.
Below(version) == version + 1 < Word

Bounded ==
    /\ Below(entry.version)
    /\ \A c \in Clients : Below(call[c].version)

\* A Put that was answered with success is the entry, or older than it.
Won ==
    \A r \in replies : r.ok =>
        /\ ~Absent(entry)
        /\ r.version <= entry.version

\* The delegate's Get tells the truth, and versions stay below the last word.
Truthful == "get" \notin Failing /\ \A v \in Offered : Below(v)

Inv == TypeOK /\ Exclusive
RiseInv == Inv /\ Checked /\ Bounded /\ Won /\ OneWinner

--------------------------------------------------------------------------------

\* What a Put returns with is a reply.
LEMMA ReplyTyped ==
    ASSUME TypeOK, NEW c \in Clients, NEW ok \in BOOLEAN, Replied(c, ok)
    PROVE  replies' \subseteq Reply
<1>1. [client |-> c, version |-> call[c].version, ok |-> ok] \in Reply
  BY DEF TypeOK, Reply
<1> QED
  BY <1>1 DEF Replied, TypeOK

\* A call that returns releases the mutex.
LEMMA ReturnTyped ==
    ASSUME Inv, NEW c \in Clients, Inside(c), Return(c)
    PROVE  /\ call' \in [Clients -> [op : {"none", "put", "get"},
                                     at : {"none", "lock", "get", "put"},
                                     version : Versionz]]
           /\ mutex' \in Clients \cup {NoClient}
           /\ Exclusive'
           /\ \A d \in Clients : call'[d].at # "put"
<1> USE WrapperAssumption, WordAssumption
<1>1. Idle \in [op : {"none", "put", "get"}, at : {"none", "lock", "get", "put"},
               version : Versionz]
  BY DEF Idle, Versionz
<1>2. call'[c] = Idle /\ \A d \in Clients \ {c} : call'[d] = call[d]
  BY DEF Return, Inv, TypeOK
<1>3. \A d \in Clients \ {c} : ~Inside(d)
  BY DEF Inv, Exclusive
<1> QED
  BY <1>1, <1>2, <1>3 DEF Return, Inv, TypeOK, Exclusive, Inside, Idle

\* A read of the delegate is counted when it failed.
LEMMA ReadTyped ==
    ASSUME TypeOK, NEW r \in Read, CountedRead(r)
    PROVE  failures' \in 0..MaxFailures /\ r.nilValue \in BOOLEAN
<1> USE WrapperAssumption
<1>1. \/ r = [curr |-> entry, nilValue |-> FALSE]
      \/ r = [curr |-> NoEntry, nilValue |-> TRUE] /\ failures < MaxFailures
  BY DEF Read
<1>2. r.nilValue = FALSE \/ r.nilValue = TRUE
  BY <1>1
<1>3. failures' \in 0..MaxFailures
  BY <1>1 DEF CountedRead, TypeOK
<1> QED
  BY <1>2, <1>3

\* Every call of the wrapper keeps the types and the mutex.
LEMMA NextInv == Inv /\ [Next]_vars => Inv'
<1> SUFFICES ASSUME Inv, [Next]_vars PROVE Inv'
  OBVIOUS
<1> USE WrapperAssumption, WordAssumption
<1>t. TypeOK
  BY DEF Inv
<1>1. ASSUME NEW c \in Clients, NEW op \in {"put", "get"}, NEW version \in Versionz,
             Start(c, op, version)
      PROVE  Inv'
  BY <1>1 DEF Inv, Start, TypeOK, Exclusive, Inside, Idle
<1>2. ASSUME NEW c \in Clients, Lock(c) PROVE Inv'
  BY <1>2 DEF Inv, Lock, TypeOK, Exclusive, Inside
<1>3. ASSUME NEW c \in Clients, PutCheck(c) PROVE Inv'
  <2> PICK r \in Read :
        /\ CountedRead(r)
        /\ \/ /\ Stale(r.curr, call[c].version)
              /\ Return(c)
              /\ Replied(c, FALSE)
           \/ /\ ~Stale(r.curr, call[c].version)
              /\ call' = [call EXCEPT ![c].at = "put"]
              /\ UNCHANGED <<mutex, replies>>
    BY <1>3 DEF PutCheck
  <2>1. failures' \in 0..MaxFailures
    BY <1>t, ReadTyped
  <2>2. UNCHANGED <<entry, panicked>> /\ Inside(c)
    BY <1>3 DEF PutCheck, Inside
  <2>3. CASE Return(c) /\ Replied(c, FALSE)
    BY <1>t, <2>1, <2>2, <2>3, ReplyTyped, ReturnTyped DEF Inv, TypeOK
  <2>4. CASE call' = [call EXCEPT ![c].at = "put"] /\ UNCHANGED <<mutex, replies>>
    BY <1>3, <2>1, <2>2, <2>4 DEF Inv, PutCheck, TypeOK, Exclusive, Inside
  <2> QED
    BY <2>3, <2>4
<1>4. ASSUME NEW c \in Clients, PutWrite(c) PROVE Inv'
  <2>1. entry' \in Entry
    BY <1>4, <1>t DEF PutWrite, NewEntry, TypeOK, Entry, Values
  <2>2. Inside(c) /\ Return(c) /\ Replied(c, TRUE) /\ UNCHANGED <<failures, panicked>>
    BY <1>4 DEF PutWrite, Inside
  <2> QED
    BY <1>t, <2>1, <2>2, ReplyTyped, ReturnTyped DEF Inv, TypeOK
<1>5. ASSUME NEW c \in Clients, PutFails(c) PROVE Inv'
  <2>1. failures' \in 0..MaxFailures
    BY <1>5, <1>t DEF PutFails, TypeOK
  <2>2. Inside(c) /\ Return(c) /\ Replied(c, FALSE) /\ UNCHANGED <<entry, panicked>>
    BY <1>5 DEF PutFails, Inside
  <2> QED
    BY <1>t, <2>1, <2>2, ReplyTyped, ReturnTyped DEF Inv, TypeOK
<1>6. ASSUME NEW c \in Clients, Get(c) PROVE Inv'
  <2> PICK r \in Read : CountedRead(r) /\ panicked' = r.nilValue
    BY <1>6 DEF Get
  <2>1. failures' \in 0..MaxFailures /\ panicked' \in BOOLEAN
    BY <1>t, ReadTyped
  <2>2. Inside(c) /\ Return(c) /\ UNCHANGED <<entry, replies>>
    BY <1>6 DEF Get, Inside
  <2> QED
    BY <1>t, <2>1, <2>2, ReturnTyped DEF Inv, TypeOK
<1>7. ASSUME UNCHANGED vars PROVE Inv'
  BY <1>7 DEF Inv, vars, TypeOK, Exclusive, Inside
<1> QED
  BY <1>1, <1>2, <1>3, <1>4, <1>5, <1>6, <1>7 DEF Next, Versionz

\* Nothing is stored, and nobody has called.
LEMMA InitInv == Init => Inv
<1> SUFFICES ASSUME Init PROVE Inv
  OBVIOUS
<1> USE WrapperAssumption, WordAssumption
<1>1. entry \in Entry
  BY DEF Init, NoEntry, Entry, Values, Versionz
<1>2. call \in [Clients -> [op : {"none", "put", "get"},
                           at : {"none", "lock", "get", "put"}, version : Versionz]]
  BY DEF Init, Idle, Versionz
<1>3. failures \in 0..MaxFailures
  BY DEF Init
<1>4. TypeOK
  BY <1>1, <1>2, <1>3, Zenon DEF Init, TypeOK
<1> QED
  BY <1>4 DEF Init, Inv, Exclusive, Inside, Idle

\* The wrapper's state is well formed, and its mutex excludes, whatever the
\* delegate store answers.
THEOREM Invariance == Spec => []Inv
BY InitInv, NextInv, PTL DEF Spec

\* TypeOK of the run versioned_races, for every instance.
THEOREM TypeCorrectness == Spec => []TypeOK
<1>1. Inv => TypeOK
  BY DEF Inv
<1> QED
  BY <1>1, Invariance, PTL

--------------------------------------------------------------------------------

\* The version check of VersionedWrapper.Put: what it lets through is newer.
LEMMA NotStaleIsNewer ==
    ASSUME entry \in Entry, Below(entry.version), NEW version \in Versionz,
           ~Stale(entry, version)
    PROVE  Absent(entry) \/ version > entry.version
<1> USE WordAssumption
<1>1. entry.version \in Nat /\ entry.version + 1 \in 0..(Word - 1)
  BY DEF Entry, Versionz, Below
<1>2. (entry.version + 1) % Word = entry.version + 1
  BY <1>1
<1> QED
  BY <1>1, <1>2 DEF Stale, ExpectedVersion, Versionz

\* A reply of failure says nothing about the entry.
LEMMA LostKeeps ==
    ASSUME Won, NEW c \in Clients, Replied(c, FALSE), entry' = entry
    PROVE  Won'
BY DEF Won, Replied

\* ... and makes no winner.
LEMMA LostIsNoWinner ==
    ASSUME OneWinner, NEW c \in Clients, Replied(c, FALSE)
    PROVE  OneWinner'
BY DEF OneWinner, Replied

\* A call that returns leaves the others with versions that are offered.
LEMMA ReturnBounded ==
    ASSUME RiseInv, NEW c \in Clients, Return(c), Below(entry'.version)
    PROVE  Bounded'
<1>1. \A d \in Clients : call'[d] = call[d] \/ call'[d].version = 0
  BY DEF RiseInv, Inv, TypeOK, Return, Idle
<1> QED
  BY <1>1, WordAssumption DEF RiseInv, Bounded, Below

\* With a delegate whose Get tells the truth, every step keeps RiseInv.
LEMMA NextRise ==
    ASSUME Truthful PROVE RiseInv /\ [Next]_vars => RiseInv'
<1> SUFFICES ASSUME RiseInv, [Next]_vars PROVE RiseInv'
  OBVIOUS
<1> USE WrapperAssumption, WordAssumption
<1>i. Inv /\ TypeOK /\ Inv'
  BY NextInv DEF RiseInv, Inv
<1>1. ASSUME NEW c \in Clients, NEW op \in {"put", "get"},
             NEW version \in Offered \cup {0}, Start(c, op, version)
      PROVE  RiseInv'
  <2>1. Below(version)
    BY DEF Truthful, Below
  <2>2. Bounded'
    BY <1>1, <1>i, <2>1 DEF Start, RiseInv, Bounded, Below, TypeOK
  <2> QED
    BY <1>1, <1>i, <2>2 DEF Start, RiseInv, Checked, Won, OneWinner, TypeOK
<1>2. ASSUME NEW c \in Clients, Lock(c) PROVE RiseInv'
  BY <1>2, <1>i DEF Lock, RiseInv, Checked, Bounded, Below, Won, OneWinner, TypeOK
<1>3. ASSUME NEW c \in Clients, PutCheck(c) PROVE RiseInv'
  <2>0. \A r \in Read : r.curr = entry
    BY DEF Read, Truthful
  <2>1. \/ Return(c) /\ Replied(c, FALSE)
        \/ /\ ~Stale(entry, call[c].version)
           /\ call' = [call EXCEPT ![c].at = "put"]
           /\ UNCHANGED <<mutex, replies>>
    BY <1>3, <2>0 DEF PutCheck
  <2>2. entry' = entry /\ Inside(c)
    BY <1>3 DEF PutCheck, Inside
  <2>3. CASE Return(c) /\ Replied(c, FALSE)
    <3>1. Won' /\ OneWinner' /\ Bounded'
      BY <2>2, <2>3, LostKeeps, LostIsNoWinner, ReturnBounded DEF RiseInv, Bounded
    <3>2. Checked'
      BY <1>i, <2>2, <2>3, ReturnTyped DEF Checked
    <3> QED
      BY <1>i, <3>1, <3>2 DEF RiseInv
  <2>4. CASE /\ ~Stale(entry, call[c].version)
             /\ call' = [call EXCEPT ![c].at = "put"]
             /\ UNCHANGED <<mutex, replies>>
    <3>1. Absent(entry) \/ call[c].version > entry.version
      BY <1>i, <2>4, NotStaleIsNewer DEF RiseInv, Bounded, TypeOK
    <3>2. Checked'
      BY <1>i, <2>2, <2>4, <3>1 DEF RiseInv, Checked, Absent, TypeOK
    <3>3. Bounded' /\ Won' /\ OneWinner'
      BY <1>i, <2>2, <2>4 DEF RiseInv, Bounded, Below, Won, OneWinner, Absent, TypeOK
    <3> QED
      BY <1>i, <3>2, <3>3 DEF RiseInv
  <2> QED
    BY <2>1, <2>3, <2>4
<1>4. ASSUME NEW c \in Clients, PutWrite(c) PROVE RiseInv'
  <2>1. /\ Inside(c) /\ Return(c) /\ Replied(c, TRUE)
        /\ entry' = NewEntry(call[c].version, c)
        /\ Absent(entry) \/ call[c].version > entry.version
    BY <1>4 DEF PutWrite, Inside, RiseInv, Checked
  <2>2. ~Absent(entry)' /\ entry'.version = call[c].version /\ entry'.value = c
    BY <2>1 DEF NewEntry, Absent
  <2>3. Bounded'
    BY <2>1, <2>2, ReturnBounded DEF RiseInv, Bounded, Below
  <2>4. Checked'
    BY <1>i, <2>1, ReturnTyped DEF Checked
  <2>5. \A r \in replies : r.ok => r.version < call[c].version
    <3> SUFFICES ASSUME NEW r \in replies, r.ok PROVE r.version < call[c].version
      OBVIOUS
    <3>1. ~Absent(entry) /\ r.version <= entry.version
      BY DEF RiseInv, Won
    <3>2. r.version \in Nat /\ entry.version \in Nat /\ call[c].version \in Nat
      BY <1>i DEF TypeOK, Reply, Entry, Versionz
    <3> QED
      BY <2>1, <3>1, <3>2
  <2>6. call[c].version \in Nat /\ \A r \in replies : r.version \in Nat
    BY <1>i DEF TypeOK, Reply, Versionz
  <2> DEFINE new == [client |-> c, version |-> call[c].version, ok |-> TRUE]
  <2>7. replies' = replies \cup {new} /\ new.client = c /\ new.version = call[c].version
    BY <2>1 DEF Replied
  <2> HIDE DEF new
  <2>8. Won'
    BY <2>2, <2>5, <2>6, <2>7 DEF Won
  <2>9. OneWinner'
    BY <2>5, <2>6, <2>7 DEF RiseInv, OneWinner
  <2> QED
    BY <1>i, <2>3, <2>4, <2>8, <2>9 DEF RiseInv
<1>5. ASSUME NEW c \in Clients, PutFails(c) PROVE RiseInv'
  <2>1. Inside(c) /\ Return(c) /\ Replied(c, FALSE) /\ entry' = entry
    BY <1>5 DEF PutFails, Inside
  <2>2. Won' /\ OneWinner' /\ Bounded'
    BY <2>1, LostKeeps, LostIsNoWinner, ReturnBounded DEF RiseInv, Bounded
  <2> QED
    BY <1>i, <2>1, <2>2, ReturnTyped DEF RiseInv, Checked
<1>6. ASSUME NEW c \in Clients, Get(c) PROVE RiseInv'
  <2>1. Inside(c) /\ Return(c) /\ UNCHANGED <<entry, replies>>
    BY <1>6 DEF Get, Inside
  <2>2. Won' /\ OneWinner' /\ Bounded'
    BY <2>1, ReturnBounded DEF RiseInv, Bounded, Won, OneWinner, Absent
  <2> QED
    BY <1>i, <2>1, <2>2, ReturnTyped DEF RiseInv, Checked
<1>7. ASSUME UNCHANGED vars PROVE RiseInv'
  BY <1>7, <1>i DEF vars, RiseInv, Checked, Bounded, Below, Won, OneWinner, Absent
<1> QED
  BY <1>1, <1>2, <1>3, <1>4, <1>5, <1>6, <1>7 DEF Next

LEMMA InitRise == Init => RiseInv
BY InitInv, WordAssumption
DEF Init, RiseInv, Checked, Bounded, Below, Won, OneWinner, NoEntry, Idle

\* A delegate that answers Get with what it holds, and versions below the last
\* word: no two clients are told that they made the same version, however
\* their Puts interleave and whichever writes fail.
THEOREM OneWins ==
    ASSUME Truthful PROVE Spec => []OneWinner
<1>1. RiseInv /\ [Next]_vars => RiseInv'
  BY NextRise
<1>2. RiseInv => OneWinner
  BY DEF RiseInv
<1> QED
  BY <1>1, <1>2, InitRise, PTL DEF Spec

\* Under the same conditions no step replaces an entry by an older one, which
\* InvalidateCache relies on when it compares versions.
THEOREM VersionsOnlyRise ==
    ASSUME Truthful PROVE Spec => VersionsRise
<1> DEFINE Rises == entry' # entry => (Absent(entry) \/ entry'.version > entry.version)
<1>1. RiseInv /\ [Next]_vars => RiseInv'
  BY NextRise
<1>2. RiseInv /\ [Next]_vars => [Rises]_vars
  <2> SUFFICES ASSUME RiseInv, [Next]_vars, entry' # entry PROVE Rises
    OBVIOUS
  <2>1. PICK c \in Clients : PutWrite(c)
    BY DEF Next, vars, Start, Lock, PutCheck, PutFails, Get
  <2> QED
    BY <2>1 DEF PutWrite, NewEntry, RiseInv, Checked
<1> QED
  BY <1>1, <1>2, InitRise, PTL DEF Spec, VersionsRise
================================================================================
