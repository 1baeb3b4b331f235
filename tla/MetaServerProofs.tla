--------------------------- MODULE MetaServerProofs ---------------------------
(***************************************************************************)
(* Proofs about MetaServer for any connections, ids, buffers and versions. *)
(***************************************************************************)
EXTENDS MetaServer, Integers, FiniteSetTheorems, TLAPS

--------------------------------------------------------------------------------
(* What the sequence operators do to the set of a sequence's elements. *)

\* An element is what some index has.
LEMMA ToSetElement ==
    ASSUME NEW S, NEW s \in Seq(S), NEW x
    PROVE  x \in ToSet(s) <=> \E i \in 1..Len(s) : s[i] = x
BY DEF ToSet

\* The elements of a sequence over S are in S.
LEMMA ToSetTyped ==
    ASSUME NEW S, NEW s \in Seq(S)
    PROVE  ToSet(s) \subseteq S
BY DEF ToSet

\* The empty sequence has no elements.
LEMMA ToSetEmpty == ToSet(<<>>) = {}
BY DEF ToSet

\* Append adds its element.
LEMMA ToSetAppend ==
    ASSUME NEW S, NEW s \in Seq(S), NEW e \in S
    PROVE  ToSet(Append(s, e)) = ToSet(s) \cup {e}
<1>1. Append(s, e) \in Seq(S) /\ Len(Append(s, e)) = Len(s) + 1 /\ Len(s) \in Nat
  OBVIOUS
<1>2. \A i \in 1..Len(s) : Append(s, e)[i] = s[i]
  OBVIOUS
<1>3. Append(s, e)[Len(s) + 1] = e
  OBVIOUS
<1>4. ASSUME NEW x PROVE x \in ToSet(Append(s, e)) <=> x \in ToSet(s) \cup {e}
  <2>1. x \in ToSet(Append(s, e)) <=> \E i \in 1..(Len(s) + 1) : Append(s, e)[i] = x
    BY <1>1, ToSetElement
  <2>2. x \in ToSet(s) <=> \E i \in 1..Len(s) : s[i] = x
    BY ToSetElement
  <2> QED
    BY <1>1, <1>2, <1>3, <2>1, <2>2
<1> QED
  BY <1>4

\* The elements of a sequence are its head and those of its tail.
LEMMA ToSetTail ==
    ASSUME NEW S, NEW s \in Seq(S), s # <<>>
    PROVE  ToSet(s) = ToSet(Tail(s)) \cup {Head(s)}
<1> DEFINE t == Tail(s)
<1>1. t \in Seq(S) /\ Len(t) = Len(s) - 1 /\ Head(s) = s[1]
  OBVIOUS
<1>2. Len(s) \in Nat /\ Len(s) > 0
  OBVIOUS
<1>3. \A i \in 1..(Len(s) - 1) : t[i] = s[i + 1]
  OBVIOUS
<1> HIDE DEF t
<1>4. ASSUME NEW x PROVE x \in ToSet(s) <=> x \in ToSet(t) \cup {Head(s)}
  <2>1. x \in ToSet(t) <=> \E i \in 1..Len(t) : t[i] = x
    BY <1>1, ToSetElement
  <2>2. x \in ToSet(s) <=> \E i \in 1..Len(s) : s[i] = x
    BY ToSetElement
  <2>3. ASSUME NEW i \in 1..Len(s)
        PROVE  i = 1 \/ (i - 1 \in 1..Len(t) /\ s[i] = t[i - 1])
    <3> SUFFICES ASSUME i # 1 PROVE i - 1 \in 1..Len(t) /\ s[i] = t[i - 1]
      OBVIOUS
    <3>1. i - 1 \in 1..(Len(s) - 1) /\ (i - 1) + 1 = i
      BY <1>2
    <3> QED
      BY <1>1, <1>3, <3>1
  <2>4. ASSUME NEW i \in 1..Len(t)
        PROVE  i + 1 \in 1..Len(s) /\ s[i + 1] = t[i]
    BY <1>1, <1>2, <1>3
  <2> QED
    BY <1>1, <1>2, <2>1, <2>2, <2>3, <2>4
<1> QED
  BY <1>4 DEF t

--------------------------------------------------------------------------------

Handled(c) == handler[c].at \in {"reading", "answering", "removing"}

\* A connection is dialled, accepted, given an id and registered, in this order.
Phases ==
    /\ serve.at \in {"wrap", "append"} =>
          /\ serve.conn \in Conns
          /\ handler[serve.conn].at = "none"
          /\ socket[serve.conn] \in {"open", "closed"}
    /\ serve.at = "wrap" => id[serve.conn] = 0
    /\ serve.at = "append" => id[serve.conn] # 0
    /\ \A c \in Conns : socket[c] \in {"none", "backlog"} =>
          id[c] = 0 /\ handler[c].at = "none"
    /\ \A c \in Conns : handler[c].at # "none" => id[c] # 0
    /\ \A c \in ToSet(conns) : handler[c].at # "none"

\* What handleInput is about to send a connection that gave no password.
Withheld ==
    AuthHash => \A c \in Conns : ~authorized[c] => handler[c].output.kind # "put"

Sent(c) == \/ fan.version \in seen[c]
           \/ ForBroadcast(fan.version) \in ToSet(toClient[c])

\* A broadcast under way has served everyone due that it has passed.
Served ==
    fan.active => \A c \in fan.due :
        /\ handler[c].at # "none"
        /\ ~Locked(c)
        /\ \/ c \in ToSet(fan.left)
           \/ (Attached(c) /\ id[c] # fan.excluded) => Sent(c)

Inv == TypeOK /\ Phases /\ AuthGate /\ Withheld /\ Served

\* Connections that have an id, and how many.
Used == {c \in Conns : id[c] # 0}
Count == Cardinality(Used)

\* The first MaxID ids are 1, 2, 3 and so on, and no two connections share one.
Numbered ==
    /\ \A c \in Used : id[c] <= Count
    /\ \A c, d \in Used : id[c] = id[d] => c = d
    /\ \A i \in 1..Len(ids.queue) : Count + i <= MaxID => ids.queue[i] = Count + i
    /\ Count + Len(ids.queue) + 1 <= MaxID => ids.next = Count + Len(ids.queue) + 1

\* The list of connections is exact.
Listed == \A c \in Conns : c \in ToSet(conns) <=> Handled(c)

FewConns == IsFiniteSet(Conns) /\ Cardinality(Conns) <= MaxID
ListInv == Inv /\ Numbered /\ Listed

--------------------------------------------------------------------------------
(* Types and phases. *)

\* The records that the actions put into variables have their types.
LEMMA RecordsTyped ==
    /\ ErrorAnswer \in Answer /\ AuthAnswer \in Answer
    /\ \A v \in Versionz : PutAnswer(v) \in Answer /\ ForBroadcast(v) \in Answer
<1> USE ServerAssumption
<1>1. 0 \in Versionz
  BY DEF Versionz
<1> QED
  BY <1>1 DEF ErrorAnswer, AuthAnswer, PutAnswer, ForBroadcast, Answer

\* A write to a connection never overfills the buffers between its ends.
LEMMA EncodeTyped ==
    ASSUME TypeOK, NEW c \in Conns, NEW m \in Answer, Encode(c, m)
    PROVE  /\ toClient' \in [Conns -> Seq(Answer)]
           /\ \A d \in Conns : Len(toClient'[d]) <= WriteBuffer
<1> USE ServerAssumption
<1>1. CASE UNCHANGED toClient
  BY <1>1 DEF TypeOK
<1>2. CASE /\ Len(toClient[c]) < WriteBuffer
           /\ toClient' = [toClient EXCEPT ![c] = Append(@, m)]
  <2>1. toClient[c] \in Seq(Answer) /\ Len(toClient[c]) \in Nat
    BY DEF TypeOK
  <2>2. /\ Append(toClient[c], m) \in Seq(Answer)
        /\ Len(Append(toClient[c], m)) <= WriteBuffer
    BY <1>2, <2>1
  <2> QED
    BY <1>2, <2>2 DEF TypeOK
<1> QED
  BY <1>1, <1>2 DEF Encode

\* The answer to a request is one of the answers.
LEMMA OutputTyped ==
    ASSUME TypeOK, NEW r \in Request
    PROVE  /\ Refusal(r) \in Answer
           /\ ApplyMessage(r) \in Answer
<1>1. store.version \in Versionz /\ r.version \in Versionz
  BY DEF TypeOK, Request
<1>2. Refusal(r) \in Answer
  BY RecordsTyped DEF Refusal
<1>3. ApplyMessage(r) \in Answer
  BY <1>1, RecordsTyped DEF ApplyMessage
<1> QED
  BY <1>2, <1>3

\* Requests are what the wire can carry.
LEMMA RequestsTyped == ASSUME NEW r \in Requests PROVE r \in Request
<1> USE ServerAssumption
<1>1. r \in [kind : Kinds, version : Versionz]
  BY DEF Requests, Versionz
<1> QED
  BY <1>1 DEF Request

\* Ids go round.
LEMMA NextIDTyped == ASSUME NEW n \in IDs PROVE NextID(n) \in IDs
<1> USE ServerAssumption
<1>1. n \in Nat /\ MaxID \in Nat /\ MaxID > 0
  BY DEF IDs
<1>2. n % MaxID \in 0..(MaxID - 1)
  BY <1>1
<1> QED
  BY <1>1, <1>2 DEF NextID, IDs

\* The list that removeConn makes is made of connections of the old one: those
\* with another id.
LEMMA NewConnsKept ==
    ASSUME TypeOK, NEW n, NEW new \in NewConns(n)
    PROVE  /\ new \in Seq(Conns)
           /\ ToSet(new) = {c \in ToSet(conns) : id[c] # n}
<1> DEFINE others == {i \in DOMAIN conns : id[conns[i]] # n}
<1>0. PICK k \in 0..Len(conns) : \E p \in [1..k -> others] :
        /\ others = {p[i] : i \in DOMAIN p}
        /\ new = [i \in DOMAIN p |-> conns[p[i]]]
  BY DEF NewConns
<1>1. PICK p \in [1..k -> others] :
        /\ others = {p[i] : i \in DOMAIN p}
        /\ new = [i \in DOMAIN p |-> conns[p[i]]]
  BY <1>0
<1>2. conns \in Seq(Conns) /\ DOMAIN conns = 1..Len(conns) /\ Len(conns) \in Nat
  BY DEF TypeOK
<1>3. new = [i \in 1..k |-> conns[p[i]]] /\ \A i \in 1..k : conns[p[i]] \in Conns
  BY <1>1, <1>2
<1>4. new \in Seq(Conns) /\ Len(new) = k
  BY <1>1, <1>2, <1>3
<1>5. ASSUME NEW c PROVE c \in ToSet(new) <=> c \in ToSet(conns) /\ id[c] # n
  <2>1. c \in ToSet(new) <=> \E i \in 1..k : new[i] = c
    BY <1>4, ToSetElement
  <2>2. c \in ToSet(conns) <=> \E i \in 1..Len(conns) : conns[i] = c
    BY <1>2, ToSetElement
  <2>3. \A i \in 1..k : /\ p[i] \in 1..Len(conns) /\ id[conns[p[i]]] # n
                        /\ new[i] = conns[p[i]]
    BY <1>1, <1>2, <1>3
  <2>4. \A j \in 1..Len(conns) : id[conns[j]] # n => \E i \in 1..k : p[i] = j
    BY <1>1, <1>2
  <2>5. ASSUME c \in ToSet(new) PROVE c \in ToSet(conns) /\ id[c] # n
    <3>1. PICK i \in 1..k : new[i] = c
      BY <2>1, <2>5, Zenon
    <3> QED
      BY <2>2, <2>3, <3>1, Zenon
  <2>6. ASSUME c \in ToSet(conns), id[c] # n PROVE c \in ToSet(new)
    <3>1. PICK j \in 1..Len(conns) : conns[j] = c
      BY <2>2, <2>6, Zenon
    <3>2. PICK i \in 1..k : p[i] = j
      BY <2>4, <2>6, <3>1, Zenon
    <3> QED
      BY <2>1, <2>3, <3>1, <3>2, Zenon
  <2> QED
    BY <2>5, <2>6, Zenon
<1> QED
  BY <1>4, <1>5

\* The messages that wait for a client after it has read one.
LEMMA ReceiveTyped ==
    ASSUME TypeOK, NEW c \in Conns, Receive(c)
    PROVE  /\ toClient' \in [Conns -> Seq(Answer)]
           /\ \A d \in Conns : Len(toClient'[d]) <= WriteBuffer
           /\ seen' \in [Conns -> SUBSET Versionz]
<1> USE ServerAssumption
<1>1. toClient[c] \in Seq(Answer) /\ toClient[c] # <<>>
  BY DEF TypeOK, Receive
<1>2. /\ Head(toClient[c]) \in Answer
      /\ Tail(toClient[c]) \in Seq(Answer)
      /\ Len(Tail(toClient[c])) <= WriteBuffer
  BY <1>1 DEF TypeOK
<1>3. Head(toClient[c]).version \in Versionz
  BY <1>2 DEF Answer
<1> QED
  BY <1>2, <1>3 DEF TypeOK, Receive

\* One round of handleInput.
LEMMA HandleInputTyped ==
    ASSUME TypeOK, NEW c \in Conns, NEW r \in toServer[c], HandleInput(c, r)
    PROVE  /\ store' \in [present : BOOLEAN, version : Versionz, value : {0}]
           /\ toServer' \in [Conns -> SUBSET Request]
           /\ authorized' \in [Conns -> BOOLEAN]
           /\ handler' \in [Conns -> Handler]
<1> DEFINE output == IF Locked(c) THEN Refusal(r) ELSE ApplyMessage(r)
           accepted == r.kind = "put" /\ output.kind = "put"
<1>1. r \in Request
  BY DEF TypeOK
<1>2. output \in Answer
  BY <1>1, OutputTyped
<1>3. /\ toServer' = [toServer EXCEPT ![c] = {}]
      /\ authorized' = [authorized EXCEPT ![c] = @ \/ output.kind = "auth"]
      /\ store' = IF accepted THEN NewEntry(r.version, 0) ELSE store
      /\ handler' = [handler EXCEPT ![c] =
                [at |-> "answering", output |-> output, accepted |-> accepted]]
  BY DEF HandleInput
<1>4. accepted \in BOOLEAN /\ (authorized[c] \/ output.kind = "auth") \in BOOLEAN
  OBVIOUS
<1> HIDE DEF output, accepted
<1>5. NewEntry(r.version, 0) \in [present : BOOLEAN, version : Versionz, value : {0}]
  BY <1>1 DEF NewEntry, Request
<1>6. store' \in [present : BOOLEAN, version : Versionz, value : {0}]
  BY <1>3, <1>5 DEF TypeOK
<1>7. toServer' \in [Conns -> SUBSET Request]
  BY <1>3 DEF TypeOK
<1>8. authorized' \in [Conns -> BOOLEAN]
  BY <1>3, <1>4 DEF TypeOK
<1>9. handler' \in [Conns -> Handler]
  BY <1>2, <1>3, <1>4 DEF TypeOK, Handler
<1> QED
  BY <1>6, <1>7, <1>8, <1>9

\* Only where handleInput is changes.
LEMMA HandlerMoved ==
    ASSUME NEW h \in Handler, NEW at \in {"none", "reading", "answering", "removing", "done"}
    PROVE  [h EXCEPT !.at = at] \in Handler
BY DEF Handler

LEMMA TypeStep == ASSUME Inv, [Next]_vars PROVE TypeOK'
<1> USE ServerAssumption DEF connVars, acceptVars, fanVars
<1>t. TypeOK /\ Phases
  BY DEF Inv
<1>1. ASSUME NEW c \in Conns, Dial(c) PROVE TypeOK'
  BY <1>1, <1>t DEF Dial, TypeOK
<1>2. ASSUME NEW c \in Conns, NEW r \in Requests, Send(c, r) PROVE TypeOK'
  <2>1. r \in Request
    BY RequestsTyped
  <2> QED
    BY <1>2, <1>t, <2>1 DEF Send, TypeOK
<1>3. ASSUME NEW c \in Conns, Receive(c) PROVE TypeOK'
  BY <1>3, <1>t, ReceiveTyped DEF Receive, TypeOK
<1>4. ASSUME NEW c \in Conns, CloseClient(c) PROVE TypeOK'
  BY <1>4, <1>t DEF CloseClient, Closed, TypeOK
<1>5. ASSUME NEW c \in Conns, Accept(c) PROVE TypeOK'
  BY <1>5, <1>t DEF Accept, TypeOK
<1>6. ASSUME NEW c \in Conns, NEW r \in toServer[c], HandleInput(c, r) PROVE TypeOK'
  BY <1>6, <1>t, HandleInputTyped DEF HandleInput, TypeOK
<1>7. ASSUME NEW c \in Conns, SendAnswer(c) PROVE TypeOK'
  <2>0. handler[c].output \in Answer
    BY <1>t DEF TypeOK, Handler
  <2>1. /\ toClient' \in [Conns -> Seq(Answer)]
        /\ \A d \in Conns : Len(toClient'[d]) <= WriteBuffer
    BY <1>7, <1>t, <2>0, EncodeTyped DEF SendAnswer
  <2>2. [excluded |-> id[c], version |-> handler[c].output.version] \in Broadcast
    <3>1. handler[c].output.version \in Versionz
      BY <2>0 DEF Answer
    <3>2. id[c] \in IDs
      BY <1>7, <1>t DEF SendAnswer, TypeOK, Phases
    <3> QED
      BY <3>1, <3>2 DEF Broadcast
  <2>3. Reading \in Handler
    BY RecordsTyped DEF Reading, NoHandler, Handler
  <2> QED
    BY <1>7, <1>t, <2>1, <2>2, <2>3 DEF SendAnswer, TypeOK
<1>8. ASSUME NEW c \in Conns, Detach(c) PROVE TypeOK'
  <2>1. handler' \in [Conns -> Handler]
    BY <1>8, <1>t, HandlerMoved DEF Detach, TypeOK
  <2> QED
    BY <1>8, <1>t, <2>1 DEF Detach, TypeOK
<1>9. ASSUME NEW c \in Conns, RemoveConn(c) PROVE TypeOK'
  <2>1. conns' \in Seq(Conns)
    BY <1>9, <1>t, NewConnsKept DEF RemoveConn
  <2>2. handler' \in [Conns -> Handler]
    BY <1>9, <1>t, HandlerMoved DEF RemoveConn, TypeOK
  <2> QED
    BY <1>9, <1>t, <2>1, <2>2 DEF RemoveConn, TypeOK
<1>10. CASE Generate
  <2>1. Append(ids.queue, ids.next) \in Seq(IDs) /\ NextID(ids.next) \in IDs
    BY <1>t, NextIDTyped DEF TypeOK
  <2>2. Len(Append(ids.queue, ids.next)) <= IDBuffer
    BY <1>10, <1>t DEF Generate, TypeOK
  <2> QED
    BY <1>10, <1>t, <2>1, <2>2 DEF Generate, TypeOK
<1>11. CASE WrapConn
  <2>1. /\ Head(ids.queue) \in IDs /\ Tail(ids.queue) \in Seq(IDs)
        /\ Len(Tail(ids.queue)) <= IDBuffer
    BY <1>11, <1>t DEF WrapConn, TypeOK
  <2> QED
    BY <1>11, <1>t, <2>1 DEF WrapConn, TypeOK, Phases
<1>12. CASE Register
  <2>1. Reading \in Handler
    BY RecordsTyped DEF Reading, NoHandler, Handler
  <2>2. Append(conns, serve.conn) \in Seq(Conns)
    BY <1>12, <1>t DEF Register, TypeOK, Phases
  <2> QED
    BY <1>12, <1>t, <2>1, <2>2 DEF Register, TypeOK
<1>13. CASE ServeReturn
  BY <1>13, <1>t DEF ServeReturn, TypeOK
<1>14. ASSUME NEW b \in broadcasts, BroadcastLock(b) PROVE TypeOK'
  <2>1. b.excluded \in IDs /\ b.version \in Versionz
    BY <1>t DEF TypeOK, Broadcast
  <2>2. {c \in ToSet(conns) : ~Locked(c)} \in SUBSET Conns
    BY <1>t, ToSetTyped DEF TypeOK
  <2> QED
    BY <1>14, <1>t, <2>1, <2>2 DEF BroadcastLock, TypeOK
<1>15. CASE BroadcastOne
  <2>1. Head(fan.left) \in Conns /\ Tail(fan.left) \in Seq(Conns)
    BY <1>15, <1>t DEF BroadcastOne, TypeOK
  <2>2. ForBroadcast(fan.version) \in Answer
    BY <1>t, RecordsTyped DEF TypeOK
  <2>3. /\ toClient' \in [Conns -> Seq(Answer)]
        /\ \A d \in Conns : Len(toClient'[d]) <= WriteBuffer
    <3>1. CASE UNCHANGED toClient
      BY <1>t, <3>1 DEF TypeOK
    <3>2. CASE Encode(Head(fan.left), ForBroadcast(fan.version))
      BY <1>t, <2>1, <2>2, <3>2, EncodeTyped
    <3> QED
      BY <1>15, <3>1, <3>2 DEF BroadcastOne
  <2> QED
    BY <1>15, <1>t, <2>1, <2>3 DEF BroadcastOne, TypeOK
<1>16. CASE BroadcastUnlock
  <2>1. NoFan \in [active : BOOLEAN, excluded : IDs, version : Versionz,
                  left : Seq(Conns), due : SUBSET Conns]
    BY DEF NoFan, IDs, Versionz
  <2> QED
    BY <1>16, <1>t, <2>1 DEF BroadcastUnlock, TypeOK
<1>17. CASE ShutdownStart
  BY <1>17, <1>t DEF ShutdownStart, TypeOK
<1>18. CASE ShutdownClose
  BY <1>18, <1>t DEF ShutdownClose, TypeOK
<1>19. CASE DeadlockTimeout
  BY <1>19, <1>t DEF DeadlockTimeout, TypeOK
<1>20. CASE UNCHANGED vars
  BY <1>20, <1>t DEF vars, TypeOK
<1> QED
  BY <1>1, <1>2, <1>3, <1>4, <1>5, <1>6, <1>7, <1>8, <1>9, <1>10, <1>11, <1>12,
     <1>13, <1>14, <1>15, <1>16, <1>17, <1>18, <1>19, <1>20 DEF Next

\* A step that takes no connection from one phase to the next.
LEMMA SamePhase ==
    ASSUME Phases, UNCHANGED <<serve, id, conns>>,
           \A c \in Conns : handler'[c].at = "none" <=> handler[c].at = "none",
           \A c \in Conns : socket'[c] = socket[c] \/
               (socket'[c] = "closed" /\ socket[c] # "none"),
           \A c \in ToSet(conns) : c \in Conns
    PROVE  Phases'
BY DEF Phases

LEMMA PhasesStep == ASSUME Inv, [Next]_vars PROVE Phases'
<1> USE ServerAssumption DEF connVars, acceptVars, fanVars
<1>t. TypeOK /\ Phases /\ \A c \in ToSet(conns) : c \in Conns
  BY ToSetTyped DEF Inv, TypeOK
<1>1. ASSUME NEW c \in Conns, Dial(c) PROVE Phases'
  BY <1>1, <1>t DEF Dial, TypeOK, Phases
<1>2. ASSUME NEW c \in Conns, NEW r \in Requests, Send(c, r) PROVE Phases'
  BY <1>2, <1>t, SamePhase DEF Send
<1>3. ASSUME NEW c \in Conns, Receive(c) PROVE Phases'
  BY <1>3, <1>t, SamePhase DEF Receive
<1>4. ASSUME NEW c \in Conns, CloseClient(c) PROVE Phases'
  <2>1. \A d \in Conns : socket'[d] = socket[d] \/
               (socket'[d] = "closed" /\ socket[d] # "none")
    BY <1>4, <1>t DEF CloseClient, Closed, TypeOK
  <2> QED
    BY <1>4, <1>t, <2>1, SamePhase DEF CloseClient
<1>5. ASSUME NEW c \in Conns, Accept(c) PROVE Phases'
  BY <1>5, <1>t DEF Accept, TypeOK, Phases
<1>6. ASSUME NEW c \in Conns, NEW r \in toServer[c], HandleInput(c, r) PROVE Phases'
  <2>1. \A d \in Conns : handler'[d].at = "none" <=> handler[d].at = "none"
    BY <1>6, <1>t DEF HandleInput, TypeOK
  <2> QED
    BY <1>6, <1>t, <2>1, SamePhase DEF HandleInput
<1>7. ASSUME NEW c \in Conns, SendAnswer(c) PROVE Phases'
  <2>1. \A d \in Conns : handler'[d].at = "none" <=> handler[d].at = "none"
    BY <1>7, <1>t DEF SendAnswer, TypeOK, Reading
  <2> QED
    BY <1>7, <1>t, <2>1, SamePhase DEF SendAnswer
<1>8. ASSUME NEW c \in Conns, Detach(c) PROVE Phases'
  <2>1. \A d \in Conns : handler'[d].at = "none" <=> handler[d].at = "none"
    BY <1>8, <1>t DEF Detach, TypeOK
  <2> QED
    BY <1>8, <1>t, <2>1, SamePhase DEF Detach
<1>9. ASSUME NEW c \in Conns, RemoveConn(c) PROVE Phases'
  <2>1. \A d \in Conns : handler'[d].at = "none" <=> handler[d].at = "none"
    BY <1>9, <1>t DEF RemoveConn, TypeOK
  <2>2. ToSet(conns)' \subseteq ToSet(conns)
    BY <1>9, <1>t, NewConnsKept DEF RemoveConn
  <2> QED
    BY <1>9, <1>t, <2>1, <2>2 DEF RemoveConn, Phases
<1>10. CASE Generate
  BY <1>10, <1>t, SamePhase DEF Generate
<1>11. CASE WrapConn
  <2>1. Head(ids.queue) # 0
    BY <1>11, <1>t DEF WrapConn, TypeOK, IDs
  <2> QED
    BY <1>11, <1>t, <2>1 DEF WrapConn, TypeOK, Phases
<1>12. CASE Register
  <2>1. ToSet(conns)' = ToSet(conns) \cup {serve.conn}
    BY <1>12, <1>t, ToSetAppend DEF Register, TypeOK, Phases
  <2>2. handler' = [handler EXCEPT ![serve.conn] = Reading] /\ Reading.at = "reading"
    BY <1>12 DEF Register, Reading, NoHandler
  <2>3. UNCHANGED <<socket, id>> /\ serve'.at = "accept" /\ serve.at = "append"
    BY <1>12 DEF Register
  <2> QED
    BY <1>t, <2>1, <2>2, <2>3 DEF TypeOK, Phases
<1>13. CASE ServeReturn
  BY <1>13, <1>t DEF ServeReturn, TypeOK, Phases
<1>14. ASSUME NEW b \in broadcasts, BroadcastLock(b) PROVE Phases'
  BY <1>14, <1>t, SamePhase DEF BroadcastLock
<1>15. CASE BroadcastOne
  BY <1>15, <1>t, SamePhase DEF BroadcastOne
<1>16. CASE BroadcastUnlock
  BY <1>16, <1>t, SamePhase DEF BroadcastUnlock
<1>17. CASE ShutdownStart
  <2>1. \A d \in Conns : socket'[d] = socket[d] \/
               (socket'[d] = "closed" /\ socket[d] # "none")
    BY <1>17, <1>t DEF ShutdownStart, TypeOK
  <2> QED
    BY <1>17, <1>t, <2>1, SamePhase DEF ShutdownStart
<1>18. CASE ShutdownClose
  <2>1. \A d \in Conns : socket'[d] = socket[d] \/
               (socket'[d] = "closed" /\ socket[d] # "none")
    BY <1>18, <1>t DEF ShutdownClose, TypeOK, Phases
  <2> QED
    BY <1>18, <1>t, <2>1, SamePhase DEF ShutdownClose
<1>19. CASE DeadlockTimeout
  BY <1>19, <1>t DEF DeadlockTimeout, TypeOK, Phases
<1>20. CASE UNCHANGED vars
  BY <1>20, <1>t, SamePhase DEF vars
<1> QED
  BY <1>1, <1>2, <1>3, <1>4, <1>5, <1>6, <1>7, <1>8, <1>9, <1>10, <1>11, <1>12,
     <1>13, <1>14, <1>15, <1>16, <1>17, <1>18, <1>19, <1>20 DEF Next

--------------------------------------------------------------------------------
(* Authorization. *)

\* No value waits for a client that is not authorized.
Gate(c) ==
    /\ \A i \in 1..Len(toClient[c]) : toClient[c][i].kind # "put"
    /\ seen[c] = {}
    /\ ~handler[c].accepted
    /\ handler[c].output.kind # "put"

LEMMA GateIff ==
    AuthGate /\ Withheld <=> (AuthHash => \A c \in Conns : ~authorized[c] => Gate(c))
BY DEF AuthGate, Withheld, Gate

\* A connection that a step leaves alone, or empties.
LEMMA SameGate ==
    ASSUME NEW c \in Conns, Gate(c),
           toClient'[c] = toClient[c] \/ toClient'[c] = <<>>, seen'[c] = seen[c],
           handler'[c].accepted = handler[c].accepted,
           handler'[c].output = handler[c].output
    PROVE  Gate(c)'
BY DEF Gate

LEMMA AuthStep == ASSUME Inv, [Next]_vars PROVE AuthGate' /\ Withheld'
<1> USE DEF connVars, acceptVars, fanVars
<1>t. TypeOK
  BY DEF Inv
<1> SUFFICES ASSUME AuthHash, NEW d \in Conns, ~authorized'[d] PROVE Gate(d)'
  BY DEF AuthGate, Withheld, Gate
<1>g. ~authorized[d] => Gate(d)
  BY GateIff DEF Inv
<1>1. ASSUME NEW c \in Conns, Dial(c) PROVE Gate(d)'
  BY <1>1, <1>g, SameGate DEF Dial
<1>2. ASSUME NEW c \in Conns, NEW r \in Requests, Send(c, r) PROVE Gate(d)'
  BY <1>2, <1>g, SameGate DEF Send
<1>3. ASSUME NEW c \in Conns, Receive(c) PROVE Gate(d)'
  <2>1. Gate(d) /\ handler' = handler
    BY <1>3, <1>g DEF Receive
  <2>2. CASE c # d
    BY <1>3, <1>t, <2>1, <2>2, SameGate DEF Receive, TypeOK
  <2>3. CASE c = d
    <3>1. toClient[d] \in Seq(Answer) /\ toClient[d] # <<>> /\ Head(toClient[d]) \in Answer
      BY <1>3, <1>t, <2>3 DEF Receive, TypeOK
    <3>2. Head(toClient[d]) = toClient[d][1] /\ 1 \in 1..Len(toClient[d])
      BY <3>1
    <3>3. ~Head(toClient[d]).broadcast
      BY <2>1, <3>1, <3>2 DEF Gate, Answer
    <3>4. seen'[d] = seen[d] /\ toClient'[d] = Tail(toClient[d])
      BY <1>3, <1>t, <2>3, <3>3 DEF Receive, TypeOK
    <3>5. \A i \in 1..Len(Tail(toClient[d])) :
              i + 1 \in 1..Len(toClient[d]) /\ Tail(toClient[d])[i] = toClient[d][i + 1]
      BY <3>1
    <3> QED
      BY <2>1, <3>4, <3>5 DEF Gate
  <2> QED
    BY <2>2, <2>3
<1>4. ASSUME NEW c \in Conns, CloseClient(c) PROVE Gate(d)'
  BY <1>4, <1>g, <1>t, SameGate DEF CloseClient, Closed, TypeOK
<1>5. ASSUME NEW c \in Conns, Accept(c) PROVE Gate(d)'
  BY <1>5, <1>g, SameGate DEF Accept
<1>6. ASSUME NEW c \in Conns, NEW r \in toServer[c], HandleInput(c, r) PROVE Gate(d)'
  <2>1. CASE c # d
    BY <1>6, <1>g, <1>t, <2>1, SameGate DEF HandleInput, TypeOK
  <2>2. CASE c = d
    <3>1. ~authorized[d] /\ Locked(d) /\ Refusal(r).kind # "auth"
      BY <1>6, <1>t, <2>2 DEF HandleInput, TypeOK, Locked
    <3>2. Refusal(r).kind = "error"
      BY <3>1 DEF Refusal, AuthAnswer, ErrorAnswer
    <3>3. handler'[d].output = Refusal(r) /\ ~handler'[d].accepted
      BY <1>6, <1>t, <2>2, <3>1, <3>2 DEF HandleInput, TypeOK
    <3> QED
      BY <1>6, <1>g, <3>1, <3>2, <3>3 DEF HandleInput, Gate
  <2> QED
    BY <2>1, <2>2
<1>7. ASSUME NEW c \in Conns, SendAnswer(c) PROVE Gate(d)'
  <2>0. Gate(d) /\ seen' = seen
    BY <1>7, <1>g DEF SendAnswer
  <2>1. CASE c # d
    BY <1>7, <1>t, <2>0, <2>1, SameGate DEF SendAnswer, Encode, TypeOK
  <2>2. CASE c = d
    <3>1. handler'[d].output.kind # "put" /\ ~handler'[d].accepted
      BY <1>7, <1>t, <2>2 DEF SendAnswer, TypeOK, Reading, NoHandler, ErrorAnswer
    <3>2. \/ toClient'[d] = toClient[d]
          \/ toClient'[d] = Append(toClient[d], handler[d].output)
      BY <1>7, <1>t, <2>2 DEF SendAnswer, Encode, TypeOK
    <3>3. toClient[d] \in Seq(Answer) /\ handler[d].output \in Answer
      BY <1>t DEF TypeOK, Handler
    <3>4. \A i \in 1..Len(toClient'[d]) : toClient'[d][i].kind # "put"
      BY <2>0, <3>2, <3>3 DEF Gate
    <3> QED
      BY <2>0, <3>1, <3>4 DEF Gate
  <2> QED
    BY <2>1, <2>2
<1>8. ASSUME NEW c \in Conns, Detach(c) PROVE Gate(d)'
  BY <1>8, <1>g, <1>t, SameGate DEF Detach, TypeOK, Handler
<1>9. ASSUME NEW c \in Conns, RemoveConn(c) PROVE Gate(d)'
  BY <1>9, <1>g, <1>t, SameGate DEF RemoveConn, TypeOK, Handler
<1>10. CASE Generate
  BY <1>10, <1>g, SameGate DEF Generate
<1>11. CASE WrapConn
  BY <1>11, <1>g, SameGate DEF WrapConn
<1>12. CASE Register
  <2>1. handler'[d] = handler[d] \/ handler'[d] = Reading
    BY <1>12, <1>t DEF Register, TypeOK
  <2>2. ~Reading.accepted /\ Reading.output.kind # "put"
    BY DEF Reading, NoHandler, ErrorAnswer
  <2> QED
    BY <1>12, <1>g, <2>1, <2>2 DEF Register, Gate
<1>13. CASE ServeReturn
  BY <1>13, <1>g, SameGate DEF ServeReturn
<1>14. ASSUME NEW b \in broadcasts, BroadcastLock(b) PROVE Gate(d)'
  BY <1>14, <1>g, SameGate DEF BroadcastLock
<1>15. CASE BroadcastOne
  <2>1. Locked(d) /\ Gate(d)
    BY <1>15, <1>g DEF BroadcastOne, Locked
  <2>2. Head(fan.left) \in Conns
    BY <1>15, <1>t DEF BroadcastOne, TypeOK
  <2>3. toClient'[d] = toClient[d]
    BY <1>15, <1>t, <2>1, <2>2 DEF BroadcastOne, Skipped, Encode, TypeOK
  <2> QED
    BY <1>15, <2>1, <2>3, SameGate DEF BroadcastOne
<1>16. CASE BroadcastUnlock
  BY <1>16, <1>g, SameGate DEF BroadcastUnlock
<1>17. CASE ShutdownStart
  BY <1>17, <1>g, SameGate DEF ShutdownStart
<1>18. CASE ShutdownClose
  BY <1>18, <1>g, <1>t, SameGate DEF ShutdownClose, TypeOK
<1>19. CASE DeadlockTimeout
  BY <1>19, <1>g, SameGate DEF DeadlockTimeout
<1>20. CASE UNCHANGED vars
  BY <1>20, <1>g, SameGate DEF vars
<1> QED
  BY <1>1, <1>2, <1>3, <1>4, <1>5, <1>6, <1>7, <1>8, <1>9, <1>10, <1>11, <1>12,
     <1>13, <1>14, <1>15, <1>16, <1>17, <1>18, <1>19, <1>20 DEF Next

--------------------------------------------------------------------------------
(* The fan-out. *)

\* What Served says of one connection.
DueOK(c) ==
    /\ handler[c].at # "none"
    /\ ~Locked(c)
    /\ \/ c \in ToSet(fan.left)
       \/ (Attached(c) /\ id[c] # fan.excluded) => Sent(c)

\* A connection that stays attached keeps what it was sent.
LEMMA SameDue ==
    ASSUME NEW c \in Conns, DueOK(c), fan' = fan, id'[c] = id[c],
           handler'[c].at # "none", ~Locked(c)',
           Attached(c)' => Attached(c) /\ (Sent(c) => Sent(c)')
    PROVE  DueOK(c)'
BY DEF DueOK

\* An append to what waits for a client loses nothing that waits.
LEMMA EncodeKeeps ==
    ASSUME TypeOK, NEW c \in Conns, NEW d \in Conns, NEW m \in Answer, Encode(c, m)
    PROVE  /\ ToSet(toClient[d]) \subseteq ToSet(toClient'[d])
           /\ c = d => socket[c] = "closed" \/ m \in ToSet(toClient'[d])
<1>1. toClient[c] \in Seq(Answer)
  BY DEF TypeOK
<1>2. ToSet(Append(toClient[c], m)) = ToSet(toClient[c]) \cup {m}
  BY <1>1, ToSetAppend
<1> QED
  BY <1>2 DEF Encode, TypeOK

LEMMA ServedStep == ASSUME Inv, [Next]_vars PROVE Served'
<1> USE DEF connVars, acceptVars, fanVars
<1>t. TypeOK /\ Phases
  BY DEF Inv
<1> SUFFICES ASSUME fan'.active, NEW d \in fan'.due PROVE DueOK(d)'
  BY DEF Served, DueOK
<1>d. (fan.active /\ d \in fan.due) => d \in Conns /\ DueOK(d) /\ ~Locked(d)
  BY <1>t DEF Inv, Served, DueOK, TypeOK
<1>1. ASSUME NEW c \in Conns, Dial(c) PROVE DueOK(d)'
  <2>1. Attached(d)' => Attached(d)
    BY <1>1, <1>d, <1>t DEF Dial, Attached, Locked, TypeOK
  <2> QED
    BY <1>1, <1>d, <2>1, SameDue DEF Dial, DueOK, Locked, Sent
<1>2. ASSUME NEW c \in Conns, NEW r \in Requests, Send(c, r) PROVE DueOK(d)'
  BY <1>2, <1>d, SameDue DEF Send, DueOK, Attached, Locked, Sent
<1>3. ASSUME NEW c \in Conns, Receive(c) PROVE DueOK(d)'
  <2>1. Sent(d) => Sent(d)'
    <3>1. CASE d # c
      BY <1>3, <1>d, <1>t, <3>1 DEF Receive, Sent, TypeOK
    <3>2. CASE d = c
      <4>1. toClient[d] \in Seq(Answer) /\ toClient[d] # <<>>
        BY <1>3, <1>t, <3>2 DEF Receive, TypeOK
      <4>2. ToSet(toClient[d]) = ToSet(Tail(toClient[d])) \cup {Head(toClient[d])}
        BY <4>1, ToSetTail
      <4>3. /\ ForBroadcast(fan.version).broadcast
            /\ ForBroadcast(fan.version).version = fan.version
        BY DEF ForBroadcast
      <4>4. /\ toClient'[d] = Tail(toClient[d]) /\ fan' = fan
            /\ seen[d] \subseteq seen'[d]
            /\ Head(toClient[d]) = ForBroadcast(fan.version) => fan.version \in seen'[d]
        BY <1>3, <1>t, <3>2, <4>3 DEF Receive, TypeOK
      <4> QED
        BY <4>2, <4>4 DEF Sent
    <3> QED
      BY <3>1, <3>2
  <2> QED
    BY <1>3, <1>d, <2>1, SameDue DEF Receive, DueOK, Attached, Locked
<1>4. ASSUME NEW c \in Conns, CloseClient(c) PROVE DueOK(d)'
  <2>1. Attached(d)' => Attached(d) /\ d # c
    BY <1>4, <1>d, <1>t DEF CloseClient, Closed, Attached, Locked, TypeOK
  <2>2. d # c => (Sent(d) => Sent(d)')
    BY <1>4, <1>d, <1>t DEF CloseClient, Closed, Sent, TypeOK
  <2> QED
    BY <1>4, <1>d, <2>1, <2>2, SameDue DEF CloseClient, DueOK, Locked
<1>5. ASSUME NEW c \in Conns, Accept(c) PROVE DueOK(d)'
  <2>1. d # c
    BY <1>5, <1>d, <1>t DEF Accept, Phases, DueOK
  <2>2. Attached(d)' => Attached(d)
    BY <1>5, <1>d, <1>t, <2>1 DEF Accept, Attached, Locked, TypeOK
  <2> QED
    BY <1>5, <1>d, <2>2, SameDue DEF Accept, DueOK, Locked, Sent
<1>6. ASSUME NEW c \in Conns, NEW r \in toServer[c], HandleInput(c, r) PROVE DueOK(d)'
  <2>1. UNCHANGED <<fan, id, socket, toClient, seen>> /\ d \in Conns /\ DueOK(d)
    BY <1>6, <1>d DEF HandleInput
  <2>2. ~Locked(d)'
    BY <1>6, <1>d, <1>t, <2>1 DEF HandleInput, Locked, TypeOK
  <2>3. handler'[d].at = handler[d].at \/
            (handler[d].at = "reading" /\ handler'[d].at = "answering")
    BY <1>6, <1>t, <2>1 DEF HandleInput, TypeOK
  <2>4. Attached(d)' => Attached(d)
    BY <1>d, <2>1, <2>3 DEF Attached
  <2>5. Sent(d) => Sent(d)'
    BY <2>1 DEF Sent
  <2> QED
    BY <2>1, <2>2, <2>3, <2>4, <2>5, SameDue DEF DueOK
<1>7. ASSUME NEW c \in Conns, SendAnswer(c) PROVE DueOK(d)'
  <2>1. UNCHANGED <<fan, id, socket, authorized, seen>> /\ d \in Conns /\ DueOK(d)
    BY <1>7, <1>d DEF SendAnswer
  <2>2. handler'[d].at = handler[d].at \/
            (handler[d].at = "answering" /\ handler'[d].at = "reading")
    BY <1>7, <1>t, <2>1 DEF SendAnswer, TypeOK, Reading
  <2>3. Attached(d)' => Attached(d)
    BY <1>d, <2>1, <2>2 DEF Attached
  <2>4. handler[c].output \in Answer
    BY <1>t DEF TypeOK, Handler
  <2>5. ToSet(toClient[d]) \subseteq ToSet(toClient'[d])
    BY <1>7, <1>t, <2>1, <2>4, EncodeKeeps DEF SendAnswer
  <2>6. Sent(d) => Sent(d)'
    BY <2>1, <2>5 DEF Sent
  <2> QED
    BY <2>1, <2>2, <2>3, <2>6, SameDue DEF DueOK, Locked
<1>8. ASSUME NEW c \in Conns, Detach(c) PROVE DueOK(d)'
  <2>1. UNCHANGED <<fan, id, socket, authorized, seen, toClient>> /\ d \in Conns /\ DueOK(d)
    BY <1>8, <1>d DEF Detach
  <2>2. handler'[d].at = handler[d].at \/ handler'[d].at = "removing"
    BY <1>8, <1>t, <2>1 DEF Detach, TypeOK, Handler
  <2>3. Attached(d)' => Attached(d)
    BY <1>d, <2>1, <2>2 DEF Attached
  <2> QED
    BY <2>1, <2>2, <2>3, SameDue DEF DueOK, Locked, Sent
<1>9. ASSUME NEW c \in Conns, RemoveConn(c) PROVE DueOK(d)'
  BY <1>9 DEF RemoveConn, Unlocked
<1>10. CASE Generate
  BY <1>10, <1>d, SameDue DEF Generate, DueOK, Attached, Locked, Sent
<1>11. CASE WrapConn
  <2>1. d # serve.conn
    BY <1>11, <1>d, <1>t DEF WrapConn, Phases, DueOK
  <2>2. id'[d] = id[d]
    BY <1>11, <1>d, <1>t, <2>1 DEF WrapConn, TypeOK
  <2> QED
    BY <1>11, <1>d, <2>2, SameDue DEF WrapConn, DueOK, Attached, Locked, Sent
<1>12. CASE Register
  BY <1>12 DEF Register, Unlocked
<1>13. CASE ServeReturn
  BY <1>13, <1>d, SameDue DEF ServeReturn, DueOK, Attached, Locked, Sent
<1>14. ASSUME NEW b \in broadcasts, BroadcastLock(b) PROVE DueOK(d)'
  <2>1. fan'.left = conns /\ d \in ToSet(conns) /\ ~Locked(d)
    BY <1>14 DEF BroadcastLock
  <2> QED
    BY <1>14, <1>t, <2>1 DEF BroadcastLock, Phases, DueOK, Locked
<1>15. CASE BroadcastOne
  <2> DEFINE c == Head(fan.left)
             m == ForBroadcast(fan.version)
  <2>1. /\ fan.left \in Seq(Conns) /\ fan.left # <<>>
        /\ c \in Conns /\ m \in Answer
    BY <1>15, <1>t, RecordsTyped DEF BroadcastOne, TypeOK
  <2>2. /\ fan' = [fan EXCEPT !.left = Tail(@)]
        /\ UNCHANGED <<handler, authorized, id, seen, socket>>
        /\ \/ Skipped(c) /\ UNCHANGED toClient
           \/ ~Skipped(c) /\ Encode(c, m)
    BY <1>15, Zenon DEF BroadcastOne
  <2>3. /\ fan'.left = Tail(fan.left) /\ fan'.due = fan.due
        /\ fan'.version = fan.version /\ fan'.excluded = fan.excluded
    BY <1>t, <2>2 DEF TypeOK
  <2>4. ToSet(fan.left) = ToSet(fan'.left) \cup {c}
    BY <2>1, <2>3, ToSetTail
  <2>5. d \in Conns /\ DueOK(d) /\ ~Locked(d)
    BY <1>15, <1>d, <2>3 DEF BroadcastOne
  <2> HIDE DEF c, m
  <2>6. ToSet(toClient[d]) \subseteq ToSet(toClient'[d])
    BY <1>t, <2>1, <2>2, <2>5, EncodeKeeps
  <2>7. (Attached(d)' => Attached(d)) /\ (Sent(d) => Sent(d)')
    BY <2>2, <2>3, <2>6 DEF Attached, Locked, Sent
  <2>8. d = c => (Attached(d)' /\ id[d] # fan.excluded => Sent(d)')
    <3> SUFFICES ASSUME d = c, Attached(d)', id[d] # fan.excluded PROVE Sent(d)'
      OBVIOUS
    <3>1. ~Skipped(c) /\ Encode(c, m) /\ socket[c] # "closed"
      BY <2>2, <2>5, <2>7 DEF Skipped, Attached
    <3>2. m \in ToSet(toClient'[d])
      BY <1>t, <2>1, <2>5, <3>1, EncodeKeeps
    <3> QED
      BY <2>3, <3>2 DEF Sent, m
  <2> QED
    BY <2>2, <2>3, <2>4, <2>5, <2>7, <2>8 DEF DueOK, Locked
<1>16. CASE BroadcastUnlock
  BY <1>16 DEF BroadcastUnlock, NoFan
<1>17. CASE ShutdownStart
  <2>1. Attached(d)' => Attached(d)
    BY <1>17, <1>d, <1>t DEF ShutdownStart, Attached, Locked, TypeOK
  <2> QED
    BY <1>17, <1>d, <2>1, SameDue DEF ShutdownStart, DueOK, Locked, Sent
<1>18. CASE ShutdownClose
  BY <1>18 DEF ShutdownClose, Unlocked
<1>19. CASE DeadlockTimeout
  <2>1. Attached(d)' => Attached(d)
    BY <1>19, <1>d, <1>t DEF DeadlockTimeout, Attached, Locked, TypeOK
  <2> QED
    BY <1>19, <1>d, <2>1, SameDue DEF DeadlockTimeout, DueOK, Locked, Sent
<1>20. CASE UNCHANGED vars
  BY <1>20, <1>d, SameDue DEF vars, DueOK, Attached, Locked, Sent
<1> QED
  BY <1>1, <1>2, <1>3, <1>4, <1>5, <1>6, <1>7, <1>8, <1>9, <1>10, <1>11, <1>12,
     <1>13, <1>14, <1>15, <1>16, <1>17, <1>18, <1>19, <1>20 DEF Next
LEMMA InitInv == Init => Inv
<1> SUFFICES ASSUME Init PROVE Inv
  OBVIOUS
<1> USE ServerAssumption DEF Init
<1>1. /\ 0 \in Versionz /\ 1 \in IDs
      /\ NoHandler \in Handler
      /\ \A c \in Conns : handler[c] = NoHandler
  BY RecordsTyped DEF Versionz, IDs, NoHandler, Handler
<1>2. TypeOK
  <2>1. handler \in [Conns -> Handler]
    BY <1>1
  <2>2. fan \in [active : BOOLEAN, excluded : IDs, version : Versionz,
                 left : Seq(Conns), due : SUBSET Conns]
    BY <1>1 DEF NoFan
  <2>3. /\ store \in [present : BOOLEAN, version : Versionz, value : {0}]
        /\ ids \in [queue : Seq(IDs), next : IDs, running : BOOLEAN]
        /\ Len(ids.queue) <= IDBuffer
    BY <1>1
  <2>4. /\ toClient \in [Conns -> Seq(Answer)]
        /\ \A c \in Conns : Len(toClient[c]) <= WriteBuffer
    OBVIOUS
  <2> QED
    BY <2>1, <2>2, <2>3, <2>4 DEF TypeOK
<1>3. Phases
  BY <1>1, ToSetEmpty DEF Phases, NoHandler
<1>4. AuthGate /\ Withheld
  BY <1>1 DEF AuthGate, Withheld, NoHandler, ErrorAnswer
<1>5. Served
  BY DEF Served, NoFan
<1> QED
  BY <1>2, <1>3, <1>4, <1>5 DEF Inv

\* The inductive invariant holds in every reachable state.
THEOREM Invariance == Spec => []Inv
<1>1. Inv /\ [Next]_vars => Inv'
  BY TypeStep, PhasesStep, AuthStep, ServedStep DEF Inv
<1> QED
  BY <1>1, InitInv, PTL DEF Spec

\* Every variable of the server keeps its type: no write overfills a buffer, no
\* id leaves its range.
THEOREM TypeCorrectness == Spec => []TypeOK
<1>1. Inv => TypeOK
  BY DEF Inv
<1> QED
  BY <1>1, Invariance, PTL

\* handleInput and broadcast send no value to a connection that gave no
\* password, and handleInput applies no put of its.
THEOREM NoValueWithoutPassword == Spec => []AuthGate
<1>1. Inv => AuthGate
  BY DEF Inv
<1> QED
  BY <1>1, Invariance, PTL

\* When broadcast releases s.mu it has sent the update to everyone it was due
\* to and who is still there, however connections failed, came and went
\* meanwhile.
THEOREM FanoutReachesAll == Spec => []FanoutComplete
<1>1. Inv => FanoutComplete
  BY ToSetEmpty DEF Inv, Served, FanoutComplete, Sent
<1> QED
  BY <1>1, Invariance, PTL

--------------------------------------------------------------------------------
(* The list of connections, while ids have not gone round. *)

LEMMA CountTyped ==
    ASSUME FewConns
    PROVE  IsFiniteSet(Used) /\ Count \in Nat /\ Count <= MaxID
<1>1. Used \subseteq Conns
  BY DEF Used
<1>2. IsFiniteSet(Used) /\ Cardinality(Used) <= Cardinality(Conns)
  BY <1>1, FS_Subset DEF FewConns
<1>3. Cardinality(Used) \in Nat /\ Cardinality(Conns) \in Nat
  BY <1>2, FS_CardinalityType DEF FewConns
<1> QED
  BY <1>2, <1>3, ServerAssumption DEF FewConns, Count

LEMMA SameNumbers ==
    ASSUME Numbered, id' = id, ids'.queue = ids.queue, ids'.next = ids.next
    PROVE  Numbered'
<1>1. Used' = Used
  BY DEF Used
<1>2. Count' = Count
  BY <1>1 DEF Count
<1> QED
  BY <1>1, <1>2 DEF Numbered

LEMMA GenerateNumbered ==
    ASSUME FewConns, TypeOK, Numbered, Generate
    PROVE  Numbered'
<1> USE ServerAssumption
<1> DEFINE q == ids.queue
           n == Len(ids.queue)
<1>1. /\ q \in Seq(IDs) /\ n \in Nat /\ ids.next \in IDs
      /\ ids'.queue = Append(q, ids.next) /\ ids'.next = NextID(ids.next)
      /\ id' = id
  BY DEF TypeOK, Generate
<1>2. Used' = Used
  BY <1>1 DEF Used
<1>3. Count' = Count /\ Count \in Nat
  BY <1>2, CountTyped DEF Count
<1>4. /\ Len(ids'.queue) = n + 1
      /\ \A i \in 1..n : ids'.queue[i] = q[i]
      /\ ids'.queue[n + 1] = ids.next
  BY <1>1
<1>5. ASSUME NEW i \in 1..(n + 1), Count + i <= MaxID
      PROVE  ids'.queue[i] = Count + i
  <2>1. CASE i \in 1..n
    BY <1>4, <1>5, <2>1 DEF Numbered
  <2>2. CASE i = n + 1
    BY <1>1, <1>3, <1>4, <1>5, <2>2 DEF Numbered
  <2> QED
    BY <1>1, <2>1, <2>2
<1>6. ASSUME Count + (n + 1) + 1 <= MaxID PROVE ids'.next = Count + (n + 1) + 1
  <2>1. ids.next = Count + n + 1 /\ ids.next \in Nat /\ ids.next < MaxID
    BY <1>1, <1>3, <1>6 DEF Numbered
  <2>2. ids.next % MaxID = ids.next
    BY <2>1
  <2>3. ids'.next = ids.next + 1
    BY <1>1, <2>2 DEF NextID
  <2> HIDE DEF n
  <2> QED
    BY <1>1, <1>3, <2>1, <2>3
<1> QED
  BY <1>1, <1>2, <1>3, <1>4, <1>5, <1>6 DEF Numbered

\* The id that wrapConn takes is one more than the ids that are in use.
LEMMA WrapConnNumbered ==
    ASSUME FewConns, TypeOK, Phases, Numbered, WrapConn
    PROVE  Numbered'
<1> USE ServerAssumption
<1> DEFINE q == ids.queue
           n == Len(ids.queue)
           c == serve.conn
<1>1. /\ q \in Seq(IDs) /\ n \in Nat /\ n > 0 /\ q # <<>>
      /\ ids'.queue = Tail(q) /\ ids'.next = ids.next
      /\ c \in Conns /\ id[c] = 0
      /\ id' = [id EXCEPT ![c] = q[1]] /\ id \in [Conns -> IDs \cup {0}]
  BY DEF TypeOK, Phases, WrapConn
<1>2. q[1] \in IDs /\ q[1] # 0 /\ 0 \notin IDs
  BY <1>1 DEF IDs
<1> HIDE DEF c
<1>3. c \notin Used /\ Used' = Used \cup {c}
  BY <1>1, <1>2 DEF Used
<1>4. Count \in Nat /\ IsFiniteSet(Used)
  BY CountTyped
<1>5. Count' = Count + 1
  <2>1. Cardinality(Used \cup {c}) = Cardinality(Used) + 1
    BY <1>3, <1>4, FS_AddElement
  <2> QED
    BY <1>3, <2>1 DEF Count
<1>6. Count + 1 <= MaxID
  <2>1. Used' \subseteq Conns
    BY DEF Used
  <2>2. Cardinality(Used') <= Cardinality(Conns) /\ Cardinality(Conns) \in Nat
    BY <2>1, FS_Subset, FS_CardinalityType DEF FewConns
  <2> QED
    BY <1>4, <1>5, <2>2 DEF FewConns, Count
<1>7. q[1] = Count + 1
  BY <1>1, <1>4, <1>6 DEF Numbered
<1>8. /\ id'[c] = Count + 1
      /\ \A d \in Used : id'[d] = id[d] /\ id[d] <= Count /\ id[d] \in Nat
  <2>1. \A d \in Used : d # c /\ d \in Conns
    BY <1>3 DEF Used
  <2>2. \A d \in Conns : id[d] \in Nat
    BY <1>1 DEF IDs
  <2> QED
    BY <1>1, <1>7, <2>1, <2>2 DEF Numbered
<1>9. \A d \in Used' : id'[d] <= Count'
  BY <1>3, <1>4, <1>5, <1>8
<1>10. \A d, e \in Used' : id'[d] = id'[e] => d = e
  <2> SUFFICES ASSUME NEW d \in Used \cup {c}, NEW e \in Used \cup {c},
                      id'[d] = id'[e]
               PROVE  d = e
    BY <1>3
  <2>1. CASE d \in Used /\ e \in Used
    BY <1>8, <2>1 DEF Numbered
  <2>2. CASE d = c /\ e \in Used
    BY <1>4, <1>8, <2>2
  <2>3. CASE d \in Used /\ e = c
    BY <1>4, <1>8, <2>3
  <2> QED
    BY <2>1, <2>2, <2>3
<1>11. /\ Len(ids'.queue) = n - 1
       /\ \A i \in 1..(n - 1) : ids'.queue[i] = q[i + 1]
  BY <1>1
<1>12. \A i \in 1..Len(ids'.queue) : Count' + i <= MaxID => ids'.queue[i] = Count' + i
  <2> SUFFICES ASSUME NEW i \in 1..(n - 1), (Count + 1) + i <= MaxID
               PROVE  q[i + 1] = (Count + 1) + i
    BY <1>5, <1>11
  <2>1. i + 1 \in 1..n /\ Count + (i + 1) <= MaxID
    BY <1>1, <1>4
  <2>2. q[i + 1] = Count + (i + 1)
    BY <2>1 DEF Numbered
  <2> QED
    BY <1>4, <2>2
<1>13. Count' + Len(ids'.queue) + 1 <= MaxID =>
           ids'.next = Count' + Len(ids'.queue) + 1
  <2>1. Count' + Len(ids'.queue) + 1 = Count + n + 1
    <3>1. n \in Nat /\ Len(ids'.queue) = n - 1
      BY <1>1, <1>11
    <3> HIDE DEF n
    <3> QED
      BY <1>4, <1>5, <3>1
  <2> QED
    BY <1>1, <2>1 DEF Numbered
<1> QED
  BY <1>9, <1>10, <1>12, <1>13 DEF Numbered
LEMMA NumberedStep == ASSUME FewConns, ListInv, [Next]_vars PROVE Numbered'
<1> USE DEF connVars, acceptVars, fanVars
<1>t. TypeOK /\ Phases /\ Numbered
  BY DEF ListInv, Inv
<1>1. CASE Generate
  BY <1>t, <1>1, GenerateNumbered
<1>2. CASE WrapConn
  BY <1>t, <1>2, WrapConnNumbered
<1>3. CASE ShutdownStart
  <2>1. ids'.queue = ids.queue /\ ids'.next = ids.next /\ id' = id
    BY <1>t, <1>3 DEF ShutdownStart, TypeOK
  <2> QED
    BY <1>t, <2>1, SameNumbers
<1>4. CASE UNCHANGED <<id, ids>>
  BY <1>t, <1>4, SameNumbers
<1>5. ASSUME NEW c \in Conns,
             \/ Dial(c) \/ Receive(c) \/ CloseClient(c) \/ Accept(c)
             \/ SendAnswer(c) \/ Detach(c) \/ RemoveConn(c)
             \/ \E r \in Requests : Send(c, r)
             \/ \E r \in toServer[c] : HandleInput(c, r)
      PROVE  UNCHANGED <<id, ids>>
  BY <1>5 DEF Dial, Receive, CloseClient, Accept, SendAnswer, Detach, RemoveConn,
              Send, HandleInput
<1>6. CASE Register \/ ServeReturn \/ (\E b \in broadcasts : BroadcastLock(b))
           \/ BroadcastOne \/ BroadcastUnlock \/ ShutdownClose \/ DeadlockTimeout
           \/ UNCHANGED vars
  <2>1. UNCHANGED <<id, ids>>
    BY <1>6 DEF Register, ServeReturn, BroadcastLock, BroadcastOne,
                BroadcastUnlock, ShutdownClose, DeadlockTimeout, vars
  <2> QED
    BY <1>4, <2>1
<1> QED
  BY <1>1, <1>2, <1>3, <1>4, <1>5, <1>6 DEF Next

\* Steps of a handler that neither starts nor ends it.
LEMMA SameList ==
    ASSUME Listed, conns' = conns, \A c \in Conns : Handled(c)' <=> Handled(c)
    PROVE  Listed'
BY DEF Listed

LEMMA ListedStep == ASSUME ListInv, [Next]_vars PROVE Listed'
<1> USE DEF connVars, acceptVars, fanVars
<1>t. TypeOK /\ Phases /\ Numbered /\ Listed
  BY DEF ListInv, Inv
<1>1. CASE Register
  <2> DEFINE c == serve.conn
  <2>1. /\ c \in Conns /\ conns \in Seq(Conns) /\ conns' = Append(conns, c)
        /\ handler' = [handler EXCEPT ![c] = Reading] /\ handler \in [Conns -> Handler]
    BY <1>t, <1>1 DEF Register, Phases, TypeOK
  <2> HIDE DEF c
  <2>2. ToSet(conns') = ToSet(conns) \cup {c}
    BY <2>1, ToSetAppend
  <2>3. \A d \in Conns : Handled(d)' <=> (Handled(d) \/ d = c)
    BY <2>1 DEF Handled, Reading, NoHandler
  <2> QED
    BY <1>t, <2>2, <2>3 DEF Listed
<1>2. ASSUME NEW c \in Conns, RemoveConn(c) PROVE Listed'
  <2>1. ToSet(conns') = {d \in ToSet(conns) : id[d] # id[c]}
    BY <1>t, <1>2, NewConnsKept DEF RemoveConn
  <2>2. /\ Handled(c)
        /\ \A d \in Conns : Handled(d)' <=> (Handled(d) /\ d # c)
    BY <1>t, <1>2 DEF RemoveConn, Handled, TypeOK, Handler
  <2>3. \A d \in Conns : Handled(d) => d \in Used
    BY <1>t DEF Handled, Phases, Used
  <2>4. \A d \in Conns : Handled(d) => (id[d] = id[c] <=> d = c)
    BY <1>t, <2>2, <2>3 DEF Numbered
  <2> QED
    BY <1>t, <2>1, <2>2, <2>4 DEF Listed
<1>3. ASSUME NEW c \in Conns, NEW r \in toServer[c], HandleInput(c, r) PROVE Listed'
  <2>1. conns' = conns /\ handler[c].at = "reading"
    BY <1>3 DEF HandleInput
  <2>2. \A d \in Conns : IF d = c THEN handler'[d].at = "answering"
                                  ELSE handler'[d] = handler[d]
    BY <1>t, <1>3 DEF HandleInput, TypeOK
  <2> QED
    BY <1>t, <2>1, <2>2, SameList DEF Handled
<1>4. ASSUME NEW c \in Conns, SendAnswer(c) PROVE Listed'
  <2>1. conns' = conns /\ handler[c].at = "answering"
    BY <1>4 DEF SendAnswer
  <2>2. \A d \in Conns : IF d = c THEN handler'[d].at = "reading"
                                  ELSE handler'[d] = handler[d]
    BY <1>t, <1>4 DEF SendAnswer, TypeOK, Reading, NoHandler
  <2> QED
    BY <1>t, <2>1, <2>2, SameList DEF Handled
<1>5. ASSUME NEW c \in Conns, Detach(c) PROVE Listed'
  <2>1. conns' = conns /\ handler[c].at = "reading"
    BY <1>5 DEF Detach
  <2>2. \A d \in Conns : IF d = c THEN handler'[d].at = "removing"
                                  ELSE handler'[d] = handler[d]
    BY <1>t, <1>5 DEF Detach, TypeOK, Handler
  <2> QED
    BY <1>t, <2>1, <2>2, SameList DEF Handled
<1>6. CASE UNCHANGED <<conns, handler>>
  BY <1>t, <1>6, SameList DEF Handled
<1>7. ASSUME NEW c \in Conns,
             \/ Dial(c) \/ Receive(c) \/ CloseClient(c) \/ Accept(c)
             \/ \E r \in Requests : Send(c, r)
      PROVE  UNCHANGED <<conns, handler>>
  BY <1>7 DEF Dial, Receive, CloseClient, Accept, Send
<1>8. CASE Generate \/ WrapConn \/ ServeReturn \/ (\E b \in broadcasts : BroadcastLock(b))
           \/ BroadcastOne \/ BroadcastUnlock \/ ShutdownStart \/ ShutdownClose
           \/ DeadlockTimeout \/ UNCHANGED vars
  <2>1. UNCHANGED <<conns, handler>>
    BY <1>8 DEF Generate, WrapConn, ServeReturn, BroadcastLock, BroadcastOne,
                BroadcastUnlock, ShutdownStart, ShutdownClose, DeadlockTimeout, vars
  <2> QED
    BY <1>6, <2>1
<1> QED
  BY <1>1, <1>2, <1>3, <1>4, <1>5, <1>6, <1>7, <1>8 DEF Next

LEMMA InitList == ASSUME Init PROVE ListInv
<1>1. Used = {}
  BY DEF Init, Used
<1>2. Count = 0
  BY <1>1, FS_EmptySet DEF Count
<1>3. Numbered
  BY <1>1, <1>2 DEF Numbered, Init
<1>4. Listed
  BY ToSetEmpty DEF Init, Listed, Handled, NoHandler
<1> QED
  BY <1>3, <1>4, InitInv DEF ListInv

\* As long as the server has not had more connections than there are ids, its
\* list holds exactly the connections whose input is handled: removeConn, which
\* removes by id, takes away no other.
THEOREM ListIsExact == ASSUME FewConns PROVE Spec => []Registered
<1>1. Init => ListInv
  BY InitList
<1>2. ListInv /\ [Next]_vars => ListInv'
  <2> SUFFICES ASSUME ListInv, [Next]_vars PROVE ListInv'
    OBVIOUS
  <2>1. Inv'
    BY TypeStep, PhasesStep, AuthStep, ServedStep DEF Inv, ListInv
  <2> QED
    BY <2>1, NumberedStep, ListedStep DEF ListInv
<1>3. ListInv => Registered
  BY DEF ListInv, Listed, Handled, Registered
<1> QED
  BY <1>1, <1>2, <1>3, PTL DEF Spec
================================================================================
