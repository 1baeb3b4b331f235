------------------------------ MODULE MetaServer ------------------------------
(***************************************************************************)
(* The goroutines of the metadata server (pkg/network/server): the accept  *)
(* loop Serve, one handleInput per connection, one broadcast per accepted  *)
(* put, the generator of connection ids, and Shutdown.                     *)
(*                                                                         *)
(* s.mu is held over several steps only by a broadcast, which writes to    *)
(* one connection after the other; the other critical sections are single  *)
(* steps that wait until no broadcast is under way.  A write to a          *)
(* connection blocks while the buffers between the two ends are full.      *)
(*                                                                         *)
(* A connection is used once.  The store is one key, given by its version. *)
(***************************************************************************)
EXTENDS Versions, SequencesExt

CONSTANTS
    Conns,        \* connections that clients open
    NoConn,
    AuthHash,     \* whether the server requires a password
    MaxID,        \* last connection id, 65535 in the code
    IDBuffer,     \* capacity of the channel of ids, 42 in the code
    WriteBuffer,  \* messages that fit between the server and a client
    MaxVersion,   \* bound: version of the key
    Kinds,        \* kinds of message that clients send
    Stalling      \* a client may stop reading for more than 30 seconds

ASSUME ServerAssumption ==
    /\ AuthHash \in BOOLEAN /\ Stalling \in BOOLEAN
    /\ MaxID \in Nat \ {0} /\ IDBuffer \in Nat \ {0}
    /\ WriteBuffer \in Nat \ {0}
    /\ MaxVersion \in Nat /\ MaxVersion < Word
    /\ NoConn \notin Conns
    /\ Kinds \subseteq {"get", "put", "error", "auth", "badAuth"}

VARIABLES
    store,      \* the entry of the key
    socket,     \* socket[c]: "none", "backlog", "open", or "closed" by an end
    toServer,   \* toServer[c]: the request the server has not read, if any
    toClient,   \* toClient[c]: what the client has not read yet
    seen,       \* history: versions the client was notified of
    id,         \* id[c]: sc.id
    authorized, \* authorized[c]: sc.authorized
    handler,    \* handler[c]: where handleInput is, with the answer to send
    conns,      \* s.conns
    serve,      \* where Serve is, and the connection it has accepted
    ids,        \* MonotoneTags: the channel, the next id, whether it runs
    broadcasts, \* broadcast goroutines waiting for s.mu
    fan,        \* the broadcast that holds s.mu, with the connections left and,
                \* as history, those it was due to when it started
    shutdown    \* where Shutdown is: "no", "locking", "returned"

vars == <<store, socket, toServer, toClient, seen, id, authorized,
          handler, conns, serve, ids, broadcasts, fan, shutdown>>

connVars   == <<toServer, toClient, seen, authorized, handler>>
acceptVars == <<id, serve, ids>>
fanVars    == <<broadcasts, fan>>

Versionz == 0..MaxVersion
IDs      == 1..MaxID

\* "badAuth" is an auth message with the wrong password.
Request   == [kind : {"get", "put", "error", "auth", "badAuth"}, version : Versionz]
Answer    == [kind : {"put", "error", "auth"}, broadcast : {FALSE}, version : Versionz]
             \cup [kind : {"put"}, broadcast : {TRUE}, version : Versionz]
Broadcast == [excluded : IDs, version : Versionz]
Handler   == [at : {"none", "reading", "answering", "removing", "done"},
              output : Answer, accepted : BOOLEAN]

ErrorAnswer    == [kind |-> "error", broadcast |-> FALSE, version |-> 0]
AuthAnswer     == [kind |-> "auth", broadcast |-> FALSE, version |-> 0]
PutAnswer(v)   == [kind |-> "put", broadcast |-> FALSE, version |-> v]
ForBroadcast(v) == [kind |-> "put", broadcast |-> TRUE, version |-> v]

NoHandler == [at |-> "none", output |-> ErrorAnswer, accepted |-> FALSE]
Reading   == [NoHandler EXCEPT !.at = "reading"]
NoFan     == [active |-> FALSE, excluded |-> 1, version |-> 0, left |-> <<>>,
              due |-> {}]

TypeOK ==
    /\ store \in [present : BOOLEAN, version : Versionz, value : {0}]
    /\ socket \in [Conns -> {"none", "backlog", "open", "closed"}]
    /\ toServer \in [Conns -> SUBSET Request]
    /\ toClient \in [Conns -> Seq(Answer)]
    /\ \A c \in Conns : Len(toClient[c]) <= WriteBuffer
    /\ seen \in [Conns -> SUBSET Versionz]
    /\ id \in [Conns -> IDs \cup {0}]
    /\ authorized \in [Conns -> BOOLEAN]
    /\ handler \in [Conns -> Handler]
    /\ conns \in Seq(Conns)
    /\ serve \in [at : {"accept", "wrap", "append", "returned", "exited"},
                  conn : Conns \cup {NoConn}]
    /\ ids \in [queue : Seq(IDs), next : IDs, running : BOOLEAN]
    /\ Len(ids.queue) <= IDBuffer
    /\ broadcasts \subseteq Broadcast
    /\ fan \in [active : BOOLEAN, excluded : IDs, version : Versionz,
                left : Seq(Conns), due : SUBSET Conns]
    /\ shutdown \in {"no", "locking", "returned"}

Init ==
    /\ store = [present |-> FALSE, version |-> 0, value |-> 0]
    /\ socket = [c \in Conns |-> "none"]
    /\ toServer = [c \in Conns |-> {}]
    /\ toClient = [c \in Conns |-> <<>>]
    /\ seen = [c \in Conns |-> {}]
    /\ id = [c \in Conns |-> 0]
    /\ authorized = [c \in Conns |-> FALSE]
    /\ handler = [c \in Conns |-> NoHandler]
    /\ conns = <<>>
    /\ serve = [at |-> "accept", conn |-> NoConn]
    /\ ids = [queue |-> <<>>, next |-> 1, running |-> TRUE]
    /\ broadcasts = {}
    /\ fan = NoFan
    /\ shutdown = "no"

Running  == serve.at # "exited"
Unlocked == Running /\ ~fan.active     \* s.mu is free
Listening == Running /\ shutdown = "no"

--------------------------------------------------------------------------------
(* Clients. *)

Dial(c) ==
    /\ socket[c] = "none"
    /\ Listening
    /\ socket' = [socket EXCEPT ![c] = "backlog"]
    /\ UNCHANGED <<store, conns, shutdown>>
    /\ UNCHANGED connVars
    /\ UNCHANGED acceptVars
    /\ UNCHANGED fanVars

Send(c, r) ==
    /\ socket[c] = "open"
    /\ toServer[c] = {}
    /\ toServer' = [toServer EXCEPT ![c] = {r}]
    /\ UNCHANGED <<store, socket, toClient, seen, authorized, handler,
                   conns, shutdown>>
    /\ UNCHANGED acceptVars
    /\ UNCHANGED fanVars

Receive(c) ==
    /\ socket[c] = "open"
    /\ toClient[c] # <<>>
    /\ toClient' = [toClient EXCEPT ![c] = Tail(@)]
    /\ seen' = [seen EXCEPT ![c] = IF Head(toClient[c]).broadcast
                                   THEN @ \cup {Head(toClient[c]).version} ELSE @]
    /\ UNCHANGED <<store, socket, toServer, authorized, handler, conns,
                   shutdown>>
    /\ UNCHANGED acceptVars
    /\ UNCHANGED fanVars

\* What a connection that is closed at either end still carries.
Closed(c) ==
    /\ socket' = [socket EXCEPT ![c] = "closed"]
    /\ toClient' = [toClient EXCEPT ![c] = <<>>]

CloseClient(c) ==
    /\ socket[c] = "open"
    /\ Closed(c)
    /\ UNCHANGED <<store, toServer, seen, authorized, handler, conns,
                   shutdown>>
    /\ UNCHANGED acceptVars
    /\ UNCHANGED fanVars

--------------------------------------------------------------------------------
(* The accept loop and the generator of ids. *)

\* Ids go round from MaxID to 1; 0 is skipped.
SameID(n) == n
NextID(n) == (n % MaxID) + 1

Generate ==
    /\ Running /\ ids.running
    /\ Len(ids.queue) < IDBuffer
    /\ ids' = [ids EXCEPT !.queue = Append(@, ids.next), !.next = NextID(@)]
    /\ UNCHANGED <<store, socket, conns, id, serve, shutdown>>
    /\ UNCHANGED connVars
    /\ UNCHANGED fanVars

Accept(c) ==
    /\ serve.at = "accept"
    /\ Listening
    /\ socket[c] = "backlog"
    /\ serve' = [at |-> "wrap", conn |-> c]
    /\ socket' = [socket EXCEPT ![c] = "open"]
    /\ UNCHANGED <<store, conns, id, ids, shutdown>>
    /\ UNCHANGED connVars
    /\ UNCHANGED fanVars

\* wrapConn: connIDs.Next() waits for an id.
WrapConn ==
    /\ serve.at = "wrap"
    /\ ids.queue # <<>>
    /\ id' = [id EXCEPT ![serve.conn] = Head(ids.queue)]
    /\ ids' = [ids EXCEPT !.queue = Tail(@)]
    /\ serve' = [serve EXCEPT !.at = "append"]
    /\ UNCHANGED <<store, socket, conns, shutdown>>
    /\ UNCHANGED connVars
    /\ UNCHANGED fanVars

Register ==
    /\ serve.at = "append"
    /\ Unlocked
    /\ conns' = Append(conns, serve.conn)
    /\ handler' = [handler EXCEPT ![serve.conn] = Reading]
    /\ serve' = [at |-> "accept", conn |-> NoConn]
    /\ UNCHANGED <<store, socket, toServer, toClient, seen, authorized,
                   id, ids, shutdown>>
    /\ UNCHANGED fanVars

\* Accept fails because the listener is closed.
ServeReturn ==
    /\ serve.at = "accept"
    /\ shutdown # "no"
    /\ serve' = [serve EXCEPT !.at = "returned"]
    /\ UNCHANGED <<store, socket, conns, id, ids, shutdown>>
    /\ UNCHANGED connVars
    /\ UNCHANGED fanVars

--------------------------------------------------------------------------------
(* handleInput. *)

\* The output for an input, before and after authorization.
Refusal(r) == IF r.kind = "auth" THEN AuthAnswer ELSE ErrorAnswer

ApplyMessage(r) ==
    CASE r.kind = "get" /\ ~Absent(store)               -> PutAnswer(store.version)
      [] r.kind = "put" /\ ~Stale(store, r.version)     -> PutAnswer(r.version)
      [] OTHER                                          -> ErrorAnswer

Locked(c) == AuthHash /\ ~authorized[c]

\* Decode a message, find the answer, and apply a put that is accepted.
HandleInput(c, r) ==
    LET output == IF Locked(c) THEN Refusal(r) ELSE ApplyMessage(r)
        accepted == r.kind = "put" /\ output.kind = "put"
    IN  /\ Running
        /\ handler[c].at = "reading"
        /\ toServer' = [toServer EXCEPT ![c] = {}]
        /\ authorized' = [authorized EXCEPT ![c] = @ \/ output.kind = "auth"]
        /\ store' = IF accepted THEN NewEntry(r.version, 0) ELSE store
        /\ handler' = [handler EXCEPT ![c] =
                [at |-> "answering", output |-> output, accepted |-> accepted]]
        /\ UNCHANGED <<socket, toClient, seen, conns, shutdown>>
        /\ UNCHANGED acceptVars
        /\ UNCHANGED fanVars

\* Encode on a connection: an error once it is closed, else a write that waits
\* for room.
EncodeAtOnce(c, m) ==
    \/ socket[c] = "closed" /\ UNCHANGED toClient
    \/ /\ socket[c] = "open"
       /\ toClient' = [toClient EXCEPT ![c] = Append(@, m)]
Encode(c, m) ==
    \/ socket[c] = "closed" /\ UNCHANGED toClient
    \/ /\ socket[c] = "open"
       /\ Len(toClient[c]) < WriteBuffer
       /\ toClient' = [toClient EXCEPT ![c] = Append(@, m)]

\* Send the answer, whether or not that works, then start the fan-out.
SendAnswer(c) ==
    /\ Running
    /\ handler[c].at = "answering"
    /\ Encode(c, handler[c].output)
    /\ broadcasts' = IF handler[c].accepted
                     THEN broadcasts \cup {[excluded |-> id[c],
                                            version |-> handler[c].output.version]}
                     ELSE broadcasts
    /\ handler' = [handler EXCEPT ![c] = Reading]
    /\ UNCHANGED <<store, socket, toServer, seen, authorized, conns, fan,
                   shutdown>>
    /\ UNCHANGED acceptVars

\* Decode fails once the connection is closed.  What was sent on it before may
\* be lost, or still be handled first.
Detach(c) ==
    /\ Running
    /\ handler[c].at = "reading"
    /\ socket[c] = "closed"
    /\ handler' = [handler EXCEPT ![c].at = "removing"]
    /\ UNCHANGED <<store, socket, toServer, toClient, seen, authorized,
                   conns, shutdown>>
    /\ UNCHANGED acceptVars
    /\ UNCHANGED fanVars

\* newConns, when n is removed: the connections with other ids, in their order.
\* kept are their places in s.conns.
NewConns(n) ==
    LET others == {i \in DOMAIN conns : id[conns[i]] # n}
        InOrder(kept) == \A i, j \in DOMAIN kept : i < j => kept[i] < kept[j]
        places == UNION {[1..k -> others] : k \in 0..Len(conns)}
    IN  {[i \in DOMAIN kept |-> conns[kept[i]]] :
            kept \in {p \in places : InOrder(p) /\ others = {p[i] : i \in DOMAIN p}}}

RemoveConn(c) ==
    /\ Unlocked
    /\ handler[c].at = "removing"
    /\ conns' \in NewConns(id[c])
    /\ handler' = [handler EXCEPT ![c].at = "done"]
    /\ toServer' = [toServer EXCEPT ![c] = {}]
    /\ UNCHANGED <<store, socket, toClient, seen, authorized,
                   shutdown>>
    /\ UNCHANGED acceptVars
    /\ UNCHANGED fanVars

--------------------------------------------------------------------------------
(* broadcast. *)

BroadcastLock(b) ==
    /\ Unlocked
    /\ broadcasts' = broadcasts \ {b}
    /\ fan' = [active |-> TRUE, excluded |-> b.excluded, version |-> b.version,
               left |-> conns, due |-> {c \in ToSet(conns) : ~Locked(c)}]
    /\ UNCHANGED <<store, socket, conns, shutdown>>
    /\ UNCHANGED connVars
    /\ UNCHANGED acceptVars

SkippedOpen(c) == fan.excluded = id[c]
Skipped(c) == fan.excluded = id[c] \/ Locked(c)

\* One round of the loop.  An Encode that fails is logged, and the next
\* connection has its turn.
BroadcastStopping ==
    /\ Running
    /\ fan.active /\ fan.left # <<>>
    /\ LET c == Head(fan.left)
       IN  /\ \/ Skipped(c) /\ UNCHANGED toClient
              \/ ~Skipped(c) /\ Encode(c, ForBroadcast(fan.version))
           /\ fan' = [fan EXCEPT !.left =
                        IF ~Skipped(c) /\ socket[c] = "closed" THEN <<>> ELSE Tail(@)]
    /\ UNCHANGED <<store, socket, toServer, seen, authorized, handler,
                   conns, broadcasts, shutdown>>
    /\ UNCHANGED acceptVars
BroadcastOne ==
    /\ Running
    /\ fan.active /\ fan.left # <<>>
    /\ LET c == Head(fan.left)
       IN  \/ Skipped(c) /\ UNCHANGED toClient
           \/ ~Skipped(c) /\ Encode(c, ForBroadcast(fan.version))
    /\ fan' = [fan EXCEPT !.left = Tail(@)]
    /\ UNCHANGED <<store, socket, toServer, seen, authorized, handler,
                   conns, broadcasts, shutdown>>
    /\ UNCHANGED acceptVars

BroadcastUnlock ==
    /\ Running
    /\ fan.active /\ fan.left = <<>>
    /\ fan' = NoFan
    /\ UNCHANGED <<store, socket, conns, broadcasts, shutdown>>
    /\ UNCHANGED connVars
    /\ UNCHANGED acceptVars

--------------------------------------------------------------------------------
(* Shutdown. *)

\* ln.Close and connIDs.Stop.  Connections not accepted yet are gone.
ShutdownStart ==
    /\ Listening
    /\ shutdown' = "locking"
    /\ ids' = [ids EXCEPT !.running = FALSE]
    /\ socket' = [c \in Conns |-> IF socket[c] = "backlog" THEN "closed" ELSE socket[c]]
    /\ UNCHANGED <<store, conns, id, serve>>
    /\ UNCHANGED connVars
    /\ UNCHANGED fanVars

\* With s.mu held, every registered connection is closed.
ShutdownClose ==
    /\ shutdown = "locking"
    /\ Unlocked
    /\ shutdown' = "returned"
    /\ socket' = [c \in Conns |-> IF c \in ToSet(conns) THEN "closed" ELSE socket[c]]
    /\ toClient' = [c \in Conns |-> IF c \in ToSet(conns) THEN <<>> ELSE toClient[c]]
    /\ UNCHANGED <<store, toServer, seen, authorized, handler, conns>>
    /\ UNCHANGED acceptVars
    /\ UNCHANGED fanVars

\* s.mu is a go-deadlock mutex: a goroutine that has waited 30 seconds for it
\* ends the process.
WaitingForLock ==
    \/ serve.at = "append"
    \/ shutdown = "locking"
    \/ broadcasts # {}
    \/ \E c \in Conns : handler[c].at = "removing"

Blocked(c) == socket[c] = "open" /\ Len(toClient[c]) = WriteBuffer /\ ~Skipped(c)

DeadlockTimeout ==
    /\ Stalling
    /\ Running
    /\ fan.active /\ fan.left # <<>> /\ Blocked(Head(fan.left))
    /\ WaitingForLock
    /\ serve' = [at |-> "exited", conn |-> NoConn]
    /\ socket' = [c \in Conns |-> IF socket[c] = "none" THEN "none" ELSE "closed"]
    /\ UNCHANGED <<store, id, ids, conns, shutdown>>
    /\ UNCHANGED connVars
    /\ UNCHANGED fanVars

--------------------------------------------------------------------------------

\* What clients send.  Versions a client can have: the next one, or an old one.
Requests ==
    [kind : Kinds \ {"put"}, version : {0}]
    \cup [kind : Kinds \cap {"put"},
          version : {store.version, store.version + 1} \cap 1..MaxVersion]

Next ==
    \/ \E c \in Conns :
        \/ Dial(c)
        \/ \E r \in Requests : Send(c, r)
        \/ Receive(c)
        \/ CloseClient(c)
        \/ Accept(c)
        \/ \E r \in toServer[c] : HandleInput(c, r)
        \/ SendAnswer(c)
        \/ Detach(c)
        \/ RemoveConn(c)
    \/ Generate
    \/ WrapConn
    \/ Register
    \/ ServeReturn
    \/ \E b \in broadcasts : BroadcastLock(b)
    \/ BroadcastOne
    \/ BroadcastUnlock
    \/ ShutdownStart
    \/ ShutdownClose
    \/ DeadlockTimeout

Spec == Init /\ [][Next]_vars

\* Goroutines are scheduled.  A goroutine waiting for a lock gets its turn
\* (SF): s.mu and the Encoder's mutex, held while a write waits for room, do
\* not starve a waiter.
ServerFairness ==
    /\ WF_vars(Generate) /\ WF_vars(WrapConn) /\ SF_vars(Register)
    /\ WF_vars(ServeReturn)
    /\ SF_vars(\E b \in broadcasts : BroadcastLock(b))
    /\ SF_vars(BroadcastOne) /\ WF_vars(BroadcastUnlock)
    /\ SF_vars(ShutdownClose)

\* Clients keep reading, as the receive loop of a mount does.
ClientFairness == \A c \in Conns : WF_vars(Receive(c))

FairSpec == Spec /\ ServerFairness /\ ClientFairness

\* Clients may stop reading, which nothing in the code rules out; go-deadlock's
\* timer fires when a lock is not to be had.
StallSpec == Spec /\ ServerFairness /\ WF_vars(DeadlockTimeout)

--------------------------------------------------------------------------------
(* Properties. *)

\* A connection is in s.conns, and so in the fan-out, exactly from the moment
\* its input is handled until it no longer is: concurrent accepts, detaches and
\* the removal by id take away no other connection and leave none behind.
Registered ==
    Running => \A c \in Conns :
        c \in ToSet(conns) <=> handler[c].at \in {"reading", "answering", "removing"}

\* With an authHash, a connection that has not sent the password is sent no
\* value, neither as an answer nor by the fan-out that other connections'
\* goroutines run, and changes none.
AuthGate ==
    AuthHash => \A c \in Conns : ~authorized[c] =>
        /\ \A i \in 1..Len(toClient[c]) : toClient[c][i].kind # "put"
        /\ seen[c] = {}
        /\ ~handler[c].accepted

Attached(c) ==
    /\ socket[c] = "open"
    /\ handler[c].at \in {"reading", "answering"}
    /\ ~Locked(c)

\* When a broadcast is through, every connection that was authorized when it
\* started and is still attached has been sent the update, but the sender's,
\* though connections before it in s.conns have failed.
FanoutComplete ==
    (fan.active /\ fan.left = <<>>) =>
        \A c \in fan.due : (Attached(c) /\ id[c] # fan.excluded) =>
            \/ fan.version \in seen[c]
            \/ ForBroadcast(fan.version) \in ToSet(toClient[c])

\* A put whose fan-out is pending reaches every other attached connection that
\* stays attached: the broadcast gets s.mu, and room to write.
FanoutReaches ==
    \A c \in Conns : \A v \in Versionz :
        (Attached(c) /\ \E b \in broadcasts : b.version = v /\ b.excluded # id[c])
            ~> (v \in seen[c] \/ ~Attached(c))

\* "This method will return immediately", says Shutdown: whatever the clients
\* do, it returns.
ShutdownReturns == shutdown = "locking" ~> shutdown = "returned"

\* "The function will return (some time after) shutdown is called", says Serve.
ServeReturns == shutdown # "no" ~> serve.at = "returned"
================================================================================
