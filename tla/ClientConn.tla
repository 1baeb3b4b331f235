------------------------------ MODULE ClientConn ------------------------------
(***************************************************************************)
(* Client: goroutines that send, and one that receives, share one cached   *)
(* connection, which any of them dials when there is none and closes when  *)
(* an operation on it fails.  At the other end of every connection is a    *)
(* handler with a Decoder of its own.                                      *)
(*                                                                         *)
(* A Write is one step, since the encoder's lock is held over it; it may   *)
(* fail after a part of the message.  A link that goes down delivers a     *)
(* prefix of what is under way, in both directions.                        *)
(***************************************************************************)
EXTENDS Wire

CONSTANTS Senders, Receiver, \* goroutines
          Messages,     \* what is sent
          Replies,      \* what the server may answer
          NumConns,     \* bound: connections dialled
          MaxSends,     \* bound: calls of Send
          MaxFailures   \* bound: writes, dials and links that fail, calls of Close

ASSUME ClientAssumption ==
    /\ Receiver \notin Senders
    /\ NumConns \in Nat /\ MaxSends \in Nat /\ MaxFailures \in Nat

VARIABLES
    cur,       \* c.conn, or NoConn
    proc,      \* proc[p]: where a goroutine is in doWithConn
    conn,      \* conn[c]: the two ends of a connection and what is under way
    decoder,   \* c.decoder, which serves one connection after the other
    sent,      \* history: messages written to c in full
    got,       \* history: messages the server has decoded from c
    answered,  \* history: messages the server has written to c
    received,  \* history: messages Receive has returned from c
    panicked,  \* a decoder has panicked, in the client or the server
    sends, failures

histories == <<sent, got, answered, received>>
vars == <<cur, proc, conn, decoder, histories, panicked, sends, failures>>

NoConn == 0
Conns  == 1..NumConns
Procs  == Senders \cup {Receiver}
NoMessage == NewMessage(KindError, 0, <<>>, <<>>, 0)

\* client: the client's end.  up: the link.  handler: the server's decoding
\* loop.  toServer, toClient: cells under way.  half: a write failed after a
\* part of its message; torn: and another one was made after it.
Fresh == [client |-> "none", up |-> TRUE, handler |-> "reading", decoder |-> NewDecoder,
          toServer |-> <<>>, toClient |-> <<>>, half |-> FALSE, torn |-> FALSE]

Idle == [at |-> "idle", conn |-> NoConn, msg |-> NoMessage]

Histories(S) == [Conns -> Seq(S)]

TypeOK ==
    /\ cur \in {NoConn} \cup {c \in Conns : conn[c].client = "open"}
    /\ \A p \in Procs :
        /\ proc[p].at \in {"idle", "dialling", "using", "failed"}
        /\ proc[p].at = "using" => conn[proc[p].conn].client # "none"
    /\ \A c \in Conns :
        /\ conn[c].client \in {"none", "open", "closed"}
        /\ conn[c].handler \in {"reading", "done"}
        /\ conn[c].toServer \in Seq(Cell) /\ conn[c].toClient \in Seq(Cell)
        /\ conn[c].torn => conn[c].half
    /\ sent \in Histories(Messages) /\ answered \in Histories(Replies)
    /\ panicked \in BOOLEAN
    /\ sends \in 0..MaxSends /\ failures \in 0..MaxFailures

Init ==
    /\ cur = NoConn
    /\ proc = [p \in Procs |-> Idle]
    /\ conn = [c \in Conns |-> Fresh]
    /\ decoder = NewDecoder
    /\ sent = [c \in Conns |-> <<>>] /\ got = sent
    /\ answered = sent /\ received = sent
    /\ panicked = FALSE
    /\ sends = 0 /\ failures = 0

CountFailure == failures < MaxFailures /\ failures' = failures + 1

\* A panic ends the process.
At(p, at)   == ~panicked /\ proc[p].at = at
GoTo(p, at) == proc' = [proc EXCEPT ![p].at = at]
Return(p)   == proc' = [proc EXCEPT ![p] = Idle]

--------------------------------------------------------------------------------
(* Calls of Send and Receive: doWithConn. *)

Send(p, m) ==
    /\ At(p, "idle")
    /\ sends < MaxSends
    /\ sends' = sends + 1
    /\ proc' = [proc EXCEPT ![p] = [at |-> "dialling", conn |-> NoConn, msg |-> m]]
    /\ UNCHANGED <<cur, conn, decoder, histories, panicked, failures>>

Receive ==
    /\ At(Receiver, "idle")
    /\ GoTo(Receiver, "dialling")
    /\ UNCHANGED <<cur, conn, decoder, histories, panicked, sends, failures>>

\* getCachedConn, all of it under c.mu.
Dial(c) ==
    /\ cur = NoConn
    /\ conn[c].client = "none"
    /\ \A b \in 1..(c - 1) : conn[b].client # "none"
    /\ conn' = [conn EXCEPT ![c].client = "open"]
    /\ cur' = c
    /\ UNCHANGED failures

GetCachedConn(p) ==
    /\ At(p, "dialling")
    /\ \/ cur # NoConn /\ UNCHANGED <<cur, conn, failures>>
       \/ \E c \in Conns : Dial(c)
    /\ proc' = [proc EXCEPT ![p].at = "using", ![p].conn = cur']
    /\ UNCHANGED <<decoder, histories, panicked, sends>>

DialFails(p) ==
    /\ At(p, "dialling")
    /\ cur = NoConn
    /\ CountFailure
    /\ GoTo(p, "failed")
    /\ UNCHANGED <<cur, conn, decoder, histories, panicked, sends>>

--------------------------------------------------------------------------------
(* Send: the encoder writes to the connection it was called with. *)

Using(p, c) == At(p, "using") /\ proc[p].conn = c

\* n cells are written; on a link that is down they are lost.
Written(c, cells) ==
    [conn EXCEPT ![c].toServer = IF conn[c].up THEN @ \o cells ELSE @,
                 ![c].torn = conn[c].half]

Write(p, c) ==
    /\ Using(p, c) /\ p \in Senders
    /\ conn[c].client = "open"
    /\ conn' = Written(c, Encode(proc[p].msg))
    /\ sent' = [sent EXCEPT ![c] = Append(@, proc[p].msg)]
    /\ Return(p)
    /\ UNCHANGED <<cur, decoder, got, answered, received, panicked, sends, failures>>

\* The deadline passes, or the link is down: some of the message was written.
WriteFails(p, c) ==
    /\ Using(p, c) /\ p \in Senders
    /\ conn[c].client = "open"
    /\ CountFailure
    /\ \E n \in 0..(Len(Encode(proc[p].msg)) - 1) :
        conn' = [Written(c, SubSeq(Encode(proc[p].msg), 1, n)) EXCEPT ![c].half = TRUE]
    /\ GoTo(p, "failed")
    /\ UNCHANGED <<cur, decoder, histories, panicked, sends>>

WriteToClosed(p, c) ==
    /\ Using(p, c) /\ p \in Senders
    /\ conn[c].client = "closed"
    /\ GoTo(p, "failed")
    /\ UNCHANGED <<cur, conn, decoder, histories, panicked, sends, failures>>

--------------------------------------------------------------------------------
(* Receive: the decoder reads from the connection it was called with. *)

ReadMessage(c) ==
    LET result == Decode(decoder, conn[c].toClient)
    IN  /\ Using(Receiver, c)
        /\ conn[c].client = "open"
        /\ ~result.d.err
        /\ decoder' = Kept(result.d)
        /\ panicked' = result.d.panic
        /\ received' = [received EXCEPT ![c] = Append(@, result.m)]
        /\ conn' = [conn EXCEPT ![c].toClient = result.d.input]
        /\ Return(Receiver)
        /\ UNCHANGED <<cur, sent, got, answered, sends, failures>>

\* The read fails, with a part of a message read.
ReadFails(c) ==
    /\ Using(Receiver, c)
    /\ conn[c].client = "closed" \/ ~conn[c].up
    /\ \E n \in 0..Len(conn[c].toClient) :
        LET result == Decode(decoder, SubSeq(conn[c].toClient, 1, n))
        IN  /\ result.d.err
            /\ conn[c].client = "open" => n = Len(conn[c].toClient)
            /\ decoder' = Kept(result.d)
            /\ panicked' = result.d.panic
            /\ conn' = [conn EXCEPT ![c].toClient = <<>>]
    /\ GoTo(Receiver, "failed")
    /\ UNCHANGED <<cur, histories, sends, failures>>

--------------------------------------------------------------------------------
(* Closing. *)

\* closeBoth: the connection that was used, and the one in use now.
Closed(cs) ==
    [c \in Conns |-> IF c \in cs /\ conn[c].client = "open"
                     THEN [conn[c] EXCEPT !.client = "closed"] ELSE conn[c]]

CloseBothForgetting(cached) == conn' = Closed({cached, cur}) /\ cur' = cur
CloseCached(cached)         == conn' = Closed({cached}) /\ cur' = NoConn
CloseBoth(cached)           == conn' = Closed({cached, cur}) /\ cur' = NoConn

ReturnError(p) ==
    /\ At(p, "failed")
    /\ CloseBoth(proc[p].conn)
    /\ Return(p)
    /\ UNCHANGED <<decoder, histories, panicked, sends, failures>>

Close ==
    /\ ~panicked
    /\ CountFailure
    /\ CloseBoth(NoConn)
    /\ UNCHANGED <<proc, decoder, histories, panicked, sends>>

--------------------------------------------------------------------------------
(* The other end, and the link. *)

Made(c)    == ~panicked /\ conn[c].client # "none"
Reading(c) == Made(c) /\ conn[c].handler = "reading"

\* handleInput decodes a message and sends its answer.  The Encode may block for
\* as long as the client does not read, so nothing says that this happens.
ServerDecode(c, reply) ==
    LET result == Decode(conn[c].decoder, conn[c].toServer)
    IN  /\ Reading(c)
        /\ ~result.d.err
        /\ panicked' = result.d.panic
        /\ got' = [got EXCEPT ![c] = Append(@, result.m)]
        /\ answered' = [answered EXCEPT ![c] = Append(@, reply)]
        /\ conn' = [conn EXCEPT ![c].decoder = Kept(result.d),
                                ![c].toServer = result.d.input,
                                ![c].toClient = IF conn[c].up /\ conn[c].client = "open"
                                                THEN @ \o Encode(reply) ELSE @]
        /\ UNCHANGED <<cur, proc, decoder, sent, received, sends, failures>>

\* The client closed the connection, or the link is down: handleInput ends with
\* the first message it cannot read in full.  A client that closes with answers
\* unread resets the connection, and what it has sent may be lost from any point.
ServerDone(c) ==
    /\ Reading(c)
    /\ conn[c].client = "closed" \/ ~conn[c].up
    /\ \E n \in 0..Len(conn[c].toServer) :
        LET result == Decode(conn[c].decoder, SubSeq(conn[c].toServer, 1, n))
        IN  /\ result.d.err
            /\ conn[c].client = "open" => n = Len(conn[c].toServer)
            /\ panicked' = result.d.panic
    /\ conn' = [conn EXCEPT ![c].handler = "done", ![c].toServer = <<>>,
                            ![c].decoder = NewDecoder]
    /\ UNCHANGED <<cur, proc, decoder, histories, sends, failures>>

LinkDown(c) ==
    /\ Made(c) /\ conn[c].up
    /\ CountFailure
    /\ \E n \in 0..Len(conn[c].toServer), k \in 0..Len(conn[c].toClient) :
        conn' = [conn EXCEPT ![c].up = FALSE,
                             ![c].toServer = SubSeq(@, 1, n),
                             ![c].toClient = SubSeq(@, 1, k)]
    /\ UNCHANGED <<cur, proc, decoder, histories, panicked, sends>>

Next ==
    \/ \E p \in Senders, m \in Messages : Send(p, m)
    \/ Receive
    \/ \E p \in Procs : GetCachedConn(p) \/ DialFails(p) \/ ReturnError(p)
    \/ \E p \in Procs, c \in Conns : Write(p, c) \/ WriteFails(p, c) \/ WriteToClosed(p, c)
    \/ \E c \in Conns :
        \/ ReadMessage(c) \/ ReadFails(c)
        \/ \E reply \in Replies : ServerDecode(c, reply)
        \/ ServerDone(c) \/ LinkDown(c)
    \/ Close

Spec == Init /\ [][Next]_vars

\* Goroutines run on, and reads of a closed connection return.  For ReadFails, weak
\* fairness is written with the predicate that says when it is enabled.
Fairness ==
    /\ \A p \in Procs : WF_vars(ReturnError(p))
    /\ \A c \in Conns :
        \/ []<>~(Using(Receiver, c) /\ conn[c].client = "closed")
        \/ []<><<ReadFails(c)>>_vars

FairSpec == Spec /\ Fairness

--------------------------------------------------------------------------------
(* Properties. *)

IsPrefixOf(s, t) == Len(s) <= Len(t) /\ s = SubSeq(t, 1, Len(s))

\* Whatever breaks in the middle of a message, and whichever connections the
\* client's decoder has served before, each end decodes exactly the messages
\* the other one wrote, in their order.  Excepted is what the server decodes
\* from a connection that was written to after a write that failed half way.
WholeMessages ==
    \A c \in Conns :
        /\ IsPrefixOf(received[c], answered[c])
        /\ ~conn[c].torn => IsPrefixOf(got[c], sent[c])

\* A message that arrives whole is decoded without a panic, whatever the decoder's
\* buffer holds from messages before it, broken ones and other connections'
\* included.  Excepted is again a connection written to after a failed write.
WholeNeverPanics ==
    [][\A c \in Conns :
          (received'[c] # received[c] \/ (~conn[c].torn /\ got'[c] # got[c])) => ~panicked']_vars

\* "It will return the first read error encountered": a Decode whose reader fails
\* returns that error, and does not panic over what its buffer held before.
NoPanic == (\A c \in Conns : ~conn[c].torn) => ~panicked

\* "it is up to the client to serialize access to the writer as necessary": what
\* the server decodes are the messages that Send wrote.
DecodedIsWritten == \A c \in Conns : IsPrefixOf(got[c], sent[c])

\* Once a goroutine has replaced the connection that Receive waits on, Receive
\* returns: it does not wait for ever for answers that come on another one.
StaleReaderFreed ==
    \A c \in Conns :
        (Using(Receiver, c) /\ cur # c) ~> ~Using(Receiver, c)
================================================================================
