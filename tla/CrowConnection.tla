--------------------------- MODULE CrowConnection ---------------------------
(***************************************************************************)
(* One connection of a Crow server (crow_all.h, crow::Connection with its  *)
(* HTTPParser and its response).  The object is the only owner of itself:  *)
(* check_destroy deletes it when neither of the flags is_reading and       *)
(* is_writing is set, while completions of its socket, its deadline and a  *)
(* handler that answers later all refer to it.                             *)
(*                                                                         *)
(* The io_service runs completions one after the other in the order they   *)
(* were queued.  A write that goes through is queued before a read that    *)
(* completes after it or at the same time: the reactor looks at the writes *)
(* of a socket first, and not at all while completions are queued.         *)
(*                                                                         *)
(* A client need not wait for an answer before it sends more, and one read *)
(* may hold many requests: the parser hands over each as it comes to it,   *)
(* so that a second answer may be written over the first.  What the code   *)
(* keeps for every client and what only for one that waits is said apart;  *)
(* patient remembers which it is.                                          *)
(***************************************************************************)
EXTENDS Integers, Sequences, FiniteSets

CONSTANTS
  Requests,     \* the requests the client may send: see RequestType
  MaxRequests,  \* bound: requests on one connection
  Later         \* whether a handler may answer after it has returned

\* connection: the header, "proxied" for a Proxy-Connection: keep-alive, which
\* only the parser heeds; upgrade: "none", "h2c", "page" (a url without a
\* websocket rule) or "websocket"; known: the method is one of HTTPMethod.
RequestType ==
  [version : {"1.0", "1.1"}, connection : {"none", "close", "Keep-Alive", "proxied"},
   host : BOOLEAN, expect : BOOLEAN, known : BOOLEAN,
   upgrade : {"none", "h2c", "page", "websocket"}]

VARIABLES
  conn,    \* the object: its flags, and what its socket and its deadline hold
  ready,   \* completions queued in the io_service
  phase,   \* the parser: "start", "body" after the headers, or "dead" (s_dead)
           \* behind the last request, where it refuses whatever follows
  feeding, \* a read's completion still has bytes for the parser
  req,     \* the request whose headers were parsed
  peer,    \* "up", or "gone": the client closed its side
  held,    \* handlers that have returned and will end the response
  patient, \* history: the client waited for every answer and 100 Continue
  asked,   \* history: requests handled
  sent,    \* history: answers the socket has taken
  cause    \* history: "garbled", "timeout" or "gone" once one of them closed
           \* the socket, else "none"

connVars ==
  <<conn, ready, phase, feeding, req, peer, held, patient, asked, sent, cause>>

NoRequest == [version |-> "none"]

\* The object after start: start_deadline and do_read.
Started ==
  [exists |-> TRUE, open |-> TRUE, reading |-> TRUE, writing |-> FALSE,
   close |-> FALSE,        \* close_connection_
   after |-> FALSE,        \* need_to_call_after_handlers_
   later |-> FALSE,        \* need_to_start_read_after_complete_
   completed |-> FALSE,    \* res.completed_
   hooked |-> FALSE,       \* res.complete_request_handler_ calls this
   armed |-> TRUE,         \* the deadline is set
   read |-> TRUE,          \* a read is with the socket
   writes |-> <<>>,        \* writes with the socket: "continue" or "answer"
   aborted |-> <<>>]       \* completions of operations the socket dropped

ConnectionInit ==
  /\ conn = Started /\ ready = <<>>
  /\ phase = "start" /\ req = NoRequest /\ feeding = FALSE
  /\ held = 0 /\ patient = TRUE
  /\ peer = "up" /\ asked = 0 /\ sent = 0 /\ cause = "none"

Read(what) == [op |-> "read", what |-> what]
Write(what) == [op |-> "write", what |-> what]
Queued(op) == \E i \in DOMAIN ready : ready[i].op = op

----------------------------------------------------------------------------
(* Methods of Connection, as functions of the object *)

\* adaptor_.close: the socket drops its operations, the read first.
CloseSocket(c) ==
  [c EXCEPT !.open = FALSE, !.read = FALSE, !.writes = <<>>,
            !.aborted = @ \o (IF c.read THEN <<Read("dropped")>> ELSE <<>>)
                          \o [i \in DOMAIN c.writes |-> Write("dropped")]]

StartDeadline(c) == [c EXCEPT !.armed = TRUE]
CancelDeadline(c) == [c EXCEPT !.armed = FALSE]
DoRead(c) == [c EXCEPT !.reading = TRUE, !.read = TRUE]
DoWrite(c, what) == [c EXCEPT !.writing = TRUE, !.writes = Append(@, what)]

\* Mutant: the connection goes when it stops reading.
CheckDestroyMutant(c) == IF c.reading THEN c ELSE [c EXCEPT !.exists = FALSE, !.armed = FALSE]

\* check_destroy, and ~Connection, which cancels the deadline.
CheckDestroy(c) ==
  IF c.reading \/ c.writing THEN c ELSE [c EXCEPT !.exists = FALSE, !.armed = FALSE]

\* complete_request: the answer is written; a read that waited for it starts.
CompleteRequest(c) ==
  LET done == [c EXCEPT !.after = FALSE, !.hooked = FALSE]
      written == DoWrite(done, "answer")
  IN  IF ~c.open THEN done
      ELSE IF c.later THEN DoRead(StartDeadline([written EXCEPT !.later = FALSE]))
      ELSE written

\* response::end.
End(c) ==
  IF c.completed THEN c
  ELSE LET e == [c EXCEPT !.completed = TRUE]
       IN  IF c.hooked THEN CompleteRequest(e) ELSE e

\* A response that is assigned before it is ended.
EndAnew(c) == End([c EXCEPT !.completed = FALSE])

\* handle_header: Expect: 100-continue.
HandleHeader(c, r) ==
  IF r.version = "1.1" /\ r.expect THEN DoWrite(c, "continue") ELSE c

\* Whether r asks for the connection to be closed.
AsksClose(r) ==
  \/ r.version = "1.0" /\ r.connection \in {"none", "proxied"}
  \/ r.version = "1.1" /\ r.connection = "close"

\* The parser takes no request after r (http_should_keep_alive).
IsLast(r) ==
  IF r.version = "1.1" THEN r.connection = "close"
  ELSE r.connection \in {"none", "close"}

\* The requests that leave the connection open and ask for no other protocol.
KeptOpen ==
  {r \in RequestType : r.known /\ r.upgrade = "none" /\ ~AsksClose(r)}

Upgrades(r) == r.version = "1.1" /\ r.upgrade \in {"page", "websocket"}

\* handler_->handle_upgrade: a websocket takes the socket; any other rule ends
\* the response, which nobody writes.
HandleUpgrade(c, r) ==
  IF r.upgrade = "websocket" THEN [c EXCEPT !.open = FALSE] ELSE EndAnew(c)

\* handler_->handle of the router: the states the object may be left in.  A
\* method the router does not know is not answered.
RunHandler(c, r) ==
  IF ~r.known THEN {c} ELSE {End(c)} \cup (IF Later THEN {c} ELSE {})

\* handle: a whole request was parsed.  A request without a host is given a
\* new response; one that finds the response completed, the answer to the
\* request before it, is not given to a handler.
Handle(c, r) ==
  LET invalid == r.version = "1.1" /\ ~r.host
      taken == [CancelDeadline(c) EXCEPT !.close = @ \/ AsksClose(r) \/ Upgrades(r),
                                         !.completed = @ /\ ~invalid]
  IN  IF Upgrades(r) THEN {HandleUpgrade(taken, r)}
      ELSE IF invalid \/ taken.completed
      THEN {CompleteRequest([taken EXCEPT !.after = FALSE])}
      ELSE RunHandler([taken EXCEPT !.hooked = TRUE, !.after = TRUE], r)

\* Whether a handler was given r and left the response for later.
LeftForLater(c, r) == c.hooked /\ r.known /\ ~Upgrades(r)

\* Mutant: the socket is closed before the last answer is written.
CloseFirstMutant(c, ok) ==
  IF ~(ok /\ c.open) \/ c.close
  THEN CheckDestroy([CloseSocket(CancelDeadline(c)) EXCEPT !.reading = FALSE])
  ELSE IF ~c.after THEN DoRead(StartDeadline(c))
  ELSE [c EXCEPT !.later = TRUE]

\* The end of do_read's completion, after the parser was fed.
ReadDone(c, ok) ==
  IF ~(ok /\ c.open)
  THEN CheckDestroy([CloseSocket(CancelDeadline(c)) EXCEPT !.reading = FALSE])
  ELSE IF c.close
  THEN CheckDestroy([CancelDeadline(c) EXCEPT !.reading = FALSE])
  ELSE IF ~c.after THEN DoRead(StartDeadline(c))
  ELSE [c EXCEPT !.later = TRUE]

\* do_write's completion; the response is cleared.
WriteDone(c, ok) ==
  LET w == [c EXCEPT !.writing = FALSE, !.completed = FALSE]
  IN  IF ~ok THEN CheckDestroy(w)
      ELSE IF c.close THEN CheckDestroy(CloseSocket(w))
      ELSE w

----------------------------------------------------------------------------
(* The worker *)

\* The object becomes c, and what its socket dropped is queued behind queue.
Becomes(c, queue) ==
  /\ conn' = [c EXCEPT !.aborted = <<>>]
  /\ ready' = queue \o c.aborted

\* The parser has bytes: those left of a read, or those of the next completion.
HasBytes ==
  /\ conn.exists
  /\ feeding \/ (ready # <<>> /\ Head(ready) = Read("bytes"))

Behind == IF feeding THEN ready ELSE Tail(ready)

\* The parser has dealt with a piece of the read: there is more in it, or the
\* completion ends.  A client that waits sends one piece at a time.
Feed(c, more) ==
  /\ feeding' = more /\ patient' = (patient /\ ~feeding /\ ~more)
  /\ IF more THEN conn' = c /\ ready' = Behind
             ELSE Becomes(ReadDone(c, TRUE), Behind)

\* Bytes that complete nothing, or the headers of a request.
OnBytes ==
  /\ HasBytes
  /\ \/ /\ ~feeding /\ Feed(conn, FALSE)
        /\ UNCHANGED <<phase, req>>
     \/ /\ phase = "start" /\ asked < MaxRequests
        /\ \E r \in Requests, more \in BOOLEAN :
             Feed(HandleHeader(conn, r), more) /\ req' = r
        /\ phase' = "body"
  /\ UNCHANGED <<peer, held, asked, sent, cause>>

\* The end of a request whose headers were read, or a whole request whose
\* headers ask for nothing.  What follows a request to upgrade in one read is
\* not the parser's, and the read is refused for it.
OnMessage ==
  /\ HasBytes /\ phase # "dead" /\ asked < MaxRequests
  /\ \E r \in IF phase = "body" THEN {req}
              ELSE {q \in Requests : HandleHeader(conn, q) = conn},
        more \in BOOLEAN :
       /\ \E c \in Handle(conn, r) :
            /\ Feed(c, more)
            /\ held' = IF LeftForLater(c, r) THEN held + 1 ELSE held
       /\ phase' = IF IsLast(r) \/ (more /\ r.upgrade # "none")
                   THEN "dead" ELSE "start"
  /\ req' = NoRequest /\ asked' = asked + 1
  /\ UNCHANGED <<peer, sent, cause>>

\* A read that failed, or bytes that the parser refuses.
OnReadError ==
  /\ conn.exists /\ (feeding \/ (ready # <<>> /\ Head(ready).op = "read"))
  /\ Becomes(ReadDone(conn, FALSE), Behind)
  /\ feeding' = FALSE
  /\ cause' = IF cause # "none" THEN cause
              ELSE IF feeding \/ Head(ready).what = "bytes" THEN "garbled"
              ELSE "gone"
  /\ UNCHANGED <<phase, req, peer, held, patient, asked, sent>>

OnWrite ==
  /\ conn.exists /\ ~feeding /\ ready # <<>> /\ Head(ready).op = "write"
  /\ Becomes(WriteDone(conn, Head(ready).what = "ok"), Tail(ready))
  /\ UNCHANGED <<phase, feeding, req, peer, held, patient, asked, sent, cause>>

\* The deadline closes the socket.
Expire ==
  /\ conn.exists /\ ~feeding /\ conn.armed
  /\ Becomes(IF conn.open THEN CloseSocket(CancelDeadline(conn))
                          ELSE CancelDeadline(conn), ready)
  /\ cause' = IF cause = "none" THEN "timeout" ELSE cause
  /\ UNCHANGED <<phase, feeding, req, peer, held, patient, asked, sent>>

\* Handlers hold the response they will end later: all the same one.
Held == held > 0

\* A handler ends the response it kept, on the connection's io_service.
AnswerLater ==
  /\ conn.exists /\ ~feeding /\ Later /\ Held
  /\ Becomes(End(conn), ready) \/ Becomes(EndAnew(conn), ready)
  /\ held' = held - 1
  /\ UNCHANGED <<phase, feeding, req, peer, patient, asked, sent, cause>>

----------------------------------------------------------------------------
(* The socket and the client *)

\* A client that waits has nothing to send: its request is not answered, or
\* not asked for (100 Continue).
Waits ==
  \/ asked > sent
  \/ /\ phase = "body" /\ req.expect
     /\ conn.writes # <<>>

\* The socket takes the oldest write, or fails.
SocketWrites ==
  /\ conn.exists /\ conn.writes # <<>> /\ (patient => ~Queued("read"))
  /\ conn' = [conn EXCEPT !.writes = Tail(@)]
  /\ \/ ready' = Append(ready, Write("ok"))
     \/ peer = "gone" /\ ready' = Append(ready, Write("failed"))
  /\ sent' = IF Head(conn.writes) = "answer" THEN sent + 1 ELSE sent
  /\ UNCHANGED <<phase, feeding, req, peer, held, patient, asked, cause>>

SocketReads ==
  /\ conn.exists /\ conn.read
  /\ conn' = [conn EXCEPT !.read = FALSE]
  /\ \/ /\ peer = "up" /\ ready' = Append(ready, Read("bytes"))
        /\ patient' = (patient /\ ~Waits)
     \/ /\ peer = "gone" /\ ready' = Append(ready, Read("eof"))
        /\ UNCHANGED patient
  /\ UNCHANGED <<phase, feeding, req, peer, held, asked, sent, cause>>

PeerLeaves ==
  /\ conn.exists /\ peer = "up"
  /\ peer' = "gone"
  /\ UNCHANGED <<conn, ready, phase, feeding, req, held, patient, asked, sent, cause>>

RunReady == OnBytes \/ OnMessage \/ OnReadError \/ OnWrite

ConnectionNext ==
  \/ RunReady \/ Expire \/ AnswerLater
  \/ SocketWrites \/ SocketReads \/ PeerLeaves

\* The worker runs what is queued; time passes; a handler that answers later
\* does; the client takes what is written to it.
ConnectionFairness ==
  /\ WF_connVars(RunReady) /\ WF_connVars(Expire)
  /\ WF_connVars(AnswerLater) /\ WF_connVars(SocketWrites)

ConnectionSpec == ConnectionInit /\ [][ConnectionNext]_connVars /\ ConnectionFairness

----------------------------------------------------------------------------
(* Properties *)

Completion ==
  [op : {"read"}, what : {"bytes", "eof", "dropped"}]
    \cup [op : {"write"}, what : {"ok", "failed", "dropped"}]

Writes == {"continue", "answer"}

ObjectType ==
  [exists : BOOLEAN, open : BOOLEAN, reading : BOOLEAN, writing : BOOLEAN,
   close : BOOLEAN, after : BOOLEAN, later : BOOLEAN, completed : BOOLEAN,
   hooked : BOOLEAN, armed : BOOLEAN, read : BOOLEAN,
   writes : Seq(Writes), aborted : Seq(Completion)]

\* Every variable has its type.
ConnectionTypes ==
  /\ conn \in ObjectType /\ conn.aborted = <<>>
  /\ ready \in Seq(Completion)
  /\ phase \in {"start", "body", "dead"} /\ req \in Requests \cup {NoRequest}
  /\ feeding \in BOOLEAN /\ patient \in BOOLEAN /\ held \in Nat
  /\ peer \in {"up", "gone"} /\ asked \in 0 .. MaxRequests /\ sent \in Nat
  /\ cause \in {"none", "garbled", "timeout", "gone"}

\* Nothing that reads refers to the connection once it is deleted ("delete
\* this" at 9181): no read, no completion of one, no deadline; and of a client
\* that waits nothing at all.
NothingOutlives ==
  ~conn.exists => /\ ~conn.read /\ ~Queued("read") /\ ~feeding /\ ~conn.armed
                  /\ patient => conn.writes = <<>> /\ ready = <<>>

\* "res will be completed later by user" (9142): the response a handler kept is
\* still there, as part of the connection, until the handler ends it.
HeldResponseExists == patient /\ Held => conn.exists

\* The flags check_destroy goes by say what is outstanding: is_reading one
\* read, or a read put off until the answer is complete, whatever the client
\* does; is_writing one write, if the client waits.
FlagsMatchOperations ==
  conn.exists =>
    /\ conn.reading <=> conn.read \/ Queued("read") \/ conn.later \/ feeding
    /\ Cardinality({i \in DOMAIN ready : ready[i].op = "read"})
         + (IF conn.read \/ feeding THEN 1 ELSE 0) <= 1
    /\ patient =>
         /\ conn.writing <=> conn.writes # <<>> \/ Queued("write")
         /\ Len(conn.writes)
              + Cardinality({i \in DOMAIN ready : ready[i].op = "write"}) <= 1

\* The server never waits for its client without a deadline (start_deadline
\* goes with every do_read).
ReadsHaveDeadline == conn.read => conn.armed

\* "adaptor will close after write" (9133): a connection that was not cut off
\* has answered every request before it is deleted, if its client waited.
AnsweredBeforeDeleted ==
  ~conn.exists /\ cause = "none" /\ patient => sent = asked

\* A request that asks for the end is the last one: nothing more is read, and
\* only what its own read brought behind it may still be handled.
CloseIsLast == [][conn.close => asked' = asked \/ feeding]_connVars

\* What the constants stand for.
Bounds == Requests \subseteq RequestType /\ MaxRequests \in Nat /\ Later \in BOOLEAN

\* A write that went through is queued.
Wrote == \E i \in DOMAIN ready : ready[i] = Write("ok")

\* For every client: is_reading is exact, an object that reads has its deadline
\* unless it was closed, one that was told to close reads no more, and one that
\* is deleted neither reads nor is timed.
ReadingInStep ==
  /\ \A i, j \in DOMAIN ready :
       ready[i].op = "read" /\ ready[j].op = "read" => i = j
  /\ conn.read => ~Queued("read") /\ ~conn.later /\ ~feeding /\ conn.open
  /\ Queued("read") => ~conn.later /\ ~feeding
  /\ feeding => conn.exists /\ ~conn.later /\ ~patient
  /\ conn.armed => conn.exists /\ conn.open /\ conn.reading /\ ~conn.later /\ ~conn.close
  /\ IF conn.exists
     THEN /\ conn.reading <=> conn.read \/ Queued("read") \/ conn.later \/ feeding
          /\ conn.open /\ conn.reading /\ ~conn.later /\ ~feeding => conn.armed
          /\ conn.close /\ ~feeding => ~conn.reading
          /\ conn.after => conn.later \/ ~conn.reading \/ (feeding /\ ~conn.armed)
     ELSE ~conn.reading /\ ~conn.read /\ ~Queued("read")

\* The rest is of a client that waits.
\* One write at most is outstanding, one handler at most holds the response,
\* and no more is answered than was asked.
OneAtATime ==
  /\ conn.writes \in {<<>>, <<"continue">>, <<"answer">>}
  /\ sent <= asked
  /\ held \in {0, 1} /\ (held = 1 /\ conn.exists => conn.later)

\* One read and one write at most are queued, a write that went through first,
\* and a request is not taken up while a write is outstanding.
CompletionsInStep ==
  /\ Len(ready) <= 2
  /\ Len(ready) = 2 => ready[1].op # ready[2].op /\ ready[2] # Write("ok")
  /\ ready # <<>> /\ ready[1] = Read("bytes") => ~conn.writing

\* An object that exists is reading with its deadline, holds a request whose
\* handler has not answered, writes its last answer, or waits for the
\* completions of a socket that was closed.
ObjectInStep ==
  /\ conn.exists => conn.reading \/ conn.writing
  /\ conn.read => conn.reading /\ ~Queued("read")
  /\ conn.writes # <<>> => conn.writing /\ ~Queued("write")
  /\ conn.armed <=> conn.exists /\ conn.open /\ conn.reading /\ ~conn.later
  /\ conn.exists =>
       /\ conn.reading <=> conn.read \/ Queued("read") \/ conn.later
       /\ conn.writing <=> conn.writes # <<>> \/ Queued("write")
       /\ conn.close => conn.open /\ ~conn.reading
       /\ conn.reading \/ conn.close \/ ~(conn.open \/ Wrote)
       /\ conn.completed => conn.writing
       /\ conn.after <=> conn.later
       /\ conn.hooked <=> conn.later
       /\ conn.later => /\ conn.open /\ ~conn.read /\ ~Queued("read")
                        /\ ~conn.writing /\ ~conn.completed
       /\ ~conn.open => ~conn.read /\ conn.writes = <<>>

\* The client waits for what is being written.
ClientInStep ==
  /\ phase = "body" => req \in Requests
  /\ conn.writes = <<"answer">> \/ (conn.exists /\ conn.later) => sent < asked
  /\ conn.writes = <<"continue">> => phase = "body" /\ req.expect

PatientInStep ==
  /\ OneAtATime /\ NothingOutlives /\ CompletionsInStep /\ ObjectInStep /\ ClientInStep

ConnectionInStep ==
  ConnectionTypes /\ ReadingInStep /\ (patient => PatientInStep)

\* What holds whatever the handlers do, of every client as far as its reads go
\* and of a client that waits altogether: the object outlives all that refers
\* to it, its flags say what is outstanding, no read goes without a deadline,
\* and no read follows a request that asked for the end.
ConnectionIsSafe ==
  /\ [](ConnectionInStep /\ NothingOutlives /\ FlagsMatchOperations /\ ReadsHaveDeadline)
  /\ CloseIsLast

\* Rules that answer at once, every request: no upgrade, no unknown method.
AnswersAtOnce == ~Later /\ \A r \in Requests : r.known /\ ~Upgrades(r)

\* A request of a client that waits is answered, or its answer is being
\* written, unless the connection was cut off.
AnswersInStep ==
  patient =>
    /\ conn.exists /\ ~conn.open => cause # "none"
    /\ conn.exists => ~conn.later
    /\ conn.open /\ conn.exists =>
         asked = IF conn.writes = <<"answer">> THEN sent + 1 ELSE sent
    /\ AnsweredBeforeDeleted
=============================================================================
