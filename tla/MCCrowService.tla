---------------------------- MODULE MCCrowService ----------------------------
(***************************************************************************)
(* The parts of crow_all.h that keep connections alive and end them, each  *)
(* on its own small instances: the timer queue of a worker, a connection,  *)
(* a websocket whose peer leaves, and the server with its workers.  The    *)
(* parts keep separate state; scene, fixed by the initial state, says      *)
(* which instance runs, and the other parts stay as they were made.        *)
(*                                                                         *)
(* The constants of the modules extended here are those of a worker that   *)
(* other handlers keep busy, of a connection that may send any request and *)
(* be answered later, and of a server with three workers that a thread of  *)
(* the application stops.  The scenes below differ from these.             *)
(***************************************************************************)
EXTENDS TimerQueue, CrowConnection, CrowServer

VARIABLES
    scene,
    state_, remaining_length_, mask_, mini_header_, fragment_, message_,
    is_binary_, is_reading, close_connection_, has_sent_close_,
    has_recv_close_, is_close_handler_called_, sending_buffers_,
    write_buffers_, object, open, arrived, pos, leaver, posts, got, wire, calls

(* A worker that is always in time.                                        *)
OnTime == INSTANCE TimerQueue WITH MaxKey <- 4, MaxNow <- 8, Punctual <- TRUE

(* What the pages of the challenge see: requests of both versions that keep *)
(* the connection, end it, or end it for the parser alone or for Crow      *)
(* alone, one without a host, 100-continue, and h2c, served as usual.      *)
Plain == [version |-> "1.1", connection |-> "none", host |-> TRUE,
          expect |-> FALSE, known |-> TRUE, upgrade |-> "none"]
PageRequests ==
    {[Plain EXCEPT !.connection = k] : k \in {"none", "close"}}
    \cup {[Plain EXCEPT !.version = "1.0", !.connection = k] :
             k \in {"none", "close", "proxied"}}
    \cup {[Plain EXCEPT !.host = FALSE], [Plain EXCEPT !.expect = TRUE],
          [Plain EXCEPT !.upgrade = "h2c"]}
ToWebsocket ==
    {[Plain EXCEPT !.upgrade = u] : u \in {"none", "websocket"}}
AllRequests == PageRequests \cup ToWebsocket

(* Pages; handlers that answer later; an upgrade to a websocket.           *)
Pages == INSTANCE CrowConnection WITH
    Requests <- PageRequests, Later <- FALSE, MaxRequests <- 2
Postponed == INSTANCE CrowConnection WITH
    Requests <- KeptOpen \cap PageRequests, MaxRequests <- 2
Upgrade == INSTANCE CrowConnection WITH
    Requests <- ToWebsocket, Later <- FALSE, MaxRequests <- 2

(* A server that signals stop.                                             *)
Signalled == INSTANCE CrowServer WITH Clients <- 3, OwnerStops <- FALSE

(* A peer that says goodbye between frames.                                *)
Frames  == INSTANCE FrameStreams
Goodbye == INSTANCE WebSocket WITH
    peer <- leaver, Stream <- Frames!ShortStream, Stops <- Frames!ShortEnds,
    Farewells <- Frames!ShortEnds, BufferSize <- 8, Sends <- 0, Closes <- 0,
    Answers <- TRUE, Stale <- {0}

websocketVars ==
    <<state_, remaining_length_, mask_, mini_header_, fragment_,
      message_, is_binary_, is_reading, close_connection_,
      has_sent_close_, has_recv_close_, is_close_handler_called_,
      sending_buffers_, write_buffers_, object, open, arrived, pos,
      leaver, posts, got, wire, calls>>
service == <<scene, timerVars, connVars, serverVars, websocketVars>>

ServiceInit ==
    /\ scene \in {"late", "on time", "pages", "later", "upgrade",
                  "served", "signalled", "goodbye"}
    /\ QueueInit
    /\ ConnectionInit
    /\ IF scene = "served" THEN ServerInit ELSE Signalled!ServerInit
    /\ Goodbye!Init /\ (scene # "goodbye" => ~is_binary_)

Timers(s, A) ==
    scene = s /\ A /\ UNCHANGED <<scene, connVars, serverVars, websocketVars>>
Connection(s, A) ==
    scene = s /\ A /\ UNCHANGED <<scene, timerVars, serverVars, websocketVars>>
Server(s, A) ==
    scene = s /\ A /\ UNCHANGED <<scene, timerVars, connVars, websocketVars>>
Websocket(A) ==
    scene = "goodbye" /\ A /\ UNCHANGED <<scene, timerVars, connVars, serverVars>>

ServiceNext ==
    \/ Timers("late", QueueNext)
    \/ Timers("on time", OnTime!QueueNext)
    \/ Connection("pages", Pages!ConnectionNext)
    \/ Connection("later", Postponed!ConnectionNext)
    \/ Connection("upgrade", Upgrade!ConnectionNext)
    \/ Server("served", ServerNext)
    \/ Server("signalled", Signalled!ServerNext)
    \/ Websocket(Goodbye!Next)

(* Fairness of the parts themselves: io_services and threads run on, and    *)
(* the peer of the websocket leaves in the end.                             *)
Connected(A) == \E s \in {"pages", "later"} : Connection(s, A)
ServerRuns(A) == \E s \in {"served", "signalled"} : Server(s, A)

ServiceFairness ==
    /\ WF_service(Timers("late", Process))
    /\ WF_service(Timers("late", Pass))
    /\ WF_service(\/ Connection("pages", Pages!RunReady)
                  \/ Connection("later", Postponed!RunReady))
    /\ WF_service(Connected(Expire))
    /\ WF_service(Connected(SocketWrites))
    /\ WF_service(Connection("later", Postponed!AnswerLater))
    /\ WF_service(ServerRuns(RunSteps))
    /\ WF_service(ServerRuns(Stopping))
    /\ \A w \in Workers : WF_service(ServerRuns(Work(w)))
    /\ WF_service(Websocket(Goodbye!Construct))
    /\ WF_service(Websocket(Goodbye!Reads))
    /\ WF_service(Websocket(Goodbye!Written))
    /\ WF_service(Websocket(Goodbye!Arrive))
    /\ WF_service(Websocket(Goodbye!PeerLeaves))

ServiceSpec == ServiceInit /\ [][ServiceNext]_service /\ ServiceFairness

-----------------------------------------------------------------------------
(* The invariants the proofs rest on hold of each scene with its own        *)
(* constants, and so do the hypotheses on these.                            *)
ScenesInStep ==
    /\ Sizes /\ OnTime!Sizes /\ Bounds /\ Concurrency
    /\ CASE scene = "late"      -> TimersInStep
         [] scene = "on time"   -> OnTime!TimersInStep
         [] scene = "pages"     -> Pages!ConnectionInStep
         [] scene = "later"     -> Postponed!ConnectionInStep
         [] scene = "upgrade"   -> Upgrade!ConnectionInStep
         [] scene = "signalled" -> Signalled!ServerInStep
         [] scene = "goodbye"   -> Goodbye!TypeOK
         [] OTHER               -> TRUE

(* A connection whose rules answer at once has answered every request of a  *)
(* client that waits before it is deleted, unless it was cut off ("adaptor  *)
(* will close after write", crow_all.h:9133); a worker in time is late by   *)
(* one period at most with any deadline (crow_all.h:9357-9368).             *)
NobodyIsForgotten ==
    /\ ScenesInStep
    /\ scene = "pages" =>
          Pages!AnswersAtOnce /\ Pages!AnswersInStep /\ Pages!AnsweredBeforeDeleted
    /\ scene = "on time" => OnTime!NoTimerIsLate

(* No connection is served for ever: its deadline fires unless it is        *)
(* cancelled or started again, and its reads end when its client is silent. *)
(* If the client waits for its answers, the connection is then deleted, and *)
(* every request is answered or its connection ends.  (A client that sends  *)
(* on may leave a connection that nobody deletes: crow_all.h:9118-9125 with *)
(* 9155-9166.)  A peer that leaves a websocket between frames leaves no     *)
(* object behind (crow_all.h:6332-6352, 7092-7100, 9141, 9195).             *)
ConnectionsEnd ==
    /\ \A c \in Conns :
          (scene = "late" /\ Armed(c) \in 0..3) ~> Armed(c) \notin 0..3
    /\ scene = "pages" ~> ~conn.reading /\ (conn.exists => ~patient)
    /\ (scene = "later" /\ asked > sent) ~> (sent = asked \/ ~conn.exists \/ ~patient)
    /\ (scene = "goodbye" /\ object = "alive" /\ leaver = "away") ~> object # "alive"

(* A worker in which handlers threw still starts what is posted to it       *)
(* (crow_all.h:9371-9385), and once stop() was called every worker hears of *)
(* it and run() returns: when a signal called it (9402-9405, 9418), and     *)
(* when another thread did after the pool was filled, however few of the    *)
(* workers had started (9421).  One that came before is missed by the       *)
(* io_services made after it (9619, 9312).                                  *)
WorkersGoOn ==
    /\ \A w \in Workers : (scene = "signalled" /\ posted[w] > 0)
                               ~> (posted[w] = 0 \/ w \in stopped)
    /\ (scene = "signalled" /\ -1 \in stopped) ~> main = "returned"
    /\ (/\ scene = "served" /\ io_service_pool_ = Workers
        /\ stopping = [by |-> "owner", next |-> 0]) ~> main = "returned"

(* Whatever the service holds on to comes to its end.                       *)
ServiceGoesOn == ConnectionsEnd /\ WorkersGoOn
=============================================================================
