------------------------------ MODULE CrowServer ------------------------------
(***************************************************************************)
(* The server of crow_all.h (Server::run and Crow::run): one io_service    *)
(* and thread that accept connections, a pool of workers that serve them   *)
(* in turn, the barrier at the start, and stop(), called by a signal or by *)
(* another thread of the application that waited for the start.            *)
(*                                                                         *)
(* Workers are numbered from 0 as in io_service_pool_; -1 stands for the   *)
(* server's own io_service_.                                               *)
(***************************************************************************)
EXTENDS Integers, FiniteSets

CONSTANTS
    concurrency_,   \* workers (App::concurrency makes it at least 1)
    Clients,        \* connections that are attempted
    OwnerStops,     \* a thread of the application waits for the start, stops
    Crashes         \* handlers that throw

Workers == 0..(concurrency_ - 1)
io_service_ == -1
Services == Workers \cup {io_service_}

VARIABLES
    main,              \* where the thread in run() is
    io_service_pool_,  \* the io_services made so far
    prepared,          \* workers whose date getter and timer queue are set
    worker,            \* where each worker thread is
    init_count,
    roundrobin_index_,
    offered,           \* the worker of the connection async_accept waits with
    offers,            \* how often each worker was picked
    posted, started,   \* connections whose start() waits, or ran, by worker
    clients, crashes,  \* what is left of the bounds
    server_started_,   \* notify_server_start was called
    owner,             \* the application's other thread
    stopped,           \* io_services that were stopped
    stopping           \* who runs stop(), and what it stops next

pools      == <<io_service_pool_, prepared, worker, init_count>>
accepts    == <<roundrobin_index_, offered, offers, posted, started, clients>>
stops      == <<stopped, stopping>>
serverVars == <<main, pools, accepts, crashes, server_started_, owner, stops>>

Nobody == [by |-> "nobody", next |-> -1]

ServerInit ==
    /\ main = "validate" /\ io_service_pool_ = {} /\ prepared = {}
    /\ worker = [w \in Workers |-> "none"] /\ init_count = 0
    /\ roundrobin_index_ = 0 /\ offered = -1 /\ offers = [w \in Workers |-> 0]
    /\ posted = [w \in Workers |-> 0] /\ started = [w \in Workers |-> 0]
    /\ clients = Clients /\ crashes = Crashes
    /\ server_started_ = FALSE /\ owner = IF OwnerStops THEN "new" ELSE "done"
    /\ stopped = {} /\ stopping = Nobody

-----------------------------------------------------------------------------
(* The thread that calls run(). *)

(* Crow::run: the server is made, then its start is announced, then it runs. *)
notify_server_start ==
    /\ main = "validate"
    /\ server_started_' = TRUE
    /\ owner' = IF owner = "waits" THEN "awake" ELSE owner
    /\ main' = "pool"
    /\ UNCHANGED <<pools, accepts, crashes, stops>>

EmplaceService ==
    /\ main = "pool"
    /\ LET n == Cardinality(io_service_pool_) IN
       /\ io_service_pool_' = io_service_pool_ \cup {n}
       /\ main' = IF n + 1 = concurrency_ THEN "threads" ELSE "pool"
    /\ UNCHANGED <<prepared, worker, init_count, accepts, crashes, server_started_,
                   owner, stops>>

(* The next worker thread, or the barrier when all are there. *)
StartThread ==
    /\ main = "threads"
    /\ LET none == {w \in Workers : worker[w] = "none"}
           i    == CHOOSE w \in none : \A v \in none : w <= v IN
       /\ worker' = [worker EXCEPT ![i] = "init"]
       /\ main' = IF none = {i} THEN "barrier" ELSE "threads"
    /\ UNCHANGED <<io_service_pool_, prepared, init_count, accepts, crashes,
                   server_started_, owner, stops>>

(* Mutant: the server does not wait for its workers. *)
HastyBarrier == main = "barrier"

(* while(concurrency_ != init_count) yield *)
Barrier == main = "barrier" /\ init_count = concurrency_

pick_io_service ==
    IF roundrobin_index_ + 1 >= concurrency_ THEN 0 ELSE roundrobin_index_ + 1

do_accept ==
    /\ roundrobin_index_' = pick_io_service
    /\ offered' = pick_io_service
    /\ offers' = [offers EXCEPT ![pick_io_service] = @ + 1]

FirstAccept ==
    /\ Barrier
    /\ do_accept
    /\ main' = "io"
    /\ UNCHANGED <<pools, posted, started, clients, crashes, server_started_,
                   owner, stops>>

(* io_service_.run() returns when it was stopped and no handler runs. *)
IoReturns == main = "io" /\ io_service_ \in stopped /\ stopping.by # "signal"

JoinIo ==
    /\ IoReturns
    /\ main' = "futures"
    /\ UNCHANGED <<pools, accepts, crashes, server_started_, owner, stops>>

(* The futures of std::async wait for their threads when they go. *)
FuturesDone == main = "futures" /\ \A w \in Workers : worker[w] = "over"

Return ==
    /\ FuturesDone
    /\ main' = "returned"
    /\ UNCHANGED <<pools, accepts, crashes, server_started_, owner, stops>>

-----------------------------------------------------------------------------
(* The handlers of io_service_, run by a thread of its own. *)

AcceptServes == main = "io" /\ io_service_ \notin stopped /\ stopping.by # "signal"

(* A connection came, or async_accept failed; the next one is offered. *)
Accept ==
    /\ AcceptServes /\ clients > 0
    /\ clients' = clients - 1
    /\ \E ec \in BOOLEAN :
          posted' = IF ec THEN posted ELSE [posted EXCEPT ![offered] = @ + 1]
    /\ do_accept
    /\ UNCHANGED <<main, pools, started, crashes, server_started_, owner, stops>>

Signal ==
    /\ AcceptServes
    /\ stopping.by = "nobody"
    /\ stopping' = [by |-> "signal", next |-> 0]
    /\ stopped' = stopped \cup {io_service_}
    /\ UNCHANGED <<main, pools, accepts, crashes, server_started_, owner>>

ShortStopNext ==
    IF stopping.next + 1 \in io_service_pool_
    THEN /\ stopped' = stopped \cup {stopping.next}
         /\ stopping' = [stopping EXCEPT !.next = @ + 1]
    ELSE stopping' = [by |-> "past", next |-> -1] /\ UNCHANGED stopped

(* stop() goes through the pool as it finds it. *)
StopNext ==
    IF stopping.next \in io_service_pool_
    THEN /\ stopped' = stopped \cup {stopping.next}
         /\ stopping' = [stopping EXCEPT !.next = @ + 1]
    ELSE stopping' = [by |-> "past", next |-> -1] /\ UNCHANGED stopped

Stopping ==
    /\ stopping.by \in {"signal", "owner"}
    /\ StopNext
    /\ UNCHANGED <<main, pools, accepts, crashes, server_started_, owner>>

-----------------------------------------------------------------------------
(* A worker. *)

(* Its date getter and its timer queue, then init_count. *)
Initialise(w) ==
    /\ worker[w] = "init"
    /\ prepared' = prepared \cup {w}
    /\ worker' = [worker EXCEPT ![w] = "counts"]
    /\ UNCHANGED <<main, io_service_pool_, init_count, accepts, crashes,
                   server_started_, owner, stops>>

Count(w) ==
    /\ worker[w] = "counts"
    /\ init_count' = init_count + 1
    /\ worker' = [worker EXCEPT ![w] = "runs"]
    /\ UNCHANGED <<main, io_service_pool_, prepared, accepts, crashes,
                   server_started_, owner, stops>>

(* run() executes a posted start(). *)
StartConnection(w) ==
    /\ worker[w] = "runs" /\ w \notin stopped /\ posted[w] > 0
    /\ posted' = [posted EXCEPT ![w] = @ - 1]
    /\ started' = [started EXCEPT ![w] = @ + 1]
    /\ UNCHANGED <<main, pools, roundrobin_index_, offered, offers, clients,
                   crashes, server_started_, owner, stops>>

(* The exception is logged, and the loop calls run() again. *)
AfterCrash(w) == UNCHANGED worker

(* A handler of a connection that was started throws. *)
Crash(w) ==
    /\ worker[w] = "runs" /\ w \notin stopped /\ started[w] > 0 /\ crashes > 0
    /\ crashes' = crashes - 1
    /\ started' = [started EXCEPT ![w] = @ - 1]
    /\ AfterCrash(w)
    /\ UNCHANGED <<main, io_service_pool_, prepared, init_count, roundrobin_index_,
                   offered, offers, posted, clients, server_started_, owner,
                   stops>>

(* run() of a stopped io_service returns 0: the thread ends, and the date   *)
(* getter and the timer queue, its local variables, with it.                *)
WorkerEnds(w) ==
    /\ worker[w] = "runs" /\ w \in stopped
    /\ worker' = [worker EXCEPT ![w] = "over"]
    /\ prepared' = prepared \ {w}
    /\ UNCHANGED <<main, io_service_pool_, init_count, accepts, crashes,
                   server_started_, owner, stops>>

-----------------------------------------------------------------------------
(* The application's other thread: wait_for_server_start, then stop. *)

wait_for_server_start ==
    /\ owner = "new"
    /\ owner' = IF server_started_ THEN "awake" ELSE "waits"
    /\ UNCHANGED <<main, pools, accepts, crashes, server_started_, stops>>

OwnerStop ==
    /\ owner = "awake" /\ stopping.by = "nobody"
    /\ owner' = "done"
    /\ stopping' = [by |-> "owner", next |-> 0]
    /\ stopped' = stopped \cup {io_service_}
    /\ UNCHANGED <<main, pools, accepts, crashes, server_started_>>

-----------------------------------------------------------------------------

Work(w) == Initialise(w) \/ Count(w) \/ StartConnection(w) \/ WorkerEnds(w)

RunSteps == \/ notify_server_start \/ EmplaceService \/ StartThread
            \/ FirstAccept \/ JoinIo \/ Return

ServerNext ==
    \/ notify_server_start
    \/ EmplaceService
    \/ StartThread
    \/ FirstAccept
    \/ JoinIo
    \/ Return
    \/ Accept
    \/ Signal
    \/ Stopping
    \/ wait_for_server_start
    \/ OwnerStop
    \/ \E w \in Workers :
          \/ Initialise(w)
          \/ Count(w)
          \/ StartConnection(w)
          \/ Crash(w)
          \/ WorkerEnds(w)

(* Every thread is scheduled; clients, signals and crashes may not come. *)
ServerSpec ==
    /\ ServerInit /\ [][ServerNext]_serverVars
    /\ WF_serverVars(RunSteps) /\ WF_serverVars(Stopping)
    /\ \A w \in Workers : WF_serverVars(Work(w))

-----------------------------------------------------------------------------
(* Properties *)

(* The type of the state: threads, pools and counters of one server. *)
ServerTypes ==
    /\ main \in {"validate", "pool", "threads", "barrier", "io", "futures",
                 "returned"}
    /\ io_service_pool_ \subseteq Workers /\ prepared \subseteq Workers
    /\ worker \in [Workers -> {"none", "init", "counts", "runs", "over"}]
    /\ init_count \in 0..concurrency_
    /\ roundrobin_index_ \in Workers /\ offered \in Workers \cup {-1}
    /\ stopped \subseteq Services
    /\ \A w \in Workers : posted[w] >= 0 /\ started[w] >= 0

(* A connection is made with the date getter and the timer queue of the     *)
(* worker it is posted to: they exist, unless that worker was stopped.      *)
ConnectionsHaveAWorker ==
    /\ offered # -1 => offered \in prepared \/ offered \in stopped
    /\ \A w \in Workers :
          posted[w] + started[w] > 0 => w \in prepared \/ w \in stopped

(* Round robin: no worker is offered two connections more than another.     *)
FairShares ==
    \A v, w \in Workers : offers[v] - offers[w] <= 1

(* run() does not return while a thread still uses the server: the workers  *)
(* are over, and so is the handler of the signal.                           *)
NothingOutlivesRun ==
    main = "returned" => /\ \A w \in Workers : worker[w] = "over"
                         /\ stopping.by # "signal"

(* App::concurrency makes it at least 1.                                    *)
Concurrency == concurrency_ \in Nat \ {0}

Early == {"validate", "pool"}
Serving == {"io", "futures", "returned"}

(* The io_services are made in order, before the threads.                   *)
PoolInStep ==
    \E n \in 0..concurrency_ :
        io_service_pool_ = 0..(n - 1) /\ (main \in Early <=> n < concurrency_)

(* The threads start in order; init_count tells how many are past their     *)
(* first steps, and all are when the server accepts.                        *)
WorkersInStep ==
    /\ main \in Early => \A w \in Workers : worker[w] = "none"
    /\ main = "threads" =>
          \E n \in Workers : {w \in Workers : worker[w] = "none"} = n..(concurrency_ - 1)
    /\ main = "barrier" => \A w \in Workers : worker[w] # "none"
    /\ main \in Serving => \A w \in Workers : worker[w] \in {"runs", "over"}
    /\ init_count = Cardinality({w \in Workers : worker[w] \in {"runs", "over"}})
    /\ prepared = {w \in Workers : worker[w] \in {"counts", "runs"}}
    /\ \A w \in Workers : worker[w] = "over" => w \in stopped

(* Picking starts at worker 1 and comes to worker 0 last.                   *)
OffersInStep ==
    /\ {posted, started, offers} \subseteq [Workers -> Nat]
    /\ main \in Serving => offered = roundrobin_index_
    /\ main \notin Serving =>
          offered = -1 /\ \A w \in Workers : posted[w] = 0 /\ started[w] = 0
    /\ \A w \in Workers :
          offers[w] = IF 1 <= w /\ w <= roundrobin_index_ THEN offers[0] + 1 ELSE offers[0]

StopsInStep ==
    /\ stopping \in [by : {"nobody", "signal", "owner", "past"}, next : Int]
    /\ main \in {"futures", "returned"} => stopping.by # "signal"
    /\ main = "returned" => \A w \in Workers : worker[w] = "over"

ServerInStep == ServerTypes /\ PoolInStep /\ WorkersInStep /\ OffersInStep /\ StopsInStep

(* The parts of the server are in step; whoever is handed a connection has  *)
(* what it is made with, each has its share, and nothing works for a run()  *)
(* that returned (crow_all.h:9412-9418, 9435-9460).                         *)
ServerConsistent ==
    ServerInStep /\ ConnectionsHaveAWorker /\ FairShares /\ NothingOutlivesRun
=============================================================================
