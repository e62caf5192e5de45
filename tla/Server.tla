------------------------------- MODULE Server --------------------------------
(***************************************************************************)
(* The life of the web server: web/server.cpp accepts connections,          *)
(* web/io_service_pool.cpp runs one thread per io_service,                  *)
(* web/connection_manager.cpp keeps the set of the running connections, and *)
(* a signal closes the acceptor and stops them all.                         *)
(*                                                                          *)
(* An io_service is named by its index and so is its only thread.  Each     *)
(* thread runs one completion handler at a time.  The handlers of the       *)
(* acceptor, of the signal set and of each connection run on the io_service *)
(* the object was built on, and all of them use the manager's std::set      *)
(* without a lock.  A thread is inside an operation on that set while its   *)
(* pc names the operation; the step that follows completes it.              *)
(***************************************************************************)
EXTENDS Integers

CONSTANTS
    PoolSizes,   \* how many io_services a pool may have (main.cpp:20 passes 4)
    MaxConns     \* bound of the model: peers that ever connect

(* The constructor throws on 0.                                             *)
ASSUME PoolSizesAssumption == PoolSizes \subseteq Nat \ {0}
ASSUME MaxConnsAssumption == MaxConns \in Nat

Threads == UNION {0 .. p - 1 : p \in PoolSizes}
Conns == 1 .. MaxConns

VARIABLES
    pool,        \* the number of io_services this pool was built with
    next,        \* next_io_service_
    isOpen,      \* acceptor_.is_open()
    accept,      \* the outstanding async_accept: none, pending, or how it ended
    socket,      \* the io_service of the socket_ the accept fills
    arrived,     \* peers accepted by the system so far; the last is in socket_
    caught,      \* do_accept caught an exception: history
    svc,         \* the io_service of each connection
    sock,        \* the socket of each connection: none, open or closed
    op,          \* its outstanding operation: none, pending, or how it ended
    connections, \* connection_manager's set
    signal,      \* the signal: awaited, raised or handled
    stopped,     \* io_services whose stop() was called
    pc,          \* the next step of the handler each thread runs
    cur          \* the connection that handler is about, 0 for none

acceptVars == <<next, isOpen, accept, socket, arrived, caught>>
connVars == <<svc, sock, op>>
vars == <<pool, acceptVars, connVars, connections, signal, stopped, pc, cur>>

(* The constructor asks the pool for one io_service after the other: for    *)
(* signals_ (0), for acceptor_ and then for every socket.  do_accept may    *)
(* throw and catch at once, with no accept armed and the acceptor open.     *)
Services == 0 .. pool - 1
SignalService == 0
AcceptService == 1 % pool

(* Completed operations wait in the queue of their io_service.              *)
Ended == {"ok", "error", "aborted"}
SetSteps == {"insert", "erase", "iterate", "clear"}

Init ==
    /\ pool \in PoolSizes
    /\ socket = 2 % pool /\ isOpen = TRUE /\ arrived = 0
    /\ \/ caught = FALSE /\ accept = "pending" /\ next = 3 % pool
       \/ caught = TRUE /\ accept = "none" /\ next = 2 % pool
    /\ svc = [c \in Conns |-> 0]
    /\ sock = [c \in Conns |-> "none"] /\ op = [c \in Conns |-> "none"]
    /\ connections = {}
    /\ signal = "awaited" /\ stopped = {}
    /\ pc = [t \in Threads |-> "idle"] /\ cur = [t \in Threads |-> 0]

(* Operators named Mutant... are plausible slips in the definition behind   *)
(* them.  No specification uses them: they show that the properties notice. *)

Goto(t, step) == pc' = [pc EXCEPT ![t] = step]
About(t, c) == cur' = [cur EXCEPT ![t] = c]

(* Another thread is inside an operation on the set: the outcome is open.   *)
Races(t) == \E u \in Services \ {t} : pc[u] \in SetSteps

(* A thread takes the next handler when it has none and its io_service runs.*)
Free(t) == pc[t] = "idle" /\ t \notin stopped

MutantStarted(c) == "pending"

(* Starting an operation on a closed socket completes it at once.           *)
Started(c) == IF sock[c] = "open" THEN "pending" ELSE "error"

MutantCloseSocket(c) == UNCHANGED <<sock, op>>

(* socket_.close(): a pending operation completes with operation_aborted.   *)
CloseSocket(c) ==
    /\ sock' = [sock EXCEPT ![c] = "closed"]
    /\ op' = [op EXCEPT ![c] = IF @ = "pending" THEN "aborted" ELSE @]

-----------------------------------------------------------------------------
(***************************************************************************)
(* What happens outside the process.                                        *)
(***************************************************************************)
PeerConnects ==
    /\ accept = "pending" /\ arrived < MaxConns
    /\ arrived' = arrived + 1
    /\ accept' = "ok"
    /\ UNCHANGED <<next, isOpen, socket, caught, connVars, connections, signal, stopped, pc, cur>>

AcceptFails ==
    /\ accept = "pending"
    /\ accept' = "error"
    /\ UNCHANGED <<next, isOpen, socket, arrived, caught, connVars, connections, signal, stopped, pc, cur>>

(* The pending read or write of a connection completes.                     *)
OperationEnds(c) ==
    /\ op[c] = "pending"
    /\ \E how \in {"ok", "error"} : op' = [op EXCEPT ![c] = how]
    /\ UNCHANGED <<acceptVars, svc, sock, connections, signal, stopped, pc, cur>>

(* SIGINT, SIGTERM or SIGQUIT; the handler is not installed again.          *)
SignalRaised ==
    /\ signal = "awaited"
    /\ signal' = "raised"
    /\ UNCHANGED <<acceptVars, connVars, connections, stopped, pc, cur>>

(* stopwebsvr(): io_service_pool::stop() stops one io_service per step.     *)
StopService(t) ==
    /\ t \notin stopped /\ \A u \in Services : u < t => u \in stopped
    /\ stopped' = stopped \cup {t}
    /\ UNCHANGED <<acceptVars, connVars, connections, signal, pc, cur>>

-----------------------------------------------------------------------------
(***************************************************************************)
(* The accept handler, on the thread of the acceptor.                       *)
(***************************************************************************)
MutantRefused == FALSE
Refused == ~isOpen

MutantAfterAccept == IF accept = "ok" THEN "insert" ELSE "idle"
AfterAccept == IF accept = "ok" THEN "insert" ELSE "accept"

AcceptHandler(t) ==
    /\ t = AcceptService /\ Free(t) /\ accept \in Ended
    /\ accept' = "none"
    /\ \/ Refused /\ UNCHANGED <<pc, cur>>
       \/ /\ ~Refused /\ Goto(t, AfterAccept)
          /\ About(t, IF accept = "ok" THEN arrived ELSE 0)
    /\ UNCHANGED <<next, isOpen, socket, arrived, caught, connVars, connections, signal, stopped>>

(* connection_manager::start: the connection takes over socket_.            *)
Insert(t) ==
    /\ pc[t] = "insert"
    /\ sock' = [sock EXCEPT ![cur[t]] = "open"]
    /\ svc' = [svc EXCEPT ![cur[t]] = socket]
    /\ \/ connections' = connections \cup {cur[t]}
       \/ Races(t) /\ UNCHANGED connections
    /\ Goto(t, "start")
    /\ UNCHANGED <<acceptVars, op, signal, stopped, cur>>

(* ... and c->start() issues its first read.                                *)
StartConnection(t) ==
    /\ pc[t] = "start"
    /\ op' = [op EXCEPT ![cur[t]] = Started(cur[t])]
    /\ Goto(t, "accept") /\ About(t, 0)
    /\ UNCHANGED <<acceptVars, svc, sock, connections, signal, stopped>>

NextService(i) == IF i + 1 = pool THEN 0 ELSE i + 1

(* do_accept: a new socket on the next io_service, and the next accept.     *)
(* When making the socket throws, the exception is caught and do_accept     *)
(* returns with no accept armed.  Whether the pool was asked first makes no *)
(* difference: nobody asks it again.                                        *)
DoAccept(t) ==
    /\ pc[t] = "accept"
    /\ \/ /\ socket' = next /\ next' = NextService(next)
          /\ accept' = IF isOpen THEN "pending" ELSE "error"
          /\ UNCHANGED caught
       \/ caught' = TRUE /\ UNCHANGED <<next, socket, accept>>
    /\ Goto(t, "idle")
    /\ UNCHANGED <<isOpen, arrived, connVars, connections, signal, stopped, cur>>

-----------------------------------------------------------------------------
(***************************************************************************)
(* A connection's handlers, on the thread of its io_service.                *)
(***************************************************************************)

(* A successful read or write starts the next operation, and do_write's     *)
(* handler stops the connection as well; any other error than               *)
(* operation_aborted stops it; an aborted operation ends the chain.         *)
ConnectionHandler(t, c) ==
    /\ Free(t) /\ svc[c] = t /\ op[c] \in Ended
    /\ \/ /\ op[c] = "ok"
          /\ op' = [op EXCEPT ![c] = Started(c)]
          /\ \/ UNCHANGED <<pc, cur>>
             \/ Goto(t, "erase") /\ About(t, c)
       \/ /\ op[c] = "error"
          /\ op' = [op EXCEPT ![c] = "none"]
          /\ Goto(t, "erase") /\ About(t, c)
       \/ /\ op[c] = "aborted"
          /\ op' = [op EXCEPT ![c] = "none"]
          /\ UNCHANGED <<pc, cur>>
    /\ UNCHANGED <<acceptVars, svc, sock, connections, signal, stopped>>

Without(c) == connections \ {c}

(* connection_manager::stop.                                                *)
Erase(t) ==
    /\ pc[t] = "erase"
    /\ \/ connections' = Without(cur[t])
       \/ Races(t) /\ UNCHANGED connections
    /\ Goto(t, "close")
    /\ UNCHANGED <<acceptVars, connVars, signal, stopped, cur>>

CloseErased(t) ==
    /\ pc[t] = "close"
    /\ CloseSocket(cur[t])
    /\ Goto(t, "idle") /\ About(t, 0)
    /\ UNCHANGED <<acceptVars, svc, connections, signal, stopped>>

-----------------------------------------------------------------------------
(***************************************************************************)
(* The signal handler, on the thread of signals_.                           *)
(***************************************************************************)
SignalHandler(t) ==
    /\ t = SignalService /\ Free(t) /\ signal = "raised"
    /\ signal' = "handled"
    /\ isOpen' = FALSE
    /\ accept' = IF accept = "pending" THEN "aborted" ELSE accept
    /\ Goto(t, "iterate")
    /\ UNCHANGED <<next, socket, arrived, caught, connVars, connections, stopped, cur>>

(* connection_manager::stop_all: close every connection of the set ...      *)
StopOne(t) ==
    /\ pc[t] = "iterate"
    /\ \E c \in connections : sock[c] = "open" /\ CloseSocket(c)
    /\ UNCHANGED <<acceptVars, svc, connections, signal, stopped, pc, cur>>

StoppedAll(t) ==
    /\ pc[t] = "iterate"
    /\ \A c \in connections : sock[c] # "open"
    /\ Goto(t, "clear")
    /\ UNCHANGED <<acceptVars, connVars, connections, signal, stopped, cur>>

(* ... then empty it.                                                       *)
ClearAll(t) ==
    /\ pc[t] = "clear"
    /\ connections' = {}
    /\ Goto(t, "idle")
    /\ UNCHANGED <<acceptVars, connVars, signal, stopped, cur>>

MayReturn(t) == t \in stopped

(* io_service::run returns in a thread whose io_service was stopped.        *)
ThreadReturns(t) ==
    /\ pc[t] = "idle" /\ MayReturn(t)
    /\ Goto(t, "exited")
    /\ UNCHANGED <<acceptVars, connVars, connections, signal, stopped, cur>>

-----------------------------------------------------------------------------
ThreadStep(t) ==
    \/ AcceptHandler(t) \/ Insert(t) \/ StartConnection(t) \/ DoAccept(t)
    \/ \E c \in Conns : ConnectionHandler(t, c)
    \/ Erase(t) \/ CloseErased(t)
    \/ SignalHandler(t) \/ StopOne(t) \/ StoppedAll(t) \/ ClearAll(t)
    \/ ThreadReturns(t)

Next ==
    /\ \/ PeerConnects \/ AcceptFails \/ SignalRaised
       \/ \E c \in Conns : OperationEnds(c)
       \/ \E t \in Services : StopService(t)
       \/ \E t \in Services : ThreadStep(t)
    /\ UNCHANGED pool

Spec == Init /\ [][Next]_vars

(* Every thread of the pool keeps running handlers.  On the io_service of   *)
(* the signals none of them waits for ever behind the others (the queue is  *)
(* first in, first out); that holds for each io_service, and the properties *)
(* need it for this one.  Peers, signals and stopwebsvr owe nothing.        *)
Fairness ==
    /\ \A t \in Threads : WF_vars(ThreadStep(t) /\ UNCHANGED pool)
    /\ SF_vars(SignalHandler(SignalService) /\ UNCHANGED pool)
    /\ SF_vars(AcceptHandler(SignalService) /\ UNCHANGED pool)
    /\ \A c \in Conns : SF_vars(ConnectionHandler(SignalService, c) /\ UNCHANGED pool)

LiveSpec == Spec /\ Fairness

-----------------------------------------------------------------------------
(***************************************************************************)
(* Properties.                                                              *)
(***************************************************************************)
TypeOK ==
    /\ pool \in PoolSizes
    /\ next \in Services /\ socket \in Services
    /\ isOpen \in BOOLEAN /\ accept \in Ended \cup {"none", "pending"}
    /\ arrived \in 0 .. MaxConns /\ caught \in BOOLEAN
    /\ svc \in [Conns -> Services]
    /\ sock \in [Conns -> {"none", "open", "closed"}]
    /\ op \in [Conns -> Ended \cup {"none", "pending"}]
    /\ connections \in SUBSET Conns
    /\ signal \in {"awaited", "raised", "handled"}
    /\ stopped \in SUBSET Services
    /\ pc \in [Threads -> SetSteps \cup {"idle", "start", "accept", "close", "exited"}]
    /\ cur \in [Threads -> 0 .. MaxConns]

(* The threads whose handler is about c, from its insertion to its close.   *)
Handling(c) == {t \in Services : pc[t] \in {"start", "erase", "close"} /\ cur[t] = c}

(* One io_service has one thread, and nothing races on the manager's set.   *)
Alone == pool = 1

(* A single io_service: the manager knows every connection that can still   *)
(* do something.  No open connection is missing from its set, except while  *)
(* its own handler stops it.                                                *)
ManagerTracks ==
    Alone =>
        \A c \in Conns : sock[c] = "open" /\ Handling(c) = {} => c \in connections

(* connection_manager.hpp:20: the manager exists "so that [open connections]*)
(* may be cleanly stopped when the server needs to shut down": once the     *)
(* signal was handled no connection is open, nor opens again.               *)
CleanStop ==
    signal = "handled" /\ pc[SignalService] \in {"idle", "exited"}
        => \A c \in Conns : sock[c] # "open"

(* A single io_service keeps that promise.                                  *)
AloneStopsClean == Alone => CleanStop

(* In any pool, one thing only makes the server forget to accept: while the *)
(* acceptor is open, either an accept is outstanding or the accept handler  *)
(* is running, unless do_accept caught an exception (server.cpp:72), and    *)
(* then for good, though the acceptor is open and peers still connect to it.*)
KeepsAccepting ==
    isOpen => (caught <=>
        accept = "none" /\ pc[AcceptService] \notin {"insert", "start", "accept"})

(* A single io_service: a signal ends every chain of operations and empties *)
(* the manager, unless the pool is stopped first.                           *)
SignalDrains ==
    Alone /\ signal = "raised" ~>
        \/ stopped # {}
        \/ connections = {} /\ \A c \in Conns : op[c] = "none"

(* stopwebsvr() makes run() return, in any pool: every thread ends, whatever*)
(* operations are outstanding.                                              *)
StopReturns == stopped = Services ~> \A t \in Services : pc[t] = "exited"

(* Shutting down comes to its end, by a signal and by stopwebsvr().         *)
ShutsDown == SignalDrains /\ StopReturns
=============================================================================
