----------------------------- MODULE ServerProofs -----------------------------
(***************************************************************************)
(* Proofs about the life of the server, for pools of any size and any       *)
(* number of peers.                                                         *)
(***************************************************************************)
EXTENDS Server, TLAPS

(* A handler that is about a connection names one.                          *)
CurrentInv ==
    /\ accept = "ok" => arrived \in Conns
    /\ accept # "none" => ~caught
    /\ \A t \in Threads : pc[t] \in {"insert", "start", "erase", "close"} => cur[t] \in Conns
    /\ \A t \in Threads : pc[t] \in {"insert", "start", "accept"} =>
            t = AcceptService /\ accept = "none" /\ ~caught

Inductive == TypeOK /\ CurrentInv

-----------------------------------------------------------------------------
LEMMA ServicesFacts ==
    ASSUME pool \in PoolSizes
    PROVE  /\ pool \in Nat \ {0} /\ Services \subseteq Threads
           /\ SignalService \in Services /\ AcceptService \in Services
           /\ 2 % pool \in Services /\ 3 % pool \in Services
           /\ \A i \in Services : NextService(i) \in Services
           /\ (Alone => Services = {0} /\ AcceptService = 0)
<1>1. pool \in Nat \ {0} BY PoolSizesAssumption
<1>2. Services \subseteq Threads BY DEF Services, Threads
<1>3. \A n \in Nat : n % pool \in Services BY <1>1 DEF Services
<1>4. AcceptService \in Services BY <1>3 DEF AcceptService
<1>5. SignalService \in Services BY <1>1 DEF SignalService, Services
<1>6. \A i \in Services : NextService(i) \in Services BY <1>1 DEF NextService, Services
<1>7. Alone => Services = {0} BY DEF Alone, Services
<1> QED BY <1>1, <1>2, <1>3, <1>4, <1>5, <1>6, <1>7

LEMMA NextInductive == Inductive /\ [Next]_vars => Inductive'
<1> SUFFICES ASSUME Inductive, [Next]_vars PROVE Inductive'
  OBVIOUS
<1>p. /\ pool \in PoolSizes /\ pool' = pool /\ Services \subseteq Threads /\ Services' = Services
      /\ 0 .. MaxConns = {0} \cup Conns /\ AcceptService' = AcceptService
  <2>1. pool \in PoolSizes /\ pool' = pool BY DEF Inductive, TypeOK, Next, vars
  <2>2. 0 .. MaxConns = {0} \cup Conns BY MaxConnsAssumption DEF Conns
  <2> QED BY <2>1, <2>2, ServicesFacts DEF Services, AcceptService
<1> USE DEF Inductive, TypeOK, CurrentInv, Ended, SetSteps
<1>1. CASE PeerConnects
  <2>1. arrived' \in Conns BY <1>1, MaxConnsAssumption DEF PeerConnects, Conns
  <2> QED BY <1>p, <1>1, <2>1 DEF PeerConnects, connVars
<1>2. CASE AcceptFails
  BY <1>p, <1>2 DEF AcceptFails, connVars
<1>3. CASE SignalRaised
  BY <1>p, <1>3 DEF SignalRaised, acceptVars, connVars
<1>4. ASSUME NEW c \in Conns, OperationEnds(c) PROVE Inductive'
  BY <1>p, <1>4 DEF OperationEnds, acceptVars
<1>5. ASSUME NEW t \in Services, StopService(t) PROVE Inductive'
  BY <1>p, <1>5 DEF StopService, acceptVars, connVars
<1>6. ASSUME NEW t \in Services, ThreadStep(t) PROVE Inductive'
  <2>t. t \in Threads BY <1>p
  <2>1. CASE AcceptHandler(t)
    BY <1>p, <2>t, <2>1 DEF AcceptHandler, Goto, About, AfterAccept, connVars
  <2>2. CASE Insert(t)
    BY <1>p, <2>t, <2>2 DEF Insert, Goto, acceptVars
  <2>3. CASE StartConnection(t)
    BY <1>p, <2>t, <2>3 DEF StartConnection, Started, Goto, About, acceptVars
  <2>4. CASE DoAccept(t)
    <3>1. NextService(next) \in Services BY <1>p, ServicesFacts
    <3>2. t = AcceptService /\ accept = "none" /\ ~caught /\ pc' = [pc EXCEPT ![t] = "idle"]
      BY <2>t, <2>4 DEF DoAccept, Goto
    <3>3. \A u \in Threads : pc'[u] \notin {"insert", "start", "accept"}
      BY <1>p, <2>t, <3>2
    <3>4. /\ accept' \in {"none", "pending", "error"} /\ caught' \in BOOLEAN
          /\ accept' # "none" => ~caught'
      <4>1. CASE accept' = (IF isOpen THEN "pending" ELSE "error") /\ caught' = caught
        <5>1. accept' \in {"pending", "error"} BY <4>1
        <5>2. caught' \in BOOLEAN /\ ~caught' BY <4>1, <3>2
        <5> QED BY <5>1, <5>2
      <4>2. CASE caught' = TRUE /\ accept' = accept
        BY <4>2, <3>2
      <4> QED BY <2>4, <4>1, <4>2 DEF DoAccept
    <3>5. /\ next' \in Services /\ socket' \in Services
          /\ UNCHANGED <<isOpen, arrived, svc, sock, op, connections, signal, stopped, cur>>
      BY <2>4, <3>1 DEF DoAccept, connVars
    <3>6. TypeOK' BY <1>p, <2>t, <3>2, <3>4, <3>5
    <3>7. CurrentInv' BY <1>p, <2>t, <3>2, <3>3, <3>4, <3>5
    <3> QED BY <3>6, <3>7
  <2>5. ASSUME NEW c \in Conns, ConnectionHandler(t, c) PROVE Inductive'
    BY <1>p, <2>t, <2>5 DEF ConnectionHandler, Started, Goto, About, acceptVars
  <2>6. CASE Erase(t)
    BY <1>p, <2>t, <2>6 DEF Erase, Without, Goto, acceptVars, connVars
  <2>7. CASE CloseErased(t)
    BY <1>p, <2>t, <2>7 DEF CloseErased, CloseSocket, Goto, About, acceptVars
  <2>8. CASE SignalHandler(t)
    BY <1>p, <2>t, <2>8 DEF SignalHandler, Goto, connVars
  <2>9. CASE StopOne(t)
    BY <1>p, <2>t, <2>9 DEF StopOne, CloseSocket, acceptVars
  <2>10. CASE StoppedAll(t) \/ ClearAll(t) \/ ThreadReturns(t)
    BY <1>p, <2>t, <2>10 DEF StoppedAll, ClearAll, ThreadReturns, Goto, acceptVars, connVars
  <2> QED BY <1>6, <2>1, <2>2, <2>3, <2>4, <2>5, <2>6, <2>7, <2>8, <2>9, <2>10 DEF ThreadStep
<1>7. CASE UNCHANGED vars
  BY <1>p, <1>7 DEF vars, acceptVars, connVars
<1> QED BY <1>1, <1>2, <1>3, <1>4, <1>5, <1>6, <1>7 DEF Next

LEMMA InitInductive == Init => Inductive
<1> SUFFICES ASSUME Init PROVE Inductive
  OBVIOUS
<1>1. pool \in PoolSizes BY DEF Init
<1>2. /\ next \in Services /\ socket \in Services /\ 0 \in Services
      /\ \A t \in Threads : pc[t] = "idle"
  BY <1>1, ServicesFacts DEF Init, SignalService
<1>3. /\ accept \in {"none", "pending"} /\ caught \in BOOLEAN /\ arrived \in 0 .. MaxConns
      /\ accept # "none" => ~caught
  <2>1. arrived \in 0 .. MaxConns BY MaxConnsAssumption DEF Init
  <2>2. \/ caught = FALSE /\ accept = "pending"
        \/ caught = TRUE /\ accept = "none"
    BY DEF Init
  <2> QED BY <2>1, <2>2
<1>4. TypeOK
  BY <1>1, <1>2, <1>3, MaxConnsAssumption DEF Init, TypeOK, Ended, SetSteps
<1>5. CurrentInv
  BY <1>2, <1>3 DEF CurrentInv
<1> QED BY <1>4, <1>5 DEF Inductive

LEMMA InvariantHolds == Spec => []Inductive
BY InitInductive, NextInductive, PTL DEF Spec

-----------------------------------------------------------------------------
(* In a pool of any size, whichever threads run which handlers, the server  *)
(* forgets to accept while its acceptor is open when do_accept caught an    *)
(* exception, and only then.                                                *)
THEOREM AcceptingKept == Spec => []KeepsAccepting
<1>1. Init => KeepsAccepting
  <2> SUFFICES ASSUME Init PROVE KeepsAccepting
    OBVIOUS
  <2>1. AcceptService \in Threads BY ServicesFacts DEF Init
  <2> QED BY <2>1 DEF Init, KeepsAccepting
<1>2. Inductive /\ KeepsAccepting /\ [Next]_vars => KeepsAccepting'
  <2> SUFFICES ASSUME Inductive, KeepsAccepting, [Next]_vars PROVE KeepsAccepting'
    OBVIOUS
  <2>p. /\ pc \in [Threads -> SetSteps \cup {"idle", "start", "accept", "close", "exited"}]
        /\ Services \subseteq Threads /\ AcceptService \in Services /\ pool' = pool
        /\ AcceptService' = AcceptService /\ caught \in BOOLEAN
        /\ \A t \in Threads : pc[t] \in {"insert", "start", "accept"} =>
                t = AcceptService /\ accept = "none" /\ ~caught
    <3>1. pool' = pool BY DEF Next, vars
    <3> QED BY <3>1, ServicesFacts DEF Inductive, TypeOK, CurrentInv, AcceptService
  <2>1. CASE PeerConnects \/ AcceptFails
    BY <2>p, <2>1 DEF PeerConnects, AcceptFails, KeepsAccepting
  <2>2. CASE SignalRaised
    BY <2>p, <2>2 DEF SignalRaised, acceptVars, KeepsAccepting
  <2>3. ASSUME NEW c \in Conns, OperationEnds(c) PROVE KeepsAccepting'
    BY <2>p, <2>3 DEF OperationEnds, acceptVars, KeepsAccepting
  <2>4. ASSUME NEW t \in Services, StopService(t) PROVE KeepsAccepting'
    BY <2>p, <2>4 DEF StopService, acceptVars, KeepsAccepting
  <2>5. ASSUME NEW t \in Services, ThreadStep(t) PROVE KeepsAccepting'
    <3>1. CASE AcceptHandler(t)
      BY <2>p, <3>1 DEF AcceptHandler, Ended, Free, Refused, AfterAccept, Goto, KeepsAccepting
    <3>2. CASE Insert(t) \/ StartConnection(t)
      BY <2>p, <3>2 DEF Insert, StartConnection, Goto, acceptVars, KeepsAccepting
    <3>3. CASE DoAccept(t)
      BY <2>p, <3>3 DEF DoAccept, Goto, KeepsAccepting
    <3>4. CASE SignalHandler(t)
      BY <2>p, <3>4 DEF SignalHandler, KeepsAccepting
    <3>5. ASSUME UNCHANGED <<isOpen, accept, caught>>, pc[t] \notin {"insert", "start", "accept"},
                 \E q \in {pc[t], "idle", "erase", "close", "clear", "exited"} : pc' = [pc EXCEPT ![t] = q]
          PROVE  KeepsAccepting'
      BY <2>p, <3>5 DEF KeepsAccepting
    <3>6. ASSUME NEW c \in Conns, ConnectionHandler(t, c) PROVE KeepsAccepting'
      <4>1. UNCHANGED <<isOpen, accept, caught>> /\ pc[t] \notin {"insert", "start", "accept"}
        BY <3>6 DEF ConnectionHandler, Free, acceptVars
      <4>2. pc' = [pc EXCEPT ![t] = pc[t]] \/ pc' = [pc EXCEPT ![t] = "erase"]
        BY <2>p, <3>6 DEF ConnectionHandler, Goto
      <4> QED BY <3>5, <4>1, <4>2
    <3>7. CASE \/ Erase(t) \/ CloseErased(t) \/ StopOne(t) \/ StoppedAll(t) \/ ClearAll(t)
               \/ ThreadReturns(t)
      <4>1. UNCHANGED <<isOpen, accept, caught>> /\ pc[t] \notin {"insert", "start", "accept"}
        BY <3>7 DEF Erase, CloseErased, StopOne, StoppedAll, ClearAll, ThreadReturns, acceptVars
      <4>2. \E q \in {pc[t], "idle", "close", "clear", "exited"} : pc' = [pc EXCEPT ![t] = q]
        BY <2>p, <3>7
        DEF Erase, CloseErased, StopOne, StoppedAll, ClearAll, ThreadReturns, Goto
      <4> QED BY <3>5, <4>1, <4>2
    <3> QED BY <2>5, <3>1, <3>2, <3>3, <3>4, <3>6, <3>7 DEF ThreadStep
  <2>6. CASE UNCHANGED vars
    BY <2>p, <2>6 DEF vars, acceptVars, KeepsAccepting
  <2> QED BY <2>1, <2>2, <2>3, <2>4, <2>5, <2>6 DEF Next
<1> QED BY <1>1, <1>2, InvariantHolds, PTL DEF Spec

-----------------------------------------------------------------------------
(***************************************************************************)
(* A pool of one io_service: one thread runs every handler, so a handler    *)
(* finds the manager's set as the last one left it.                         *)
(***************************************************************************)
NoneOpen == \A c \in Conns : sock[c] # "open"

OneThreadInv ==
    /\ \A c \in Conns : sock[c] = "open" =>
            c \in connections \/ (pc[0] \in {"start", "erase", "close"} /\ cur[0] = c)
    /\ pc[0] = "start" => cur[0] \in connections
    /\ pc[0] = "clear" => NoneOpen
    /\ signal = "handled" => ~isOpen /\ pc[0] \notin {"insert", "start"}
    /\ signal = "handled" /\ pc[0] # "iterate" => NoneOpen

AloneInv == Alone => OneThreadInv

LEMMA NextAlone == Inductive /\ AloneInv /\ [Next]_vars => AloneInv'
<1> SUFFICES ASSUME Inductive, AloneInv, [Next]_vars PROVE AloneInv'
  OBVIOUS
<1>a. Alone' <=> Alone
  <2>1. pool' = pool BY DEF Next, vars
  <2> QED BY <2>1 DEF Alone
<1> SUFFICES ASSUME Alone, OneThreadInv PROVE OneThreadInv'
  BY <1>a DEF AloneInv
<1>p. /\ Services = {0} /\ 0 \in Threads /\ AcceptService = 0 /\ pool' = pool /\ Services' = Services
      /\ pc \in [Threads -> SetSteps \cup {"idle", "start", "accept", "close", "exited"}]
      /\ cur \in [Threads -> 0 .. MaxConns] /\ connections \subseteq Conns
      /\ sock \in [Conns -> {"none", "open", "closed"}]
      /\ pc[0] \in {"insert", "start", "erase", "close"} => cur[0] \in Conns
  <2>1. pool' = pool BY DEF Next, vars
  <2>2. pool \in PoolSizes BY DEF Inductive, TypeOK
  <2>3. Services = {0} /\ 0 \in Threads /\ AcceptService = 0 BY <2>2, ServicesFacts
  <2> QED BY <2>1, <2>3 DEF Inductive, TypeOK, CurrentInv, Services
<1> USE DEF OneThreadInv, NoneOpen
<1>e. ASSUME UNCHANGED <<sock, connections, signal, isOpen, cur, pc>>
      PROVE  OneThreadInv'
  BY <1>e
<1>1. CASE PeerConnects \/ AcceptFails
  BY <1>e, <1>1 DEF PeerConnects, AcceptFails, connVars
<1>2. CASE SignalRaised
  BY <1>2 DEF SignalRaised, acceptVars, connVars
<1>3. ASSUME NEW c \in Conns, OperationEnds(c) PROVE OneThreadInv'
  BY <1>e, <1>3 DEF OperationEnds, acceptVars
<1>4. ASSUME NEW t \in Services, StopService(t) PROVE OneThreadInv'
  BY <1>e, <1>4 DEF StopService, acceptVars, connVars
<1>5. ASSUME ThreadStep(0) PROVE OneThreadInv'
  <2>r. ~Races(0) BY <1>p DEF Races
  <2>1. CASE AcceptHandler(0)
    <3>1. UNCHANGED <<sock, connections, signal, isOpen>> /\ pc[0] = "idle"
      BY <2>1 DEF AcceptHandler, Free, connVars
    <3>2. CASE Refused
      <4>1. UNCHANGED <<pc, cur>> BY <2>1, <3>2 DEF AcceptHandler
      <4> QED BY <1>e, <3>1, <4>1
    <3>3. CASE ~Refused
      <4>1. pc'[0] \in {"insert", "accept"} /\ isOpen
        BY <1>p, <2>1, <3>3 DEF AcceptHandler, AfterAccept, Goto, Refused
      <4> QED BY <3>1, <4>1
    <3> QED BY <3>2, <3>3
  <2>2. CASE Insert(0)
    BY <1>p, <2>2, <2>r DEF Insert, Goto, acceptVars
  <2>3. CASE StartConnection(0)
    <3>1. UNCHANGED <<sock, connections, signal, isOpen>> /\ pc[0] = "start" /\ pc'[0] = "accept"
      BY <1>p, <2>3 DEF StartConnection, Goto, acceptVars
    <3> QED BY <3>1
  <2>4. CASE DoAccept(0)
    BY <1>p, <2>4 DEF DoAccept, Goto, connVars
  <2>5. ASSUME NEW c \in Conns, ConnectionHandler(0, c) PROVE OneThreadInv'
    <3>1. UNCHANGED <<sock, connections, signal, isOpen>> /\ pc[0] = "idle"
      BY <2>5 DEF ConnectionHandler, Free, acceptVars
    <3>2. UNCHANGED <<pc, cur>> \/ pc'[0] = "erase"
      BY <1>p, <2>5 DEF ConnectionHandler, Goto
    <3>3. CASE UNCHANGED <<pc, cur>>
      BY <1>e, <3>1, <3>3
    <3>4. CASE pc'[0] = "erase"
      BY <3>1, <3>4
    <3> QED BY <3>2, <3>3, <3>4
  <2>6. CASE Erase(0)
    BY <1>p, <2>6, <2>r DEF Erase, Without, Goto, acceptVars, connVars
  <2>7. CASE CloseErased(0)
    BY <1>p, <2>7 DEF CloseErased, CloseSocket, Goto, About, acceptVars
  <2>8. CASE SignalHandler(0)
    BY <1>p, <2>8 DEF SignalHandler, Free, Goto, connVars
  <2>9. CASE StopOne(0)
    BY <1>p, <2>9 DEF StopOne, CloseSocket, acceptVars
  <2>10. CASE StoppedAll(0)
    BY <1>p, <2>10 DEF StoppedAll, Goto, acceptVars, connVars
  <2>11. CASE ClearAll(0)
    BY <1>p, <2>11 DEF ClearAll, Goto, acceptVars, connVars
  <2>12. CASE ThreadReturns(0)
    BY <1>p, <2>12 DEF ThreadReturns, Goto, acceptVars, connVars
  <2> QED BY <1>5, <2>1, <2>2, <2>3, <2>4, <2>5, <2>6, <2>7, <2>8, <2>9, <2>10, <2>11, <2>12
          DEF ThreadStep
<1>6. CASE UNCHANGED vars
  BY <1>e, <1>6 DEF vars, acceptVars, connVars
<1> QED BY <1>p, <1>1, <1>2, <1>3, <1>4, <1>5, <1>6 DEF Next

LEMMA AloneHolds == Spec => [](Inductive /\ AloneInv)
<1>1. Init => AloneInv
  <2> SUFFICES ASSUME Init, Alone PROVE OneThreadInv
    BY DEF AloneInv
  <2>1. 0 \in Threads BY ServicesFacts DEF Init
  <2> QED BY <2>1 DEF Init, OneThreadInv, NoneOpen
<1> QED BY <1>1, NextAlone, NextInductive, InitInductive, PTL DEF Spec

(* In a pool of one io_service the manager knows every connection that can  *)
(* still do something.                                                      *)
THEOREM AloneTracks == Spec => []ManagerTracks
<1>1. Inductive /\ AloneInv => ManagerTracks
  <2> SUFFICES ASSUME Inductive, AloneInv, Alone,
                      NEW c \in Conns, sock[c] = "open", Handling(c) = {}
               PROVE  c \in connections
    BY DEF ManagerTracks
  <2>1. 0 \in Services BY ServicesFacts DEF Inductive, TypeOK
  <2>2. 0 \notin Handling(c) OBVIOUS
  <2>3. ~(pc[0] \in {"start", "erase", "close"} /\ cur[0] = c) BY <2>1, <2>2 DEF Handling
  <2> QED BY <2>3 DEF AloneInv, OneThreadInv
<1> QED BY <1>1, AloneHolds, PTL

(* In a pool of one io_service no connection is open, nor opens again, once *)
(* the signal was handled.                                                  *)
THEOREM AloneCloses == Spec => []AloneStopsClean
<1>1. Inductive /\ AloneInv => AloneStopsClean
  BY DEF AloneInv, OneThreadInv, NoneOpen, AloneStopsClean, CleanStop, SignalService
<1> QED BY <1>1, AloneHolds, PTL
=============================================================================
