-------------------------- MODULE NativeClient_proofs --------------------------
(***************************************************************************)
(* Proofs about NativeClient: its invariants hold for both values of       *)
(* Relock.  TwoEmbraces speaks of ENABLED and InitReturns is a liveness    *)
(* property; both are left to TLC.  OnlyEmbracesStandStill says with the   *)
(* guards what TwoEmbraces says with ENABLED.                              *)
(***************************************************************************)
EXTENDS NativeClient, TLAPS

Upcalls == {"upUp", "upPacket", "upDown"}
NoWorker == worker \in {"none", "done"}

\* Who holds the two mutexes follows from where the threads are.
Mutexes ==
    /\ gMutex = "ui" <=> ui \notin {"idle", "entry"}
    /\ gMutex = "worker" <=> worker \in Upcalls
    /\ cbMutex = IF worker \in {"packet", "upPacket"} THEN "worker" ELSE "free"

\* Which call the UI thread is in.
Calls ==
    /\ ui \in {"create", "attach"} => op = "init"
    /\ ui = "detach" => op = "destroy"
    /\ ui \in {"stop", "close", "forget", "join"} => op \in {"connect", "disconnect", "destroy"}
    /\ ui = "request" => op = "request"

\* Before nativeInit has returned and after nativeDestroy there is no worker
\* and no socket, and a new service has been told nothing.
Lifetimes ==
    /\ worker \in Upcalls => attached
    /\ ~NoWorker => client
    /\ ~service => ui = "idle"
    /\ ~service \/ (op = "init" /\ ui # "idle") => worker = "none" /\ ~fd /\ openFds = 0
    /\ ui # "idle" /\ op = "init" => status = "unknown"
    /\ attached /\ NoWorker => status # "up"

Connections ==
    connected => worker \in {"tellUp", "upUp", "loop", "recv", "packets", "packet", "upPacket", "leave"}

\* The UI thread closes what it has found open, and the worker opens a socket
\* only when there is none.  It cannot end while the UI thread is about to join
\* it, so what it opens in the meantime is not forgotten by the next connect.
Sockets ==
    /\ openFds <= IF fd THEN 1 ELSE 0
    /\ worker = "socket" => ~fd /\ ui \notin {"close", "forget"}
    /\ ui = "forget" => openFds = 0
    /\ ui = "join" /\ NoWorker => ~fd

IInv == TypeOK /\ Mutexes /\ Calls /\ Lifetimes /\ Connections /\ Sockets

LEMMA InitIInv == Init => IInv
<1> SUFFICES ASSUME Init PROVE IInv
  OBVIOUS
<1>1. TypeOK
  <2>1. gMutex \in Holders /\ cbMutex \in Holders /\ openFds \in 0..1
    BY DEF Init, Holders
  <2>2. op \in Ops /\ ui \in UiPoints /\ worker \in WorkerPoints
    BY DEF Init, Ops, UiPoints, WorkerPoints
  <2> QED
    BY <2>1, <2>2 DEF Init, TypeOK
<1>2. Mutexes /\ Calls
  BY DEF Init, Mutexes, Calls, Upcalls
<1>3. Lifetimes
  BY DEF Init, Lifetimes, Upcalls, NoWorker
<1>4. Connections /\ Sockets
  BY DEF Init, Connections, Sockets, NoWorker
<1> QED
  BY <1>1, <1>2, <1>3, <1>4 DEF IInv

LEMMA StepIInv == IInv /\ [Next]_vars => IInv'
<1> SUFFICES ASSUME IInv, [Next]_vars PROVE IInv'
  OBVIOUS
<1>0. TypeOK
  BY DEF IInv
<1> USE DEF javaVars, bridgeVars, clientVars
<1>1. ASSUME NEW o \in Ops, Call(o) PROVE IInv'
  <2>1. TypeOK'
    BY <1>1 DEF Call, IInv, TypeOK, Ops, UiPoints, WorkerPoints, Holders
  <2>2. Mutexes'
    BY <1>1 DEF Call, IInv, Mutexes, Upcalls
  <2>3. Calls'
    BY <1>1 DEF Call, IInv, Calls
  <2>4. Lifetimes'
    BY <1>1 DEF Call, IInv, Lifetimes, NoWorker, Upcalls
  <2>5. Connections'
    BY <1>1 DEF Call, IInv, Connections
  <2>6. Sockets'
    BY <1>1 DEF Call, IInv, Sockets, NoWorker
  <2> QED
    BY <2>1, <2>2, <2>3, <2>4, <2>5, <2>6 DEF IInv
<1>2. ASSUME Enter PROVE IInv'
  <2>1. TypeOK'
    BY <1>2 DEF Enter, EntryPoint, IInv, TypeOK, Ops, UiPoints, WorkerPoints,
        Holders
  <2>2. Mutexes'
    BY <1>2 DEF Enter, EntryPoint, IInv, Mutexes, Upcalls, TypeOK, Ops,
        UiPoints, WorkerPoints, Holders
  <2>3. Calls'
    BY <1>2 DEF Enter, EntryPoint, IInv, Calls, TypeOK, Ops, UiPoints,
        WorkerPoints, Holders
  <2>4. Lifetimes'
    BY <1>2 DEF Enter, EntryPoint, IInv, Lifetimes, NoWorker, Upcalls
  <2>5. Connections'
    BY <1>2 DEF Enter, EntryPoint, IInv, Connections
  <2>6. Sockets'
    BY <1>2 DEF Enter, EntryPoint, IInv, Sockets, NoWorker, TypeOK, Ops,
        UiPoints, WorkerPoints, Holders
  <2> QED
    BY <2>1, <2>2, <2>3, <2>4, <2>5, <2>6 DEF IInv
<1>3. ASSUME Create PROVE IInv'
  <2>1. TypeOK'
    BY <1>3, <1>0 DEF Create, TypeOK, UiPoints
  <2>2. Mutexes'
    BY <1>3 DEF Create, IInv, Mutexes, Upcalls
  <2>3. Calls'
    BY <1>3 DEF Create, IInv, Calls
  <2>4. Lifetimes'
    BY <1>3 DEF Create, IInv, Lifetimes, NoWorker, Upcalls
  <2>5. Connections'
    BY <1>3 DEF Create, IInv, Connections
  <2>6. Sockets'
    BY <1>3 DEF Create, IInv, Sockets, NoWorker, TypeOK, Ops, UiPoints,
        WorkerPoints, Holders, Calls, Lifetimes, Upcalls
  <2> QED
    BY <2>1, <2>2, <2>3, <2>4, <2>5, <2>6 DEF IInv
<1>4. ASSUME Attach PROVE IInv'
  <2>1. TypeOK'
    BY <1>4 DEF Attach, IInv, TypeOK, Ops, UiPoints, WorkerPoints, Holders
  <2>2. Mutexes'
    BY <1>4 DEF Attach, IInv, Mutexes, Upcalls
  <2>3. Calls'
    BY <1>4 DEF Attach, IInv, Calls
  <2>4. Lifetimes'
    BY <1>4 DEF Attach, IInv, Lifetimes, NoWorker, Upcalls, TypeOK, Ops,
        UiPoints, WorkerPoints, Holders, Calls
  <2>5. Connections'
    BY <1>4 DEF Attach, IInv, Connections
  <2>6. Sockets'
    BY <1>4 DEF Attach, IInv, Sockets, NoWorker
  <2> QED
    BY <2>1, <2>2, <2>3, <2>4, <2>5, <2>6 DEF IInv
<1>5. ASSUME Detach PROVE IInv'
  <2>1. TypeOK'
    BY <1>5, <1>0 DEF Detach, TypeOK, UiPoints
  <2>2. Mutexes'
    BY <1>5 DEF Detach, IInv, Mutexes, Upcalls
  <2>3. Calls'
    BY <1>5 DEF Detach, IInv, Calls
  <2>4. Lifetimes'
    BY <1>5 DEF Detach, IInv, Lifetimes, NoWorker, Upcalls, TypeOK, Ops,
        UiPoints, WorkerPoints, Holders, Mutexes
  <2>5. Connections'
    BY <1>5 DEF Detach, IInv, Connections
  <2>6. Sockets'
    BY <1>5 DEF Detach, IInv, Sockets, NoWorker
  <2> QED
    BY <2>1, <2>2, <2>3, <2>4, <2>5, <2>6 DEF IInv
<1>6. ASSUME Request PROVE IInv'
  <2>1. TypeOK'
    BY <1>6 DEF Request, IInv, TypeOK, Ops, UiPoints, WorkerPoints, Holders
  <2>2. Mutexes'
    BY <1>6 DEF Request, IInv, Mutexes, Upcalls
  <2>3. Calls'
    BY <1>6 DEF Request, IInv, Calls
  <2>4. Lifetimes'
    BY <1>6 DEF Request, IInv, Lifetimes, NoWorker, Upcalls
  <2>5. Connections'
    BY <1>6 DEF Request, IInv, Connections
  <2>6. Sockets'
    BY <1>6 DEF Request, IInv, Sockets, NoWorker
  <2> QED
    BY <2>1, <2>2, <2>3, <2>4, <2>5, <2>6 DEF IInv
<1>7. ASSUME StopRunning PROVE IInv'
  <2>1. TypeOK'
    BY <1>7, <1>0 DEF StopRunning, TypeOK, UiPoints
  <2>2. Mutexes'
    BY <1>7 DEF StopRunning, IInv, Mutexes, Upcalls
  <2>3. Calls'
    BY <1>7 DEF StopRunning, IInv, Calls
  <2>4. Lifetimes'
    BY <1>7 DEF StopRunning, IInv, Lifetimes, NoWorker, Upcalls
  <2>5. Connections'
    BY <1>7 DEF StopRunning, IInv, Connections
  <2>6. Sockets'
    BY <1>7 DEF StopRunning, IInv, Sockets, NoWorker
  <2> QED
    BY <2>1, <2>2, <2>3, <2>4, <2>5, <2>6 DEF IInv
<1>8. ASSUME CloseSocket PROVE IInv'
  <2>1. TypeOK'
    BY <1>8 DEF CloseSocket, Closed, IInv, TypeOK, Ops, UiPoints,
        WorkerPoints, Holders
  <2>2. Mutexes'
    BY <1>8 DEF CloseSocket, Closed, IInv, Mutexes, Upcalls
  <2>3. Calls'
    BY <1>8 DEF CloseSocket, Closed, IInv, Calls
  <2>4. Lifetimes'
    BY <1>8 DEF CloseSocket, Closed, IInv, Lifetimes, NoWorker, Upcalls
  <2>5. Connections'
    BY <1>8 DEF CloseSocket, Closed, IInv, Connections
  <2>6. Sockets'
    BY <1>8 DEF CloseSocket, Closed, IInv, Sockets, NoWorker, TypeOK, Ops,
        UiPoints, WorkerPoints, Holders
  <2> QED
    BY <2>1, <2>2, <2>3, <2>4, <2>5, <2>6 DEF IInv
<1>9. ASSUME ForgetSocket PROVE IInv'
  <2>1. TypeOK'
    BY <1>9, <1>0 DEF ForgetSocket, TypeOK, UiPoints
  <2>2. Mutexes'
    BY <1>9 DEF ForgetSocket, IInv, Mutexes, Upcalls
  <2>3. Calls'
    BY <1>9 DEF ForgetSocket, IInv, Calls
  <2>4. Lifetimes'
    BY <1>9 DEF ForgetSocket, IInv, Lifetimes, NoWorker, Upcalls
  <2>5. Connections'
    BY <1>9 DEF ForgetSocket, IInv, Connections
  <2>6. Sockets'
    BY <1>9 DEF ForgetSocket, IInv, Sockets, NoWorker
  <2> QED
    BY <2>1, <2>2, <2>3, <2>4, <2>5, <2>6 DEF IInv
<1>10. ASSUME Join PROVE IInv'
  <2>1. TypeOK'
    BY <1>10 DEF Join, IInv, TypeOK, Ops, UiPoints, WorkerPoints, Holders
  <2>2. Mutexes'
    BY <1>10 DEF Join, IInv, Mutexes, Upcalls
  <2>3. Calls'
    BY <1>10 DEF Join, IInv, Calls
  <2>4. Lifetimes'
    BY <1>10 DEF Join, IInv, Lifetimes, NoWorker, Upcalls, TypeOK, Ops,
        UiPoints, WorkerPoints, Holders, Sockets
  <2>5. Connections'
    BY <1>10 DEF Join, IInv, Connections
  <2>6. Sockets'
    BY <1>10 DEF Join, IInv, Sockets, NoWorker
  <2> QED
    BY <2>1, <2>2, <2>3, <2>4, <2>5, <2>6 DEF IInv
<1>11. ASSUME OpenSocket PROVE IInv'
  <2>1. TypeOK'
    <3>1. openFds' \in 0..1
      BY <1>11 DEF OpenSocket, WorkerGoes, IInv, TypeOK, Sockets
    <3>2. worker' \in WorkerPoints /\ fd' \in BOOLEAN
      BY <1>11 DEF OpenSocket, WorkerGoes, WorkerPoints
    <3> QED
      BY <1>11, <3>1, <3>2 DEF OpenSocket, IInv, TypeOK
  <2>2. Mutexes'
    BY <1>11 DEF OpenSocket, WorkerGoes, IInv, Mutexes, Upcalls
  <2>3. Calls'
    BY <1>11 DEF OpenSocket, WorkerGoes, IInv, Calls
  <2>4. Lifetimes'
    BY <1>11 DEF OpenSocket, WorkerGoes, IInv, Lifetimes, NoWorker, Upcalls
  <2>5. Connections'
    BY <1>11 DEF OpenSocket, WorkerGoes, IInv, Connections
  <2>6. Sockets'
    BY <1>11 DEF OpenSocket, WorkerGoes, IInv, Sockets, NoWorker, TypeOK, Ops,
        UiPoints, WorkerPoints, Holders
  <2> QED
    BY <2>1, <2>2, <2>3, <2>4, <2>5, <2>6 DEF IInv
<1>12. ASSUME Connect PROVE IInv'
  <2>1. TypeOK'
    BY <1>12, <1>0 DEF Connect, WorkerGoes, TypeOK, WorkerPoints
  <2>2. Mutexes'
    BY <1>12 DEF Connect, WorkerGoes, IInv, Mutexes, Upcalls
  <2>3. Calls'
    BY <1>12 DEF Connect, WorkerGoes, IInv, Calls
  <2>4. Lifetimes'
    BY <1>12 DEF Connect, WorkerGoes, IInv, Lifetimes, NoWorker, Upcalls
  <2>5. Connections'
    BY <1>12 DEF Connect, WorkerGoes, IInv, Connections
  <2>6. Sockets'
    BY <1>12 DEF Connect, WorkerGoes, IInv, Sockets, NoWorker
  <2> QED
    BY <2>1, <2>2, <2>3, <2>4, <2>5, <2>6 DEF IInv
<1>13. ASSUME Abandon PROVE IInv'
  <2>1. TypeOK'
    <3>1. openFds' \in 0..1
      BY <1>13 DEF Abandon, Closed, IInv, TypeOK
    <3>2. worker' \in WorkerPoints /\ fd' \in BOOLEAN
      BY <1>13 DEF Abandon, WorkerGoes, WorkerPoints
    <3> QED
      BY <1>13, <3>1, <3>2 DEF Abandon, IInv, TypeOK
  <2>2. Mutexes'
    BY <1>13 DEF Abandon, WorkerGoes, Closed, IInv, Mutexes, Upcalls
  <2>3. Calls'
    BY <1>13 DEF Abandon, WorkerGoes, Closed, IInv, Calls
  <2>4. Lifetimes'
    BY <1>13 DEF Abandon, WorkerGoes, Closed, IInv, Lifetimes, NoWorker,
        Upcalls
  <2>5. Connections'
    BY <1>13 DEF Abandon, WorkerGoes, Closed, IInv, Connections
  <2>6. Sockets'
    BY <1>13 DEF Abandon, WorkerGoes, Closed, IInv, Sockets, NoWorker, TypeOK,
        Ops, UiPoints, WorkerPoints, Holders
  <2> QED
    BY <2>1, <2>2, <2>3, <2>4, <2>5, <2>6 DEF IInv
<1>14. ASSUME Loop PROVE IInv'
  <2>1. TypeOK'
    BY <1>14 DEF Loop, WorkerGoes, IInv, TypeOK, Ops, UiPoints, WorkerPoints,
        Holders
  <2>2. Mutexes'
    BY <1>14 DEF Loop, WorkerGoes, IInv, Mutexes, Upcalls
  <2>3. Calls'
    BY <1>14 DEF Loop, WorkerGoes, IInv, Calls
  <2>4. Lifetimes'
    BY <1>14 DEF Loop, WorkerGoes, IInv, Lifetimes, NoWorker, Upcalls
  <2>5. Connections'
    BY <1>14 DEF Loop, WorkerGoes, IInv, Connections
  <2>6. Sockets'
    BY <1>14 DEF Loop, WorkerGoes, IInv, Sockets, NoWorker
  <2> QED
    BY <2>1, <2>2, <2>3, <2>4, <2>5, <2>6 DEF IInv
<1>15. ASSUME Leave PROVE IInv'
  <2>1. TypeOK'
    BY <1>15, <1>0 DEF Leave, WorkerGoes, TypeOK, WorkerPoints
  <2>2. Mutexes'
    BY <1>15 DEF Leave, WorkerGoes, IInv, Mutexes, Upcalls
  <2>3. Calls'
    BY <1>15 DEF Leave, WorkerGoes, IInv, Calls
  <2>4. Lifetimes'
    BY <1>15 DEF Leave, WorkerGoes, IInv, Lifetimes, NoWorker, Upcalls
  <2>5. Connections'
    BY <1>15 DEF Leave, WorkerGoes, IInv, Connections
  <2>6. Sockets'
    BY <1>15 DEF Leave, WorkerGoes, IInv, Sockets, NoWorker
  <2> QED
    BY <2>1, <2>2, <2>3, <2>4, <2>5, <2>6 DEF IInv
<1>16. ASSUME HandlePacket PROVE IInv'
  <2>1. TypeOK'
    BY <1>16 DEF HandlePacket, WorkerGoes, IInv, TypeOK, Ops, UiPoints,
        WorkerPoints, Holders
  <2>2. Mutexes'
    BY <1>16 DEF HandlePacket, WorkerGoes, IInv, Mutexes, Upcalls
  <2>3. Calls'
    BY <1>16 DEF HandlePacket, WorkerGoes, IInv, Calls
  <2>4. Lifetimes'
    BY <1>16 DEF HandlePacket, WorkerGoes, IInv, Lifetimes, NoWorker, Upcalls
  <2>5. Connections'
    BY <1>16 DEF HandlePacket, WorkerGoes, IInv, Connections
  <2>6. Sockets'
    BY <1>16 DEF HandlePacket, WorkerGoes, IInv, Sockets, NoWorker
  <2> QED
    BY <2>1, <2>2, <2>3, <2>4, <2>5, <2>6 DEF IInv
<1>17. ASSUME Notify PROVE IInv'
  <2>1. TypeOK'
    BY <1>17 DEF Notify, UpcallOf, After, IInv, TypeOK, Ops, UiPoints,
        WorkerPoints, Holders
  <2>2. Mutexes'
    BY <1>17 DEF Notify, UpcallOf, After, IInv, Mutexes, Upcalls
  <2>3. Calls'
    BY <1>17 DEF Notify, UpcallOf, After, IInv, Calls
  <2>4. Lifetimes'
    BY <1>17 DEF Notify, UpcallOf, After, IInv, Lifetimes, NoWorker, Upcalls
  <2>5. Connections'
    BY <1>17 DEF Notify, UpcallOf, After, IInv, Connections
  <2>6. Sockets'
    BY <1>17 DEF Notify, UpcallOf, After, IInv, Sockets, NoWorker, TypeOK,
        Ops, UiPoints, WorkerPoints, Holders, Mutexes, Upcalls
  <2> QED
    BY <2>1, <2>2, <2>3, <2>4, <2>5, <2>6 DEF IInv
<1>18. ASSUME Upcall PROVE IInv'
  <2>1. TypeOK'
    BY <1>18 DEF Upcall, Told, After, IInv, TypeOK, Ops, UiPoints,
        WorkerPoints, Holders
  <2>2. Mutexes'
    BY <1>18 DEF Upcall, Told, After, IInv, Mutexes, Upcalls
  <2>3. Calls'
    BY <1>18 DEF Upcall, Told, After, IInv, Calls
  <2>4. Lifetimes'
    BY <1>18 DEF Upcall, Told, After, IInv, Lifetimes, NoWorker, Upcalls
  <2>5. Connections'
    BY <1>18 DEF Upcall, Told, After, IInv, Connections
  <2>6. Sockets'
    BY <1>18 DEF Upcall, Told, After, IInv, Sockets, NoWorker, TypeOK, Ops,
        UiPoints, WorkerPoints, Holders, Mutexes, Upcalls
  <2> QED
    BY <2>1, <2>2, <2>3, <2>4, <2>5, <2>6 DEF IInv
<1>19. ASSUME Recv PROVE IInv'
  <2>1. TypeOK'
    BY <1>19 DEF Recv, WorkerGoes, IInv, TypeOK, Ops, UiPoints, WorkerPoints,
        Holders
  <2>2. Mutexes'
    BY <1>19 DEF Recv, WorkerGoes, IInv, Mutexes, Upcalls
  <2>3. Calls'
    BY <1>19 DEF Recv, WorkerGoes, IInv, Calls
  <2>4. Lifetimes'
    BY <1>19 DEF Recv, WorkerGoes, IInv, Lifetimes, NoWorker, Upcalls
  <2>5. Connections'
    BY <1>19 DEF Recv, WorkerGoes, IInv, Connections
  <2>6. Sockets'
    BY <1>19 DEF Recv, WorkerGoes, IInv, Sockets, NoWorker
  <2> QED
    BY <2>1, <2>2, <2>3, <2>4, <2>5, <2>6 DEF IInv
<1>20. ASSUME UNCHANGED vars PROVE IInv'
    BY <1>20 DEF vars, IInv, TypeOK, Ops, UiPoints, WorkerPoints, Holders,
        Mutexes, Upcalls, Calls, Lifetimes, NoWorker, Connections, Sockets
<1> QED
    BY <1>1, <1>2, <1>3, <1>4, <1>5, <1>6, <1>7, <1>8, <1>9, <1>10, <1>11,
        <1>12, <1>13, <1>14, <1>15, <1>16, <1>17, <1>18, <1>19, <1>20 DEF
        Next, UiStep, WorkerStep

LEMMA Invariance == Spec => []IInv
  BY InitIInv, StepIInv, PTL DEF Spec

\* The threads, the mutexes and the sockets keep their types: at most one
\* socket is open at a time.
THEOREM BridgeTyped == Spec => []TypeOK
<1>1. IInv => TypeOK
  BY DEF IInv, TypeOK
<1> QED
  BY Invariance, <1>1, PTL

\* isConnected is true only while a worker may still receive.
THEOREM ConnectedWhileReceiving == Spec => []ConnectedHasWorker
<1>1. IInv => ConnectedHasWorker
  BY DEF IInv, ConnectedHasWorker, Connections
<1> QED
  BY Invariance, <1>1, PTL

\* A service whose worker is gone was not last told that it is connected.
THEOREM LossIsTold == Spec => []NoStaleUp
<1>1. IInv => NoStaleUp
  BY DEF IInv, NoStaleUp, Lifetimes, NoWorker
<1> QED
  BY Invariance, <1>1, PTL

\* The worker uses neither the service nor the client after its end.
THEOREM NothingIsUsedAfterItsEnd == Spec => []UpcallHasService
<1>1. IInv => UpcallHasService
  BY DEF IInv, UpcallHasService, Lifetimes, Upcalls, NoWorker
<1> QED
  BY Invariance, <1>1, PTL

\* No socket is forgotten while it is open, over any number of connections.
THEOREM SocketsAreClosed == Spec => []NoSocketLeak
<1>1. IInv => NoSocketLeak
  BY DEF IInv, NoSocketLeak, Sockets
<1> QED
  BY Invariance, <1>1, PTL

\* What each thread can wait for: a mutex or the end of the other thread.  In
\* all other places it has a step (the worker in recv that of the server, the UI
\* thread about to lock g_mutex again if Relock allows it), so a thread that
\* waits is one without an ENABLED step, which is how TwoEmbraces says it.
UiWaits ==
    \/ ui = "entry" /\ gMutex # "free"
    \/ ui = "request" /\ cbMutex # "free"
    \/ ui = "join" /\ ~NoWorker
WorkerWaits == worker \in {"tellUp", "packet", "tellDown"} /\ gMutex # "free"

\* When the UI thread waits and the worker waits or is gone, they wait for each
\* other, in one of the two ways of Embrace, and not for a mutex that nobody
\* gives back.
THEOREM OnlyEmbracesStandStill ==
    Spec => [](UiWaits /\ (WorkerWaits \/ NoWorker) => Embrace)
<1>1. IInv => (UiWaits /\ (WorkerWaits \/ NoWorker) => Embrace)
  <2> SUFFICES ASSUME IInv, UiWaits, WorkerWaits \/ NoWorker PROVE Embrace
    OBVIOUS
  <2>1. gMutex \in Holders /\ cbMutex \in Holders /\ Mutexes
    BY DEF IInv, TypeOK
  <2>2. WorkerWaits
    BY <2>1 DEF UiWaits, NoWorker, Mutexes, Upcalls, Holders
  <2>3. gMutex = "ui" /\ ui \notin {"idle", "entry"}
    BY <2>1, <2>2 DEF WorkerWaits, Mutexes, Upcalls, Holders
  <2>4. CASE ui = "request" /\ cbMutex # "free"
    BY <2>1, <2>2, <2>3, <2>4 DEF WorkerWaits, Embrace, Mutexes, Upcalls, Holders
  <2>5. CASE ui = "join"
    BY <2>2, <2>3, <2>5 DEF WorkerWaits, Embrace
  <2> QED
    BY <2>3, <2>4, <2>5 DEF UiWaits
<1> QED
  BY <1>1, Invariance, PTL
=============================================================================
