----------------------------- MODULE NativeClient -----------------------------
(***************************************************************************)
(* The native half of the Android client: ChatClient (chat_client.cpp) and *)
(* the JNI bridge around it (native-lib.cpp).  The UI thread makes the     *)
(* native calls, which all run under g_mutex; the worker thread of         *)
(* ChatClient::run receives packets and calls back into Java, under        *)
(* g_mutex as well, and for a packet under callback_mutex_ too.            *)
(*                                                                         *)
(* What is received is abstract: recv returns when the server sends or     *)
(* closes, and the bytes in read_buffer_ may hold any number of packets,   *)
(* which also stands for a buffer that a previous connection left there.   *)
(*                                                                         *)
(* nativeInit and nativeDestroy hold g_mutex when attach_callbacks and     *)
(* detach_callbacks lock it again.  Relock says what that does: FALSE is   *)
(* the std::mutex of the code, on which the thread waits for itself; TRUE  *)
(* lets it through, which is what the rest of the bridge counts on.        *)
(***************************************************************************)
EXTENDS Naturals

CONSTANT Relock

ASSUME RelockAssumption == Relock \in BOOLEAN

VARIABLES
    service,    \* ChatService exists in Java
    client,     \* g_client is set
    attached,   \* g_service_obj is set
    gMutex,     \* the thread that holds g_mutex
    cbMutex,    \* the thread that holds callback_mutex_
    op, ui,     \* the native call under way and where the UI thread is in it
    worker,     \* where worker_thread_ is; "none" when it is not joinable
    running,    \* running_
    connected,  \* connected_
    fd,         \* socket_fd_ is not -1
    openFds,    \* sockets of the process that are open
    status      \* what the service was last told about the connection

javaVars == <<service, status>>
bridgeVars == <<client, attached>>
clientVars == <<running, connected, fd, openFds>>
vars == <<javaVars, bridgeVars, gMutex, cbMutex, op, ui, worker, clientVars>>

Ops == {"init", "connect", "disconnect", "request", "brief", "destroy"}
UiPoints == {"idle", "entry", "create", "attach", "detach", "stop", "close",
             "forget", "join", "request"}
WorkerPoints == {"none", "socket", "connect", "abandon", "tellUp", "upUp", "loop",
                 "recv", "packets", "packet", "upPacket", "leave", "tellDown",
                 "upDown", "done"}
Holders == {"free", "ui", "worker"}

TypeOK ==
    /\ service \in BOOLEAN /\ client \in BOOLEAN /\ attached \in BOOLEAN
    /\ gMutex \in Holders /\ cbMutex \in Holders
    /\ op \in Ops /\ ui \in UiPoints /\ worker \in WorkerPoints
    /\ running \in BOOLEAN /\ connected \in BOOLEAN /\ fd \in BOOLEAN
    /\ openFds \in 0..1
    /\ status \in {"unknown", "up", "down"}

Init ==
    /\ service = FALSE /\ client = FALSE /\ attached = FALSE
    /\ gMutex = "free" /\ cbMutex = "free"
    /\ op = "init" /\ ui = "idle" /\ worker = "none"
    /\ running = FALSE /\ connected = FALSE /\ fd = FALSE /\ openFds = 0
    /\ status = "unknown"

-----------------------------------------------------------------------------
(* The UI thread *)

\* Android creates the service first and destroys it last; in between the
\* activities call it.  "request" stands for the calls that leave a callback,
\* "brief" for nativeSendMessage, nativeAddFriend and nativeIsConnected.
Call(o) ==
    /\ ui = "idle"
    /\ (o = "init") = ~service
    /\ op' = o /\ ui' = "entry" /\ service' = TRUE
    /\ status' = IF o = "init" THEN "unknown" ELSE status
    /\ UNCHANGED <<bridgeVars, gMutex, cbMutex, worker, clientVars>>

EntryPoint(o) ==
    CASE o = "init" -> "create"
      [] o = "request" -> "request"
      [] o = "destroy" -> "detach"
      [] o \in {"connect", "disconnect"} -> "stop"

\* Mutation: connect disconnects only a client that is connected.
EnterIfConnected ==
    /\ ui = "entry" /\ gMutex = "free"
    /\ IF op = "brief" THEN ui' = "idle" /\ UNCHANGED gMutex
       ELSE /\ gMutex' = "ui"
            /\ ui' = IF op = "connect" /\ ~connected THEN "join" ELSE EntryPoint(op)
    /\ UNCHANGED <<javaVars, bridgeVars, cbMutex, op, worker, clientVars>>

\* The lock_guard at the top of every native call.  A brief call is done with
\* it at once.
Enter ==
    /\ ui = "entry" /\ gMutex = "free"
    /\ IF op = "brief" THEN ui' = "idle" /\ UNCHANGED gMutex
                       ELSE ui' = EntryPoint(op) /\ gMutex' = "ui"
    /\ UNCHANGED <<javaVars, bridgeVars, cbMutex, op, worker, clientVars>>

\* nativeInit makes the client and sets its callbacks, which nobody else holds.
Create ==
    /\ ui = "create"
    /\ client' = TRUE
    /\ running' = FALSE /\ connected' = FALSE /\ fd' = FALSE
    /\ ui' = "attach"
    /\ UNCHANGED <<javaVars, attached, gMutex, cbMutex, op, worker, openFds>>

\* attach_callbacks, the end of nativeInit.
Attach ==
    /\ ui = "attach" /\ Relock
    /\ attached' = TRUE
    /\ gMutex' = "free" /\ ui' = "idle"
    /\ UNCHANGED <<javaVars, client, cbMutex, op, worker, clientVars>>

\* detach_callbacks, after which nativeDestroy destroys the client.
Detach ==
    /\ ui = "detach" /\ Relock
    /\ attached' = FALSE
    /\ ui' = "stop"
    /\ UNCHANGED <<javaVars, client, gMutex, cbMutex, op, worker, clientVars>>

\* ChatClient::login and the other requests: register the callback, send, and
\* return from both.
Request ==
    /\ ui = "request" /\ cbMutex = "free"
    /\ gMutex' = "free" /\ ui' = "idle"
    /\ UNCHANGED <<javaVars, bridgeVars, cbMutex, op, worker, clientVars>>

-----------------------------------------------------------------------------
(* ChatClient::disconnect, also the start of connect and the destructor.   *)
(* close and the assignment that follows are apart: the worker uses        *)
(* socket_fd_ without a lock.                                              *)

StopRunning ==
    /\ ui = "stop"
    /\ running' = FALSE
    /\ ui' = IF fd THEN "close" ELSE "join"
    /\ UNCHANGED <<javaVars, bridgeVars, gMutex, cbMutex, op, worker, connected, fd, openFds>>

\* Closing what is closed already has no effect.
Closed == IF openFds = 0 THEN 0 ELSE openFds - 1

CloseSocket ==
    /\ ui = "close"
    /\ openFds' = Closed
    /\ ui' = "forget"
    /\ UNCHANGED <<javaVars, bridgeVars, gMutex, cbMutex, op, worker, running, connected, fd>>

ForgetSocket ==
    /\ ui = "forget"
    /\ fd' = FALSE
    /\ ui' = "join"
    /\ UNCHANGED <<javaVars, bridgeVars, gMutex, cbMutex, op, worker, running, connected, openFds>>

\* The worker is gone; connect starts the next one, nativeDestroy drops the
\* client.  The call returns.
Join ==
    /\ ui = "join" /\ worker \in {"none", "done"}
    /\ connected' = FALSE
    /\ running' = (op = "connect")
    /\ worker' = IF op = "connect" THEN "socket" ELSE "none"
    /\ client' = (op # "destroy") /\ service' = (op # "destroy")
    /\ gMutex' = "free" /\ ui' = "idle"
    /\ UNCHANGED <<status, attached, cbMutex, op, fd, openFds>>

UiStep == Enter \/ Create \/ Attach \/ Detach \/ Request
          \/ StopRunning \/ CloseSocket \/ ForgetSocket \/ Join

-----------------------------------------------------------------------------
(* The worker thread: ChatClient::run and read_loop *)

WorkerGoes(from, to) == worker = from /\ worker' = to

OpenSocket ==
    /\ \/ WorkerGoes("socket", "connect") /\ fd' = TRUE /\ openFds' = openFds + 1
       \/ WorkerGoes("socket", "tellDown") /\ fd' = FALSE /\ UNCHANGED openFds
    /\ UNCHANGED <<javaVars, bridgeVars, gMutex, cbMutex, op, ui, running, connected>>

\* The server is reached, unless the UI thread has closed the socket before.
Connect ==
    /\ \/ WorkerGoes("connect", "tellUp") /\ fd /\ openFds > 0 /\ connected' = TRUE
       \/ WorkerGoes("connect", "abandon") /\ UNCHANGED connected
    /\ UNCHANGED <<javaVars, bridgeVars, gMutex, cbMutex, op, ui, running, fd, openFds>>

\* Mutation: the socket of a failed attempt is forgotten without being closed.
AbandonOpen ==
    /\ WorkerGoes("abandon", "tellDown")
    /\ fd' = FALSE
    /\ UNCHANGED <<javaVars, bridgeVars, gMutex, cbMutex, op, ui, running, connected, openFds>>

\* ::connect failed.
Abandon ==
    /\ WorkerGoes("abandon", "tellDown")
    /\ openFds' = (IF fd THEN Closed ELSE openFds) /\ fd' = FALSE
    /\ UNCHANGED <<javaVars, bridgeVars, gMutex, cbMutex, op, ui, running, connected>>

\* The loop ends when running_ is false or the socket is closed; else recv
\* blocks.
Loop ==
    /\ IF running /\ fd /\ openFds > 0 THEN WorkerGoes("loop", "recv")
                                       ELSE WorkerGoes("loop", "leave")
    /\ UNCHANGED <<javaVars, bridgeVars, gMutex, cbMutex, op, ui, clientVars>>

\* The server sends, or closes the connection.  On Linux a close by another
\* thread does not end a recv that blocks already.
Recv ==
    /\ WorkerGoes("recv", "packets") \/ WorkerGoes("recv", "leave")
    /\ UNCHANGED <<javaVars, bridgeVars, gMutex, cbMutex, op, ui, clientVars>>

\* Mutation: the loop ends with connected_ still set.
LeaveConnected ==
    /\ WorkerGoes("leave", "tellDown")
    /\ UNCHANGED <<javaVars, bridgeVars, gMutex, cbMutex, op, ui, clientVars>>

\* Mutation: the end of the loop is not reported.
LeaveSilently ==
    /\ WorkerGoes("leave", "done")
    /\ connected' = FALSE
    /\ UNCHANGED <<javaVars, bridgeVars, gMutex, cbMutex, op, ui, running, fd, openFds>>

\* After the loop.
Leave ==
    /\ WorkerGoes("leave", "tellDown")
    /\ connected' = FALSE
    /\ UNCHANGED <<javaVars, bridgeVars, gMutex, cbMutex, op, ui, running, fd, openFds>>

\* handle_packet: the buffer holds no whole packet any more, or one with a
\* callback to call under callback_mutex_.
HandlePacket ==
    /\ \/ WorkerGoes("packets", "loop") /\ UNCHANGED cbMutex
       \/ WorkerGoes("packets", "packet") /\ cbMutex = "free" /\ cbMutex' = "worker"
    /\ UNCHANGED <<javaVars, bridgeVars, gMutex, op, ui, clientVars>>

-----------------------------------------------------------------------------
(* The notify_* functions of the bridge, on the worker thread *)

\* What the worker does after a notification.
After(point) == CASE point \in {"tellUp", "upUp"} -> "loop"
                  [] point \in {"packet", "upPacket"} -> "packets"
                  [] point \in {"tellDown", "upDown"} -> "done"

UpcallOf(point) == CASE point = "tellUp" -> "upUp"
                     [] point = "packet" -> "upPacket"
                     [] point = "tellDown" -> "upDown"

\* Mutation: the service is looked up before the mutex is locked.
NotifyUnlocked ==
    /\ worker \in {"tellUp", "packet", "tellDown"}
    /\ worker' = IF attached THEN UpcallOf(worker) ELSE After(worker)
    /\ cbMutex' = IF cbMutex = "worker" /\ ~attached THEN "free" ELSE cbMutex
    /\ UNCHANGED <<javaVars, bridgeVars, gMutex, op, ui, clientVars>>

\* notify_*: with g_mutex, call the service, if there is one.
Notify ==
    /\ worker \in {"tellUp", "packet", "tellDown"}
    /\ gMutex = "free"
    /\ IF attached
       THEN worker' = UpcallOf(worker) /\ gMutex' = "worker" /\ UNCHANGED cbMutex
       ELSE /\ worker' = After(worker) /\ UNCHANGED gMutex
            /\ cbMutex' = IF cbMutex = "worker" THEN "free" ELSE cbMutex
    /\ UNCHANGED <<javaVars, bridgeVars, op, ui, clientVars>>

Told == CASE worker = "upUp" -> "up" [] worker = "upDown" -> "down"
          [] OTHER -> status

\* Mutation: callback_mutex_ is not released.
UpcallKeepingLock ==
    /\ worker \in {"upUp", "upPacket", "upDown"}
    /\ status' = Told /\ worker' = After(worker)
    /\ gMutex' = "free"
    /\ UNCHANGED <<service, bridgeVars, cbMutex, op, ui, clientVars>>

\* The Java method runs and returns, and the mutexes are released.  None of
\* them makes a native call: they post to the UI thread.
Upcall ==
    /\ worker \in {"upUp", "upPacket", "upDown"}
    /\ status' = Told /\ worker' = After(worker)
    /\ gMutex' = "free"
    /\ cbMutex' = IF cbMutex = "worker" THEN "free" ELSE cbMutex
    /\ UNCHANGED <<service, bridgeVars, op, ui, clientVars>>

WorkerStep == OpenSocket \/ Connect \/ Abandon \/ Loop \/ Leave \/ HandlePacket
              \/ Notify \/ Upcall

-----------------------------------------------------------------------------
Next == (\E o \in Ops : Call(o)) \/ UiStep \/ WorkerStep \/ Recv

Spec == Init /\ [][Next]_vars

\* Both threads run; the server need not send anything.
FairSpec == Spec /\ WF_vars(UiStep) /\ WF_vars(WorkerStep)

-----------------------------------------------------------------------------
(* Properties *)

\* isConnected says yes only while a worker may still receive: neither a lost
\* connection nor a disconnect leaves it behind.
ConnectedHasWorker ==
    connected => worker \notin {"none", "socket", "connect", "abandon", "done"}

\* The service is not told that it is connected and then left with that: when
\* the worker is gone the last word of this service was not "up".
NoStaleUp ==
    attached /\ worker \in {"none", "done"} => status # "up"

\* The worker is gone before what it uses: a Java method is called only on a
\* service that nativeDestroy has not taken away - the reference that notify_*
\* has checked is valid until it returns - and members of ChatClient are used
\* only while there is one.
UpcallHasService ==
    /\ worker \in {"upUp", "upPacket", "upDown"} => attached
    /\ worker \notin {"none", "done"} => client

\* No socket is forgotten while it is open, over any number of connections,
\* failures and reconnections.
NoSocketLeak == openFds <= IF fd THEN 1 ELSE 0

\* The threads can wait for each other in two ways only: the UI thread joins a
\* worker that wants g_mutex, or makes a request while the worker delivers a
\* packet, each with one of the mutexes the other wants.
Embrace ==
    /\ gMutex = "ui" /\ worker \in {"tellUp", "packet", "tellDown"}
    /\ ui = "join" \/ (ui = "request" /\ cbMutex = "worker" /\ worker = "packet")

TwoEmbraces ==
    (ui # "idle" /\ ~ENABLED UiStep /\ ~ENABLED (WorkerStep \/ Recv) /\ Relock) => Embrace

\* The service can be created: nativeInit returns.  The application does
\* nothing before that.
InitReturns == (ui = "entry" /\ op = "init") ~> ui = "idle"
=============================================================================
