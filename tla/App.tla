---------------------------------- MODULE App ----------------------------------
(***************************************************************************)
(* The Java half of the Android client: the activities, the ChatService    *)
(* that they bind, and its one listener field, which every activity takes  *)
(* when its binding is connected and none gives back.  The user and the    *)
(* system open, stop and finish activities; answers and changes of the     *)
(* connection come from the worker thread of ChatClient and are run later, *)
(* as messages of the main thread (runOnUiThread).                         *)
(*                                                                         *)
(* ForgotPasswordActivity has the shape of RegisterActivity and is left    *)
(* out, as are messages and friend lists, which only change what a screen  *)
(* displays.  The native calls return here: the ways in which they do not  *)
(* are the subject of NativeClient.                                        *)
(***************************************************************************)
EXTENDS Naturals, Sequences

CONSTANTS
    MaxScreens,  \* bound: activities opened in a behaviour
    MaxAsked     \* bound: requests that wait for their answer

ASSUME AppAssumption == MaxScreens \in Nat \ {0} /\ MaxAsked \in Nat \ {0}

VARIABLES
    screens,    \* which activity each instance is, in the order of creation
    stack,      \* the back stack of the task
    sys,        \* startActivity and finish calls that the system has yet to carry out
    stopped,    \* the instances that the system has told to stop
    early,      \* history: those that came back before they were stopped
    front,      \* the instance that the user sees, 0 when there is none
    main,       \* the messages of the main thread
    bound,      \* the instances whose field bound is true
    served,     \* the instances whose field chatService is set
    clients,    \* the instances that the system counts as bound to ChatService
    slot,       \* ChatService.listener, 0 for null
    disabled,   \* the instances whose btnLogin or btnRegister is disabled
    closing,    \* the instances with a delayed finish
    worker,     \* where the worker thread of ChatClient is
    asked,      \* the requests without an answer on this connection
    loggedIn,   \* the server has logged the connection in
    parting,    \* history: what takes the service away, once it is known
    ended       \* history: how the last login ended

systemVars == <<screens, stack, sys, stopped, early>>
bindingVars == <<bound, served, clients>>
buttonVars == <<disabled, closing>>
connectionVars == <<worker, asked, loggedIn, parting, ended>>
vars == <<systemVars, front, main, bindingVars, slot, buttonVars, connectionVars>>

Instances == 1 .. MaxScreens
Activities == {"Login", "Register", "FriendList", "Chat", "About"}
Is(a, activity) == a \in 1 .. Len(screens) /\ screens[a] = activity
Binds(a) == ~Is(a, "About")
Top == IF stack = <<>> THEN 0 ELSE stack[Len(stack)]

Calls == [op : {"open"}, what : Activities] \union [op : {"finish"}, what : Instances]
Events == {"up", "down", "loginOk", "loginFailed", "registered", "refused"}
Messages ==
    [m : {"launch", "resume", "restart", "connected", "stop", "destroy"}, a : Instances]
    \union [m : Events, a : Instances] \union [m : {"destroyService"}, a : {0}]

Msg(m, a) == [m |-> m, a |-> a]
Open(activity) == [op |-> "open", what |-> activity]
FinishOf(a) == [op |-> "finish", what |-> a]

TypeOK ==
    /\ screens \in Seq(Activities) /\ Len(screens) <= MaxScreens
    /\ stack \in Seq(Instances) /\ sys \in Seq(Calls)
    /\ stopped \subseteq Instances /\ early \subseteq Instances
    /\ front \in Instances \union {0} /\ slot \in Instances \union {0}
    /\ main \in Seq(Messages)
    /\ bound \subseteq served \intersect clients
    /\ served \subseteq Instances /\ clients \subseteq Instances
    /\ disabled \subseteq served /\ closing \subseteq Instances
    /\ worker \in {"none", "connecting", "tellUp", "reading", "tellDown"}
    /\ asked \in Seq({"login", "register"})
    /\ loggedIn \in BOOLEAN /\ parting \in {"no", "left", "recreated"}
    /\ ended \in {"none", "lost", "logout", "left", "recreated", "dropped", "reconnect"}

Init ==
    /\ screens = <<>> /\ stack = <<>> /\ sys = <<>> /\ stopped = {} /\ early = {}
    /\ front = 0 /\ main = <<>>
    /\ bound = {} /\ served = {} /\ clients = {} /\ slot = 0
    /\ disabled = {} /\ closing = {}
    /\ worker = "none" /\ asked = <<>> /\ loggedIn = FALSE
    /\ parting = "no" /\ ended = "none"

-----------------------------------------------------------------------------
(* The user, who touches the screen in front.  What an event handler asks  *)
(* of the system takes effect later; messages that are in main already run *)
(* before it.                                                              *)

UserSees(activity) == front # 0 /\ front = Top /\ sys = <<>> /\ Is(front, activity)

\* The icon of the application.
Start ==
    /\ stack = <<>> /\ sys = <<>>
    /\ sys' = <<Open("Login")>>
    /\ UNCHANGED <<screens, stack, stopped, early, front, main, bindingVars, slot,
                   buttonVars, connectionVars>>

\* btnRegister of the login, a friend of the list, the menu's About.
OpenScreen(from, to) ==
    /\ UserSees(from)
    /\ sys' = <<Open(to)>>
    /\ parting' = IF to = "About" THEN "left" ELSE parting
    /\ UNCHANGED <<screens, stack, stopped, early, front, main, bindingVars, slot,
                   buttonVars, worker, asked, loggedIn, ended>>

\* The back key, btnBack, or home in the title bar.
Back ==
    /\ front # 0 /\ front = Top /\ sys = <<>>
    /\ sys' = <<FinishOf(front)>>
    /\ parting' = IF Len(stack) = 1 THEN "left" ELSE parting
    /\ UNCHANGED <<screens, stack, stopped, early, front, main, bindingVars, slot,
                   buttonVars, worker, asked, loggedIn, ended>>

Connected == worker \in {"tellUp", "reading"}

\* The click on btnLogin or btnRegister, with fields that pass the tests.
Ask(activity, request) ==
    /\ UserSees(activity) /\ front \in served \ disabled
    /\ Connected /\ Len(asked) < MaxAsked
    /\ asked' = Append(asked, request)
    /\ disabled' = disabled \union {front}
    /\ UNCHANGED <<systemVars, front, main, bindingVars, slot, closing, worker,
                   loggedIn, parting, ended>>

\* What an activity has to say about an event; an empty method posts nothing.
Heeds(a, event) ==
    \/ Is(a, "Login") /\ event \in {"up", "down", "loginOk", "loginFailed"}
    \/ Is(a, "Register") /\ event \in {"registered", "refused"}

\* Events by which an activity asks the system for something.
Calling == {"loginOk", "registered"}

\* The message that a call of ChatService by the worker posts for listener a.
\* If a is not in shown, the listener is an object of a that is closed or was
\* replaced: its calls to the system still count, nobody sees its fields.
Posted(a, event, shown) ==
    IF Heeds(a, event) /\ (a \in shown \/ event \in Calling)
    THEN <<Msg(event, a)>> ELSE <<>>

\* What the worker still says to listener a when disconnect makes it end.
LastWords(a, shown) ==
    CASE worker = "none" -> <<>>
      [] worker = "tellUp" -> Posted(a, "up", shown) \o Posted(a, "down", shown)
      [] OTHER -> Posted(a, "down", shown)

Ended(how) == IF loggedIn THEN how ELSE ended

\* The menu's logout: disconnect, if the service is known, and finish.
Logout ==
    /\ UserSees("FriendList")
    /\ IF front \in served
       THEN /\ main' = main \o LastWords(slot, served)
            /\ worker' = "none" /\ asked' = <<>>
            /\ loggedIn' = FALSE /\ ended' = Ended("logout")
       ELSE UNCHANGED <<main, worker, asked, loggedIn, ended>>
    /\ sys' = <<FinishOf(front)>>
    /\ parting' = IF Len(stack) = 1 THEN "left" ELSE parting
    /\ UNCHANGED <<screens, stack, stopped, early, front, bindingVars, slot, buttonVars>>

-----------------------------------------------------------------------------
(* The system *)

SystemOpens ==
    /\ sys # <<>> /\ Head(sys).op = "open" /\ Len(screens) < MaxScreens
    /\ LET a == Len(screens) + 1
       IN  /\ screens' = Append(screens, Head(sys).what)
           /\ stack' = Append(stack, a)
           /\ main' = Append(main, Msg("launch", a))
    /\ sys' = Tail(sys)
    /\ UNCHANGED <<stopped, early, front, bindingVars, slot, buttonVars, connectionVars>>

\* The activity at place i of the back stack is finished.  The one below it is
\* brought back; its onStart runs only if it had been stopped.
Finish(i) ==
    LET a == stack[i]
        below == stack[i - 1]
        comeBack == IF below \in stopped THEN "restart" ELSE "resume"
    IN  /\ stack' = SubSeq(stack, 1, i - 1) \o SubSeq(stack, i + 1, Len(stack))
        /\ IF i = Len(stack) /\ i > 1
           THEN /\ main' = main \o <<Msg(comeBack, below), Msg("destroy", a)>>
                /\ early' = (early \ {a, below}) \union ({below} \ stopped)
                /\ stopped' = stopped \ {a, below}
           ELSE /\ main' = Append(main, Msg("destroy", a))
                /\ early' = early \ {a}
                /\ stopped' = stopped \ {a}

\* To finish an activity that is finished already changes nothing.
SystemFinishes ==
    /\ sys # <<>> /\ Head(sys).op = "finish"
    /\ LET a == Head(sys).what
       IN  \/ \E i \in 1 .. Len(stack) : stack[i] = a /\ Finish(i)
           \/ /\ \A i \in 1 .. Len(stack) : stack[i] # a
              /\ UNCHANGED <<stack, main, early, stopped>>
    /\ sys' = Tail(sys)
    /\ UNCHANGED <<screens, front, bindingVars, slot, buttonVars, connectionVars>>

\* Some time after the next activity has appeared the one below is stopped.
SystemStops(a) ==
    /\ front # 0 /\ front = Top
    /\ \E i \in 1 .. Len(stack) - 1 : stack[i] = a
    /\ a \notin stopped
    /\ stopped' = stopped \union {a}
    /\ main' = Append(main, Msg("stop", a))
    /\ UNCHANGED <<screens, stack, sys, early, front, bindingVars, slot, buttonVars,
                   connectionVars>>

-----------------------------------------------------------------------------
(* The main thread *)

Due(m) == main # <<>> /\ Head(main).m = m

\* onStart: bindService with BIND_AUTO_CREATE.
OnStart(a) ==
    IF Binds(a) THEN /\ clients' = clients \union {a}
                     /\ main' = Append(Tail(main), Msg("connected", a))
                ELSE clients' = clients /\ main' = Tail(main)

\* Mutation: the service is bound in onCreate.
AppearBindingOnce ==
    /\ Due("launch") \/ Due("restart")
    /\ IF Due("launch") THEN OnStart(Head(main).a)
                       ELSE clients' = clients /\ main' = Tail(main)
    /\ front' = Head(main).a
    /\ UNCHANGED <<systemVars, bound, served, slot, buttonVars, connectionVars>>

Appear ==
    /\ Due("launch") \/ Due("restart")
    /\ OnStart(Head(main).a)
    /\ front' = Head(main).a
    /\ UNCHANGED <<systemVars, bound, served, slot, buttonVars, connectionVars>>

Resume ==
    /\ Due("resume")
    /\ front' = Head(main).a
    /\ main' = Tail(main)
    /\ UNCHANGED <<systemVars, bindingVars, slot, buttonVars, connectionVars>>

\* Mutation: LoginActivity connects only when there is no connection.
OnServiceConnectedOnce ==
    /\ Due("connected")
    /\ LET a == Head(main).a
           taken == a \in clients
           connects == taken /\ Is(a, "Login") /\ ~Connected
       IN  /\ bound' = IF taken THEN bound \union {a} ELSE bound
           /\ served' = IF taken THEN served \union {a} ELSE served
           /\ slot' = IF taken THEN a ELSE slot
           /\ main' = Tail(main) \o (IF connects THEN LastWords(a, served') ELSE <<>>)
           /\ IF connects
              THEN /\ worker' = "connecting" /\ asked' = <<>>
                   /\ loggedIn' = FALSE /\ ended' = Ended("reconnect") /\ parting' = "no"
              ELSE UNCHANGED connectionVars
    /\ UNCHANGED <<systemVars, front, clients, buttonVars>>

\* onServiceConnected, unless the binding is gone already: take the listener
\* slot.  LoginActivity also connects, which ends an earlier connection first.
OnServiceConnected ==
    /\ Due("connected")
    /\ LET a == Head(main).a
           taken == a \in clients
           connects == taken /\ Is(a, "Login")
       IN  /\ bound' = IF taken THEN bound \union {a} ELSE bound
           /\ served' = IF taken THEN served \union {a} ELSE served
           /\ slot' = IF taken THEN a ELSE slot
           /\ main' = Tail(main) \o (IF connects THEN LastWords(a, served') ELSE <<>>)
           /\ IF connects
              THEN /\ worker' = "connecting" /\ asked' = <<>>
                   /\ loggedIn' = FALSE /\ ended' = Ended("reconnect") /\ parting' = "no"
              ELSE UNCHANGED connectionVars
    /\ UNCHANGED <<systemVars, front, clients, buttonVars>>

\* A service that nobody is bound to any more is destroyed.
Unbind(gone, rest) ==
    /\ clients' = clients \ gone
    /\ main' = IF clients \ gone = {} /\ clients # {}
               THEN Append(rest, Msg("destroyService", 0)) ELSE rest

\* Mutation: the field bound is not reset.
OnStopStillBound ==
    /\ Due("stop")
    /\ LET a == Head(main).a
       IN  /\ Unbind(bound \intersect {a}, Tail(main))
           /\ bound' = bound
    /\ UNCHANGED <<systemVars, front, served, slot, buttonVars, connectionVars>>

OnStop ==
    /\ Due("stop")
    /\ LET a == Head(main).a
       IN  /\ Unbind(bound \intersect {a}, Tail(main))
           /\ bound' = bound \ {a}
    /\ UNCHANGED <<systemVars, front, served, slot, buttonVars, connectionVars>>

\* onStop if it has not run, and onDestroy: the system drops a binding that
\* the activity did not give back.  Nobody sees its fields any more.
OnDestroy ==
    /\ Due("destroy")
    /\ LET a == Head(main).a
       IN  /\ Unbind({a}, Tail(main))
           /\ bound' = bound \ {a} /\ served' = served \ {a}
           /\ disabled' = disabled \ {a} /\ closing' = closing \ {a}
           /\ front' = IF front = a THEN 0 ELSE front
    /\ UNCHANGED <<systemVars, slot, connectionVars>>

\* ChatService.onDestroy: nativeDestroy takes the callbacks away first.  The
\* next instance of the service starts without a listener.
OnDestroyService ==
    /\ Due("destroyService")
    /\ main' = Tail(main)
    /\ slot' = 0
    /\ worker' = "none" /\ asked' = <<>>
    /\ loggedIn' = FALSE /\ ended' = Ended(IF parting = "no" THEN "dropped" ELSE parting)
    /\ UNCHANGED <<systemVars, front, bindingVars, buttonVars, parting>>

\* LoginActivity.onConnectionStatusChanged
RunStatus ==
    /\ Due("up") \/ Due("down")
    /\ disabled' = disabled \ {Head(main).a}
    /\ main' = Tail(main)
    /\ UNCHANGED <<systemVars, front, bindingVars, slot, closing, connectionVars>>

\* Mutation: finish before startActivity.
RunLoginResultFinishFirst ==
    /\ Due("loginOk") \/ Due("loginFailed")
    /\ disabled' = disabled \ {Head(main).a}
    /\ sys' = IF Due("loginOk")
              THEN sys \o <<FinishOf(Head(main).a), Open("FriendList")>> ELSE sys
    /\ main' = Tail(main)
    /\ UNCHANGED <<screens, stack, stopped, early, front, bindingVars, slot, closing,
                   connectionVars>>

\* LoginActivity.onLoginResult
RunLoginResult ==
    /\ Due("loginOk") \/ Due("loginFailed")
    /\ disabled' = disabled \ {Head(main).a}
    /\ sys' = IF Due("loginOk")
              THEN sys \o <<Open("FriendList"), FinishOf(Head(main).a)>> ELSE sys
    /\ main' = Tail(main)
    /\ UNCHANGED <<screens, stack, stopped, early, front, bindingVars, slot, closing,
                   connectionVars>>

\* RegisterActivity.onRegisterResult
RunRegisterResult ==
    /\ Due("registered") \/ Due("refused")
    /\ disabled' = disabled \ {Head(main).a}
    /\ closing' = IF Due("registered") THEN closing \union {Head(main).a} ELSE closing
    /\ main' = Tail(main)
    /\ UNCHANGED <<systemVars, front, bindingVars, slot, connectionVars>>

\* Two seconds later
DelayedFinish(a) ==
    /\ a \in closing
    /\ closing' = closing \ {a}
    /\ sys' = Append(sys, FinishOf(a))
    /\ UNCHANGED <<screens, stack, stopped, early, front, main, bindingVars, slot, disabled,
                   connectionVars>>

\* A change of the configuration (rotation, language, dark mode), for which the
\* manifest names no configChanges, replaces the activity in front by a new
\* object: onStop and onDestroy of the old one, onCreate and onStart of the new
\* one.  A service that only the old one was bound to is destroyed, and a new
\* service is made for the new one.  Left out: a change between onStart and
\* onServiceConnected, and one that a covered screen meets when it comes back.
Recreate ==
    LET dropped == front \in bound /\ clients = {front}
    IN  /\ front # 0 /\ front = Top
        /\ Binds(front) => /\ front \in bound
                           /\ \A i \in 1 .. Len(main) : main[i] # Msg("connected", front)
        /\ main' = main \o (IF dropped THEN <<Msg("destroyService", 0)>> ELSE <<>>)
                        \o (IF Binds(front) THEN <<Msg("connected", front)>> ELSE <<>>)
        /\ parting' = IF dropped /\ parting = "no" THEN "recreated" ELSE parting
    /\ bound' = bound \ {front} /\ served' = served \ {front}
    /\ disabled' = disabled \ {front} /\ early' = early \ {front}
    /\ UNCHANGED <<screens, stack, sys, stopped, front, clients, slot, closing, worker,
                   asked, loggedIn, ended>>

-----------------------------------------------------------------------------
(* The worker thread *)

ConnectEnds ==
    /\ worker = "connecting"
    /\ worker' \in {"tellUp", "tellDown"}
    /\ UNCHANGED <<systemVars, front, main, bindingVars, slot, buttonVars, asked, loggedIn,
                   parting, ended>>

TellUp ==
    /\ worker = "tellUp"
    /\ main' = main \o Posted(slot, "up", served)
    /\ worker' = "reading"
    /\ UNCHANGED <<systemVars, front, bindingVars, slot, buttonVars, asked, loggedIn, parting,
                   ended>>

\* The server answers the requests of a connection in turn.
Answer(ok) ==
    /\ worker = "reading" /\ asked # <<>>
    /\ LET login == Head(asked) = "login"
           event == CASE login -> (IF ok THEN "loginOk" ELSE "loginFailed")
                      [] OTHER -> (IF ok THEN "registered" ELSE "refused")
       IN  /\ main' = main \o Posted(slot, event, served)
           /\ loggedIn' = (loggedIn \/ (login /\ ok))
           /\ ended' = IF login /\ ok THEN "none" ELSE ended
    /\ asked' = Tail(asked)
    /\ UNCHANGED <<systemVars, front, bindingVars, slot, buttonVars, worker, parting>>

Lose ==
    /\ worker = "reading"
    /\ worker' = "tellDown" /\ asked' = <<>>
    /\ loggedIn' = FALSE /\ ended' = Ended("lost")
    /\ UNCHANGED <<systemVars, front, main, bindingVars, slot, buttonVars, parting>>

TellDown ==
    /\ worker = "tellDown"
    /\ main' = main \o Posted(slot, "down", served)
    /\ worker' = "none"
    /\ UNCHANGED <<systemVars, front, bindingVars, slot, buttonVars, asked, loggedIn, parting,
                   ended>>

-----------------------------------------------------------------------------
User ==
    \/ Start \/ Back \/ Logout
    \/ OpenScreen("Login", "Register")
    \/ OpenScreen("FriendList", "Chat") \/ OpenScreen("FriendList", "About")
    \/ Ask("Login", "login") \/ Ask("Register", "register")

System == SystemOpens \/ SystemFinishes \/ \E a \in Instances : SystemStops(a)

MainThread ==
    \/ Appear \/ Resume \/ OnServiceConnected \/ OnStop \/ OnDestroy \/ OnDestroyService
    \/ RunStatus \/ RunLoginResult \/ RunRegisterResult
    \/ \E a \in Instances : DelayedFinish(a)

Worker == ConnectEnds \/ TellUp \/ Lose \/ TellDown \/ \E ok \in BOOLEAN : Answer(ok)

Next == User \/ System \/ MainThread \/ Worker \/ Recreate

Spec == Init /\ [][Next]_vars

-----------------------------------------------------------------------------
(* Properties *)

\* Somebody is bound to the service, without a gap, from the login to the
\* friend list and the chat and back: no order of onStart, onStop and onDestroy of
\* two screens takes the service away.  It goes, and with it the login, when the
\* user closes the last screen or opens About, which does not bind, and when the
\* system makes the only bound screen anew (onStop of the old object, then
\* onStart of the new one); the login alone goes when the user logs out, when the
\* connection is lost, and when a login screen that comes back connects anew
\* while the result of its login waits in main.
SessionSurvivesNavigation ==
    Is(front, "FriendList") \/ Is(front, "Chat") =>
        loggedIn \/ ended \in {"lost", "logout", "left", "recreated", "reconnect"}

\* btnLogin is disabled until an answer or a change of the connection: while
\* the login screen has the listener slot, in front or covered by another one,
\* one of them is on its way.
SomethingEnablesLogin ==
    \A a \in disabled :
        Is(a, "Login") /\ slot = a =>
            \/ worker \in {"connecting", "tellUp", "tellDown"}
            \/ worker = "reading" /\ \E i \in 1 .. Len(asked) : asked[i] = "login"
            \/ \E i \in 1 .. Len(main) : main[i].a = a /\ main[i].m \in Events

\* When nothing is under way the screen in front is the listener, if its onStart
\* has run since it was covered.  A screen that comes back before it was stopped
\* binds nothing, and the slot stays with the one that was closed.
FrontHasTheSlot ==
    main = <<>> /\ sys = <<>> /\ front # 0 /\ Binds(front) /\ front \notin early =>
        slot = front
=============================================================================
