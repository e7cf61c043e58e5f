------------------------------ MODULE App_proofs ------------------------------
(***************************************************************************)
(* Proofs about App, for any number of screens and of requests under way:  *)
(* the types, that a disabled login button is always enabled again by      *)
(* something that is under way, that the screen in front is the listener   *)
(* once nothing is under way any more, and that a login survives the       *)
(* navigation between the screens.                                         *)
(*                                                                         *)
(* The last rests on one layer after the other: how a step changes the     *)
(* queue and the stack (Voice, Turn, Opens, Vanishes, Returns, Stops,      *)
(* Renews), the order in which screens appear (OrderInv), who asks for     *)
(* what (StackInv), who is bound (ClientsInv), that the binding is handed  *)
(* over without a gap (GapInv), and what keeps the session (SessionInv).   *)
(***************************************************************************)
EXTENDS App, SequenceTheorems, TLAPS

-----------------------------------------------------------------------------
(* Messages of the main thread *)

\* A message of the main thread that tells activity a of an event.
Tells(m, a) == m.a = a /\ m.m \in Events
IsTold(q, a) == \E i \in 1 .. Len(q) : Tells(q[i], a)

\* What is told at the end of a queue comes behind what was told already.
LEMMA ToldConcat ==
    ASSUME NEW q \in Seq(Messages), NEW s \in Seq(Messages), NEW a
    PROVE  /\ q \o s \in Seq(Messages)
           /\ IsTold(q, a) \/ IsTold(s, a) => IsTold(q \o s, a)
<1>1. /\ q \o s \in Seq(Messages) /\ Len(q \o s) = Len(q) + Len(s)
      /\ Len(q) \in Nat /\ Len(s) \in Nat
      /\ \A i \in 1 .. Len(q) + Len(s) : (q \o s)[i] = IF i <= Len(q) THEN q[i] ELSE s[i - Len(q)]
  BY ConcatProperties, LenProperties
<1>2. ASSUME NEW i \in 1 .. Len(q), Tells(q[i], a) PROVE IsTold(q \o s, a)
  <2>1. i \in 1 .. Len(q \o s) /\ (q \o s)[i] = q[i]
    BY <1>1
  <2> QED
    BY <1>2, <2>1 DEF IsTold
<1>3. ASSUME NEW i \in 1 .. Len(s), Tells(s[i], a) PROVE IsTold(q \o s, a)
  <2> DEFINE j == Len(q) + i
  <2>1. j \in 1 .. Len(q) + Len(s) /\ ~(j <= Len(q)) /\ j - Len(q) = i
    BY <1>1
  <2>2. j \in 1 .. Len(q \o s) /\ (q \o s)[j] = s[i]
    BY <1>1, <2>1
  <2> HIDE DEF j
  <2> QED
    BY <1>3, <2>2 DEF IsTold
<1> QED
  BY <1>1, <1>2, <1>3 DEF IsTold

\* Running a message takes nothing away but that message.
LEMMA ToldTail ==
    ASSUME NEW q \in Seq(Messages), q # <<>>
    PROVE  /\ Head(q) \in Messages /\ Tail(q) \in Seq(Messages)
           /\ \A a : IsTold(q, a) /\ ~Tells(Head(q), a) => IsTold(Tail(q), a)
<1>1. /\ Head(q) \in Messages /\ Tail(q) \in Seq(Messages) /\ Len(Tail(q)) = Len(q) - 1
      /\ \A i \in 1 .. Len(Tail(q)) : Tail(q)[i] = q[i + 1]
  BY HeadTailProperties
<1>2. Len(q) \in Nat \ {0} /\ Head(q) = q[1]
  BY EmptySeq
<1>3. ASSUME NEW a, NEW i \in 1 .. Len(q), Tells(q[i], a), ~Tells(Head(q), a)
      PROVE  IsTold(Tail(q), a)
  <2>1. i # 1
    BY <1>2, <1>3
  <2>2. i - 1 \in 1 .. Len(Tail(q)) /\ (i - 1) + 1 = i
    BY <1>1, <1>2, <2>1
  <2>3. Tail(q)[i - 1] = q[i]
    BY <1>1, <2>2
  <2> QED
    BY <1>3, <2>2, <2>3 DEF IsTold
<1> QED
  BY <1>1, <1>3 DEF IsTold

\* What the worker posts is a message to a screen that exists, or nothing: it
\* tells what the screen has to say, unless its object is gone.
LEMMA PostedTells ==
    ASSUME TypeOK, NEW a, NEW e \in Events, NEW shown
    PROVE  /\ Posted(a, e, shown) \in Seq(Messages)
           /\ Heeds(a, e) /\ a \in shown => IsTold(Posted(a, e, shown), a)
<1>1. CASE Heeds(a, e)
  <2>1. a \in Instances
    BY <1>1, AppAssumption, LenProperties DEF Heeds, Is, TypeOK, Instances
  <2>2. Msg(e, a) \in Messages /\ Tells(Msg(e, a), a)
    BY <2>1 DEF Msg, Messages, Tells
  <2>3. /\ Posted(a, e, shown) \in {<<Msg(e, a)>>, <<>>}
        /\ a \in shown => Posted(a, e, shown) = <<Msg(e, a)>>
    BY <1>1 DEF Posted
  <2> HIDE DEF Msg
  <2>4. <<Msg(e, a)>> \in Seq(Messages) /\ IsTold(<<Msg(e, a)>>, a)
    BY <2>2 DEF IsTold
  <2> QED
    BY <2>3, <2>4, EmptySeq
<1>2. CASE ~Heeds(a, e)
  BY <1>2, EmptySeq DEF Posted
<1> QED
  BY <1>1, <1>2

\* A login screen hears of the end of the connection, if there is one.
LEMMA LastWordsTell ==
    ASSUME TypeOK, NEW a, NEW shown
    PROVE  /\ LastWords(a, shown) \in Seq(Messages)
           /\ worker # "none" /\ Is(a, "Login") /\ a \in shown => IsTold(LastWords(a, shown), a)
<1> DEFINE up == Posted(a, "up", shown)
           down == Posted(a, "down", shown)
<1>1. /\ up \in Seq(Messages) /\ down \in Seq(Messages)
      /\ Is(a, "Login") /\ a \in shown => IsTold(down, a)
  BY PostedTells DEF Events, Heeds
<1>2. /\ up \o down \in Seq(Messages)
      /\ Is(a, "Login") /\ a \in shown => IsTold(up \o down, a)
  BY <1>1, ToldConcat
<1> QED
  BY <1>1, <1>2, EmptySeq DEF LastWords

-----------------------------------------------------------------------------
(* Types *)

\* What a message of the main thread is about.
LEMMA MessageOf ==
    ASSUME NEW m \in Messages
    PROVE  /\ m.a \in Instances \union {0}
           /\ m.m # "destroyService" => m.a \in Instances
BY DEF Messages

LEMMA MessageTypes ==
    ASSUME NEW a \in Instances,
           NEW m \in {"launch", "resume", "restart", "connected", "stop", "destroy"}
    PROVE  Msg(m, a) \in Messages
BY DEF Msg, Messages

\* The calls of the user and of the main thread.
LEMMA CallTypes ==
    /\ \A activity \in Activities : Open(activity) \in Calls
    /\ \A a \in Instances : FinishOf(a) \in Calls
BY DEF Open, FinishOf, Calls

\* The next message of the main thread.
LEMMA DueMessage ==
    ASSUME TypeOK, NEW m, Due(m)
    PROVE  /\ main # <<>> /\ Head(main) \in Messages /\ Head(main).m = m
           /\ Tail(main) \in Seq(Messages)
           /\ Head(main).a \in Instances \union {0}
           /\ m # "destroyService" => Head(main).a \in Instances
BY ToldTail, MessageOf DEF TypeOK, Due

LEMMA InitType == Init => TypeOK
<1> SUFFICES ASSUME Init PROVE TypeOK
  OBVIOUS
<1>1. /\ screens \in Seq(Activities) /\ stack \in Seq(Instances) /\ sys \in Seq(Calls)
      /\ main \in Seq(Messages) /\ asked \in Seq({"login", "register"})
  BY EmptySeq DEF Init
<1>2. Len(screens) <= MaxScreens
  BY EmptySeq, AppAssumption DEF Init
<1> QED
  BY <1>1, <1>2 DEF Init, TypeOK

\* What the user does.
LEMMA UserType == ASSUME TypeOK, User PROVE TypeOK'
<1> USE DEF systemVars, bindingVars, buttonVars, connectionVars
<1>1. CASE Start
  <2>1. <<Open("Login")>> \in Seq(Calls)
    BY CallTypes DEF Activities
  <2> QED
    BY <1>1, <2>1 DEF Start, TypeOK
<1>2. ASSUME NEW from \in Activities, NEW to \in Activities, OpenScreen(from, to) PROVE TypeOK'
  <2>1. <<Open(to)>> \in Seq(Calls)
    BY CallTypes
  <2> QED
    BY <1>2, <2>1 DEF OpenScreen, TypeOK
<1>3. CASE Back
  <2>1. front \in Instances
    BY <1>3 DEF Back, TypeOK
  <2>2. <<FinishOf(front)>> \in Seq(Calls)
    BY <2>1, CallTypes
  <2> QED
    BY <1>3, <2>2 DEF Back, TypeOK
<1>4. CASE Logout
  <2>1. front \in Instances
    BY <1>4 DEF Logout, UserSees, TypeOK
  <2>2. <<FinishOf(front)>> \in Seq(Calls)
    BY <2>1, CallTypes
  <2>3. main' \in Seq(Messages)
    BY <1>4, LastWordsTell, ToldConcat DEF Logout, TypeOK
  <2>4. ended' \in {"none", "lost", "logout", "left", "recreated", "dropped", "reconnect"}
    BY <1>4 DEF Logout, Ended, TypeOK
  <2>5. asked' \in Seq({"login", "register"})
    BY <1>4, EmptySeq DEF Logout, TypeOK
  <2> QED
    BY <1>4, <2>2, <2>3, <2>4, <2>5 DEF Logout, TypeOK
<1>5. ASSUME NEW activity, NEW request \in {"login", "register"}, Ask(activity, request)
      PROVE  TypeOK'
  <2>1. front \in Instances
    BY <1>5 DEF Ask, UserSees, TypeOK
  <2>2. Append(asked, request) \in Seq({"login", "register"})
    BY DEF TypeOK
  <2> QED
    BY <1>5, <2>1, <2>2 DEF Ask, TypeOK
<1> QED
  BY <1>1, <1>2, <1>3, <1>4, <1>5 DEF User, Activities

\* What the system does with the back stack.
LEMMA SystemType == ASSUME TypeOK, System PROVE TypeOK'
<1> USE DEF bindingVars, buttonVars, connectionVars
<1>1. ASSUME sys # <<>> PROVE Head(sys) \in Calls /\ Tail(sys) \in Seq(Calls)
  BY <1>1, HeadTailProperties DEF TypeOK
<1>2. CASE SystemOpens
  <2> DEFINE a == Len(screens) + 1
  <2>1. Len(screens) \in Nat /\ a \in Instances
    BY <1>2, AppAssumption, LenProperties DEF SystemOpens, TypeOK, Instances
  <2>2. Head(sys) \in Calls /\ Head(sys).op = "open" /\ Head(sys).what \in Activities
    BY <1>1, <1>2 DEF SystemOpens, Calls
  <2>3. /\ screens' = Append(screens, Head(sys).what) /\ sys' = Tail(sys)
        /\ stack' = Append(stack, a) /\ main' = Append(main, Msg("launch", a))
    BY <1>2 DEF SystemOpens
  <2>4. screens' \in Seq(Activities) /\ Len(screens') <= MaxScreens
    BY <1>2, <2>1, <2>2, <2>3, AppAssumption DEF SystemOpens, TypeOK
  <2>5. Msg("launch", a) \in Messages
    BY <2>1, MessageTypes
  <2> HIDE DEF a
  <2>6. stack' \in Seq(Instances) /\ main' \in Seq(Messages)
    BY <2>1, <2>3, <2>5 DEF TypeOK
  <2> QED
    BY <1>1, <1>2, <2>3, <2>4, <2>6 DEF SystemOpens, TypeOK
<1>3. CASE SystemFinishes
  <2>1. sys' \in Seq(Calls)
    BY <1>1, <1>3 DEF SystemFinishes
  <2>2. ASSUME NEW i \in 1 .. Len(stack), Finish(i)
        PROVE  /\ stack' \in Seq(Instances) /\ main' \in Seq(Messages)
               /\ stopped' \subseteq Instances /\ early' \subseteq Instances
    <3>1. stack \in Seq(Instances) /\ Len(stack) \in Nat /\ stack[i] \in Instances
      BY ElementOfSeq, LenProperties DEF TypeOK
    <3>2. stack' \in Seq(Instances)
      <4>1. /\ \A j \in 1 .. i - 1 : stack[j] \in Instances
            /\ \A j \in i + 1 .. Len(stack) : stack[j] \in Instances
        BY <3>1, ElementOfSeq
      <4>2. /\ SubSeq(stack, 1, i - 1) \in Seq(Instances)
            /\ SubSeq(stack, i + 1, Len(stack)) \in Seq(Instances)
        BY <3>1, <4>1, SubSeqProperties
      <4> QED
        BY <2>2, <4>2, ConcatProperties DEF Finish
    <3>3. CASE i = Len(stack) /\ i > 1
      <4> DEFINE below == stack[i - 1]
                 back == Msg(IF below \in stopped THEN "restart" ELSE "resume", below)
      <4>1. below \in Instances
        BY <3>1, <3>3, ElementOfSeq
      <4>2. back \in Messages /\ Msg("destroy", stack[i]) \in Messages
        BY <3>1, <4>1, MessageTypes
      <4>3. /\ main' = main \o <<back, Msg("destroy", stack[i])>>
            /\ early' = (early \ {stack[i], below}) \union ({below} \ stopped)
            /\ stopped' = stopped \ {stack[i], below}
        BY <2>2, <3>3 DEF Finish
      <4> HIDE DEF back, below
      <4>4. <<back, Msg("destroy", stack[i])>> \in Seq(Messages)
        BY <4>2
      <4> QED
        BY <3>2, <4>1, <4>3, <4>4, ToldConcat DEF TypeOK
    <3>4. CASE ~(i = Len(stack) /\ i > 1)
      <4>1. Msg("destroy", stack[i]) \in Messages
        BY <3>1, MessageTypes
      <4>2. /\ main' = Append(main, Msg("destroy", stack[i]))
            /\ early' = early \ {stack[i]} /\ stopped' = stopped \ {stack[i]}
        BY <2>2, <3>4 DEF Finish
      <4> QED
        BY <3>2, <4>1, <4>2 DEF TypeOK
    <3> QED
      BY <3>3, <3>4
  <2>3. /\ stack' \in Seq(Instances) /\ main' \in Seq(Messages)
        /\ stopped' \subseteq Instances /\ early' \subseteq Instances
    BY <1>3, <2>2 DEF SystemFinishes, TypeOK
  <2> QED
    BY <1>3, <2>1, <2>3 DEF SystemFinishes, TypeOK
<1>4. ASSUME NEW a \in Instances, SystemStops(a) PROVE TypeOK'
  <2>1. Append(main, Msg("stop", a)) \in Seq(Messages)
    BY MessageTypes DEF TypeOK
  <2> QED
    BY <1>4, <2>1 DEF SystemStops, TypeOK
<1> QED
  BY <1>2, <1>3, <1>4 DEF System

\* What the main thread runs.
LEMMA MainThreadType == ASSUME TypeOK, MainThread PROVE TypeOK'
<1> USE DEF systemVars, bindingVars, buttonVars, connectionVars
<1> DEFINE a == Head(main).a
<1>1. ASSUME NEW m, Due(m), m # "destroyService"
      PROVE  a \in Instances /\ Tail(main) \in Seq(Messages)
  BY <1>1, DueMessage
<1>2. CASE Appear
  <2>1. a \in Instances /\ Tail(main) \in Seq(Messages)
    BY <1>1, <1>2 DEF Appear
  <2>2. Append(Tail(main), Msg("connected", a)) \in Seq(Messages)
    BY <2>1, MessageTypes
  <2>3. main' \in Seq(Messages) /\ (clients' = clients \/ clients' = clients \union {a})
    BY <1>2, <2>1, <2>2 DEF Appear, OnStart
  <2>4. front' = a
    BY <1>2 DEF Appear
  <2> QED
    BY <1>2, <2>1, <2>3, <2>4 DEF Appear, TypeOK
<1>3. CASE Resume
  <2>1. a \in Instances /\ Tail(main) \in Seq(Messages)
    BY <1>1, <1>3 DEF Resume
  <2> QED
    BY <1>3, <2>1 DEF Resume, TypeOK
<1>4. CASE OnServiceConnected
  <2>1. a \in Instances /\ Tail(main) \in Seq(Messages)
    BY <1>1, <1>4 DEF OnServiceConnected
  <2>2. main' \in Seq(Messages)
    <3>1. Tail(main) \o LastWords(a, served') \in Seq(Messages) /\ Tail(main) \o <<>> \in Seq(Messages)
      BY <2>1, LastWordsTell, ToldConcat, EmptySeq
    <3> QED
      BY <1>4, <3>1 DEF OnServiceConnected
  <2>3. /\ worker' \in {worker, "connecting"} /\ asked' \in {asked, <<>>}
        /\ loggedIn' \in {loggedIn, FALSE} /\ parting' \in {parting, "no"}
        /\ ended' \in {ended, "reconnect"}
    BY <1>4 DEF OnServiceConnected, Ended
  <2>4. asked' \in Seq({"login", "register"})
    BY <2>3, EmptySeq DEF TypeOK
  <2>5. /\ bound' = (IF a \in clients THEN bound \union {a} ELSE bound)
        /\ served' = (IF a \in clients THEN served \union {a} ELSE served)
        /\ slot' = (IF a \in clients THEN a ELSE slot)
        /\ UNCHANGED <<systemVars, front, clients, buttonVars>>
    BY <1>4 DEF OnServiceConnected
  <2> QED
    BY <2>1, <2>2, <2>3, <2>4, <2>5 DEF TypeOK
<1>5. ASSUME NEW gone, NEW rest \in Seq(Messages), Unbind(gone, rest)
      PROVE  main' \in Seq(Messages) /\ clients' = clients \ gone
  <2>1. Msg("destroyService", 0) \in Messages
    BY DEF Msg, Messages
  <2> QED
    BY <1>5, <2>1 DEF Unbind
<1>6. CASE OnStop
  <2>1. a \in Instances /\ Tail(main) \in Seq(Messages)
    BY <1>1, <1>6 DEF OnStop
  <2>2. main' \in Seq(Messages) /\ clients' = clients \ (bound \intersect {a}) /\ bound' = bound \ {a}
    BY <1>5, <1>6, <2>1 DEF OnStop
  <2> QED
    BY <1>6, <2>2 DEF OnStop, TypeOK
<1>7. CASE OnDestroy
  <2>1. a \in Instances /\ Tail(main) \in Seq(Messages)
    BY <1>1, <1>7 DEF OnDestroy
  <2>2. main' \in Seq(Messages) /\ clients' = clients \ {a}
    BY <1>5, <1>7, <2>1 DEF OnDestroy
  <2>3. /\ bound' = bound \ {a} /\ served' = served \ {a}
        /\ disabled' = disabled \ {a} /\ closing' = closing \ {a}
        /\ front' \in {front, 0}
        /\ UNCHANGED <<systemVars, slot, connectionVars>>
    BY <1>7 DEF OnDestroy
  <2> QED
    BY <2>2, <2>3 DEF TypeOK
<1>8. CASE OnDestroyService
  <2>1. Tail(main) \in Seq(Messages)
    BY <1>8, DueMessage DEF OnDestroyService
  <2>2. ended' \in {"none", "lost", "logout", "left", "recreated", "dropped", "reconnect"}
    BY <1>8 DEF OnDestroyService, Ended, TypeOK
  <2>3. asked' \in Seq({"login", "register"})
    BY <1>8, EmptySeq DEF OnDestroyService
  <2> QED
    BY <1>8, <2>1, <2>2, <2>3 DEF OnDestroyService, TypeOK
<1>9. CASE RunStatus
  <2>1. Tail(main) \in Seq(Messages)
    BY <1>1, <1>9 DEF RunStatus
  <2> QED
    BY <1>9, <2>1 DEF RunStatus, TypeOK
<1>10. CASE RunLoginResult
  <2>1. a \in Instances /\ Tail(main) \in Seq(Messages)
    BY <1>1, <1>10 DEF RunLoginResult
  <2>2. <<Open("FriendList"), FinishOf(a)>> \in Seq(Calls)
    BY <2>1, CallTypes DEF Activities
  <2>3. sys \o <<Open("FriendList"), FinishOf(a)>> \in Seq(Calls)
    BY <2>2, ConcatProperties DEF TypeOK
  <2>4. sys' \in Seq(Calls)
    BY <1>10, <2>3 DEF RunLoginResult, TypeOK
  <2> QED
    BY <1>10, <2>1, <2>4 DEF RunLoginResult, TypeOK
<1>11. CASE RunRegisterResult
  <2>1. a \in Instances /\ Tail(main) \in Seq(Messages)
    BY <1>1, <1>11 DEF RunRegisterResult
  <2>2. closing' \subseteq Instances
    BY <1>11, <2>1 DEF RunRegisterResult, TypeOK
  <2> QED
    BY <1>11, <2>1, <2>2 DEF RunRegisterResult, TypeOK
<1>12. ASSUME NEW b \in Instances, DelayedFinish(b) PROVE TypeOK'
  <2>1. Append(sys, FinishOf(b)) \in Seq(Calls)
    BY CallTypes DEF TypeOK
  <2> QED
    BY <1>12, <2>1 DEF DelayedFinish, TypeOK
<1> QED
  BY <1>2, <1>3, <1>4, <1>6, <1>7, <1>8, <1>9, <1>10, <1>11, <1>12 DEF MainThread

\* What the worker thread does.
LEMMA WorkerType == ASSUME TypeOK, Worker PROVE TypeOK'
<1> USE DEF systemVars, bindingVars, buttonVars
<1>1. ASSUME NEW e \in Events PROVE main \o Posted(slot, e, served) \in Seq(Messages)
  BY PostedTells, ToldConcat DEF TypeOK
<1>2. CASE ConnectEnds
  BY <1>2 DEF ConnectEnds, TypeOK
<1>3. CASE TellUp
  <2>1. main \o Posted(slot, "up", served) \in Seq(Messages)
    BY <1>1 DEF Events
  <2> QED
    BY <1>3, <2>1 DEF TellUp, TypeOK
<1>4. CASE Lose
  <2>1. ended' \in {"none", "lost", "logout", "left", "recreated", "dropped", "reconnect"}
    BY <1>4 DEF Lose, Ended, TypeOK
  <2>2. asked' \in Seq({"login", "register"})
    BY <1>4, EmptySeq DEF Lose
  <2> QED
    BY <1>4, <2>1, <2>2 DEF Lose, TypeOK
<1>5. CASE TellDown
  <2>1. main \o Posted(slot, "down", served) \in Seq(Messages)
    BY <1>1 DEF Events
  <2> QED
    BY <1>5, <2>1 DEF TellDown, TypeOK
<1>6. ASSUME NEW ok \in BOOLEAN, Answer(ok) PROVE TypeOK'
  <2>1. PICK e \in Events : main' = main \o Posted(slot, e, served)
    BY <1>6 DEF Answer, Events
  <2>2. main' \in Seq(Messages)
    BY <1>1, <2>1
  <2>3. asked' \in Seq({"login", "register"})
    BY <1>6, HeadTailProperties DEF Answer, TypeOK
  <2>4. loggedIn' \in BOOLEAN /\ ended' \in {ended, "none"}
    BY <1>6 DEF Answer, TypeOK
  <2> QED
    BY <1>6, <2>2, <2>3, <2>4 DEF Answer, TypeOK
<1> QED
  BY <1>2, <1>3, <1>4, <1>5, <1>6 DEF Worker

\* A screen that is made anew.
LEMMA RecreateType == ASSUME TypeOK, Recreate PROVE TypeOK'
<1>1. front \in Instances
  BY DEF Recreate, TypeOK
<1>2. /\ Msg("destroyService", 0) \in Messages /\ Msg("connected", front) \in Messages
      /\ main \in Seq(Messages)
  BY <1>1, MessageTypes DEF Msg, Messages, TypeOK
<1>3. main' \in Seq(Messages)
  <2>1. ASSUME NEW q \in Seq(Messages), NEW s \in Seq(Messages) PROVE q \o s \in Seq(Messages)
    BY ToldConcat
  <2>2. /\ <<Msg("destroyService", 0)>> \in Seq(Messages) /\ <<Msg("connected", front)>> \in Seq(Messages)
        /\ <<>> \in Seq(Messages)
    BY <1>2, EmptySeq
  <2> HIDE DEF Msg
  <2> QED
    BY <1>2, <2>1, <2>2 DEF Recreate
<1>4. /\ parting' \in {parting, "recreated"}
      /\ bound' = bound \ {front} /\ served' = served \ {front}
      /\ disabled' = disabled \ {front} /\ early' = early \ {front}
      /\ UNCHANGED <<screens, stack, sys, stopped, front, clients, slot, closing, worker,
                     asked, loggedIn, ended>>
  BY DEF Recreate
<1> QED
  BY <1>3, <1>4 DEF TypeOK

LEMMA TypeStep == TypeOK /\ [Next]_vars => TypeOK'
<1>1. TypeOK /\ UNCHANGED vars => TypeOK'
  BY DEF TypeOK, vars, systemVars, bindingVars, buttonVars, connectionVars
<1> QED
  BY <1>1, UserType, SystemType, MainThreadType, WorkerType, RecreateType DEF Next

\* Screens, messages, bindings and requests keep their types.
THEOREM AppTyped == Spec => []TypeOK
<1> QED
  BY InitType, TypeStep, PTL DEF Spec
-----------------------------------------------------------------------------
(* The login button *)

\* A login screen that waits with its button disabled, and what it waits for.
Waits(a) == a \in disabled /\ Is(a, "Login") /\ slot = a
AnswerIsDue == worker = "reading" /\ \E i \in 1 .. Len(asked) : asked[i] = "login"
Hope(a) == worker \in {"connecting", "tellUp", "tellDown"} \/ AnswerIsDue \/ IsTold(main, a)

\* A button belongs to a screen that was created: a new login screen does not
\* come with a button that waits already.
LoginInv ==
    /\ \A a \in disabled : a \in 1 .. Len(screens)
    /\ \A a \in disabled : Waits(a) => Hope(a)

LEMMA LoginInvSuffices == LoginInv => SomethingEnablesLogin
BY DEF LoginInv, SomethingEnablesLogin, Waits, Hope, AnswerIsDue, IsTold, Tells

\* The events are not what moves the screens.
LEMMA EventNames ==
    /\ \A m \in {"launch", "resume", "restart", "connected", "stop", "destroy", "destroyService"} :
          m \notin Events
    /\ \A e \in {"up", "down", "loginOk", "loginFailed", "registered", "refused"} : e \in Events
BY DEF Events

\* A step that disables no button and moves neither the slot nor the connection
\* only has to keep what was told to the screens that still wait.
LEMMA QuietStep ==
    ASSUME TypeOK, LoginInv, disabled' \subseteq disabled,
           UNCHANGED <<screens, slot, worker, asked>>,
           \A a \in disabled' : IsTold(main, a) => IsTold(main', a)
    PROVE  LoginInv'
BY DEF LoginInv, Waits, Hope, AnswerIsDue, Is

\* The main thread takes a message that is no event.
LEMMA QuietMessage ==
    ASSUME TypeOK, NEW m, Due(m), m \notin Events, NEW s \in Seq(Messages), NEW a
    PROVE  IsTold(main, a) => IsTold(Tail(main), a) /\ IsTold(Tail(main) \o s, a)
<1>1. /\ main \in Seq(Messages) /\ main # <<>> /\ Head(main).m = m
      /\ Tail(main) \in Seq(Messages)
  BY DueMessage DEF TypeOK
<1>2. ~Tells(Head(main), a)
  BY <1>1 DEF Tells
<1> QED
  BY <1>1, <1>2, ToldTail, ToldConcat

LEMMA ToldAppend ==
    ASSUME NEW q \in Seq(Messages), NEW e \in Messages, NEW a
    PROVE  IsTold(q, a) => IsTold(Append(q, e), a)
<1>1. Append(q, e) = q \o <<e>> /\ <<e>> \in Seq(Messages)
  BY AppendIsConcat
<1> QED
  BY <1>1, ToldConcat

LEMMA UserEnables == ASSUME TypeOK, LoginInv, User PROVE LoginInv'
<1> USE DEF systemVars, bindingVars, buttonVars, connectionVars
<1>1. CASE Start
  BY <1>1, QuietStep DEF Start
<1>2. ASSUME NEW from, NEW to, OpenScreen(from, to) PROVE LoginInv'
  BY <1>2, QuietStep DEF OpenScreen
<1>3. CASE Back
  BY <1>3, QuietStep DEF Back
<1>4. CASE Logout
  <2>0. CASE front \notin served
    BY <1>4, <2>0, QuietStep DEF Logout
  <2> SUFFICES ASSUME front \in served PROVE LoginInv'
    BY <2>0
  <2>1. /\ main' = main \o LastWords(slot, served) /\ UNCHANGED <<screens, slot, disabled>>
    BY <1>4 DEF Logout
  <2>2. \A a \in disabled : a \in 1 .. Len(screens)
    BY DEF LoginInv
  <2>3. ASSUME NEW a \in disabled, Waits(a) PROVE IsTold(main', a)
    <3>1. main \in Seq(Messages) /\ LastWords(slot, served) \in Seq(Messages)
      BY LastWordsTell DEF TypeOK
    <3>2. CASE worker = "none"
      BY <2>1, <2>3, <3>1, <3>2, ToldConcat DEF LoginInv, Hope, AnswerIsDue
    <3>3. CASE worker # "none"
      BY <2>1, <2>3, <3>1, <3>3, LastWordsTell, ToldConcat DEF Waits, TypeOK
    <3> QED
      BY <3>2, <3>3
  <2> QED
    BY <2>1, <2>2, <2>3 DEF LoginInv, Waits, Hope, Is
<1>5. CASE Ask("Login", "login")
  <2>1. /\ asked' = Append(asked, "login") /\ disabled' = disabled \union {front}
        /\ UNCHANGED <<screens, main, slot, worker>> /\ worker \in {"tellUp", "reading"}
    BY <1>5 DEF Ask, Connected
  <2>2. front \in 1 .. Len(screens)
    BY <1>5 DEF Ask, UserSees, Is
  <2>3. \E i \in 1 .. Len(asked') : asked'[i] = "login"
    <3>1. asked' \in Seq({"login", "register"}) /\ Len(asked') = Len(asked) + 1
          /\ asked'[Len(asked) + 1] = "login" /\ Len(asked) \in Nat
      BY <2>1, AppendProperties, LenProperties DEF TypeOK
    <3>2. Len(asked) + 1 \in 1 .. Len(asked')
      BY <3>1
    <3> QED
      BY <3>1, <3>2
  <2> QED
    BY <2>1, <2>2, <2>3 DEF LoginInv, Waits, Hope, AnswerIsDue, Is
<1>6. CASE Ask("Register", "register")
  <2>1. /\ asked' = Append(asked, "register") /\ disabled' = disabled \union {front}
        /\ UNCHANGED <<screens, main, slot, worker>>
    BY <1>6 DEF Ask
  <2>2. front \in 1 .. Len(screens) /\ ~Is(front, "Login")
    BY <1>6 DEF Ask, UserSees, Is
  <2>3. ASSUME NEW i \in 1 .. Len(asked), asked[i] = "login"
        PROVE  i \in 1 .. Len(asked') /\ asked'[i] = "login"
    BY <2>1, <2>3, AppendProperties, LenProperties DEF TypeOK
  <2>4. AnswerIsDue => AnswerIsDue'
    BY <2>1, <2>3 DEF AnswerIsDue
  <2> QED
    BY <2>1, <2>2, <2>4 DEF LoginInv, Waits, Hope, Is
<1> QED
  BY <1>1, <1>2, <1>3, <1>4, <1>5, <1>6 DEF User

LEMMA SystemEnables == ASSUME TypeOK, LoginInv, System PROVE LoginInv'
<1> USE DEF bindingVars, buttonVars, connectionVars
<1>0. main \in Seq(Messages)
  BY DEF TypeOK
<1>1. CASE SystemOpens
  <2> DEFINE b == Len(screens) + 1
  <2>1. /\ screens' = Append(screens, Head(sys).what) /\ main' = Append(main, Msg("launch", b))
        /\ UNCHANGED <<disabled, slot, worker, asked>>
    BY <1>1 DEF SystemOpens
  <2>2. Head(sys) \in Calls /\ Head(sys).op = "open"
    BY <1>1, HeadTailProperties DEF SystemOpens, TypeOK
  <2>3. Head(sys).what \in Activities
    BY <2>2 DEF Calls
  <2>4. /\ Len(screens) \in Nat /\ Len(screens') = Len(screens) + 1
        /\ \A i \in 1 .. Len(screens) : screens'[i] = screens[i]
    BY <2>1, <2>3, AppendProperties, LenProperties DEF TypeOK
  <2>5. b \in Instances
    BY <1>1, <2>4, AppAssumption DEF SystemOpens, Instances
  <2>6. \A a : IsTold(main, a) => IsTold(main', a)
    BY <1>0, <2>1, <2>5, MessageTypes, ToldAppend
  <2>7. \A a \in disabled : a \in 1 .. Len(screens) /\ a \in 1 .. Len(screens')
    BY <2>4 DEF LoginInv
  <2>8. \A a \in disabled : Waits(a)' => Waits(a)
    BY <2>1, <2>4, <2>7 DEF Waits, Is
  <2> QED
    BY <2>1, <2>6, <2>7, <2>8 DEF LoginInv, Hope, AnswerIsDue
<1>2. CASE SystemFinishes
  <2>1. \A a : IsTold(main, a) => IsTold(main', a)
    <3>1. CASE UNCHANGED main
      BY <3>1
    <3>2. ASSUME NEW i \in 1 .. Len(stack), Finish(i) PROVE \A a : IsTold(main, a) => IsTold(main', a)
      <4>1. stack \in Seq(Instances) /\ Len(stack) \in Nat /\ stack[i] \in Instances
        BY ElementOfSeq, LenProperties DEF TypeOK
      <4>2. Msg("destroy", stack[i]) \in Messages
        BY <4>1, MessageTypes
      <4>3. CASE i = Len(stack) /\ i > 1
        <5> DEFINE below == stack[i - 1]
                   back == Msg(IF below \in stopped THEN "restart" ELSE "resume", below)
        <5>1. below \in Instances
          BY <4>1, <4>3, ElementOfSeq
        <5>2. back \in Messages
          BY <5>1, MessageTypes
        <5>3. main' = main \o <<back, Msg("destroy", stack[i])>>
          BY <3>2, <4>3 DEF Finish
        <5> HIDE DEF back, below
        <5>4. <<back, Msg("destroy", stack[i])>> \in Seq(Messages)
          BY <4>2, <5>2
        <5> QED
          BY <1>0, <5>3, <5>4, ToldConcat
      <4>4. CASE ~(i = Len(stack) /\ i > 1)
        <5>1. main' = Append(main, Msg("destroy", stack[i]))
          BY <3>2, <4>4 DEF Finish
        <5> QED
          BY <1>0, <4>2, <5>1, ToldAppend
      <4> QED
        BY <4>3, <4>4
    <3> QED
      BY <1>2, <3>1, <3>2 DEF SystemFinishes
  <2>2. UNCHANGED <<screens, slot, disabled, worker, asked>>
    BY <1>2 DEF SystemFinishes
  <2> QED
    BY <2>1, <2>2, QuietStep
<1>3. ASSUME NEW b \in Instances, SystemStops(b) PROVE LoginInv'
  <2>1. main' = Append(main, Msg("stop", b)) /\ UNCHANGED <<screens, slot, disabled, worker, asked>>
    BY <1>3 DEF SystemStops
  <2>2. \A a : IsTold(main, a) => IsTold(main', a)
    BY <1>0, <2>1, MessageTypes, ToldAppend
  <2> QED
    BY <2>1, <2>2, QuietStep
<1> QED
  BY <1>1, <1>2, <1>3 DEF System

LEMMA MainThreadEnables == ASSUME TypeOK, LoginInv, MainThread PROVE LoginInv'
<1> USE DEF systemVars, bindingVars, buttonVars, connectionVars
<1> DEFINE b == Head(main).a
<1>1. ASSUME NEW m, Due(m), m \notin Events, NEW s \in Seq(Messages),
             main' = Tail(main) \/ main' = Tail(main) \o s
      PROVE  \A a : IsTold(main, a) => IsTold(main', a)
  BY <1>1, QuietMessage
<1>2. ASSUME NEW m, Due(m), m \notin Events, NEW e \in Messages,
             main' = Tail(main) \/ main' = Append(Tail(main), e)
      PROVE  \A a : IsTold(main, a) => IsTold(main', a)
  <2>1. Tail(main) \in Seq(Messages)
    BY <1>2, DueMessage
  <2>2. <<e>> \in Seq(Messages) /\ Append(Tail(main), e) = Tail(main) \o <<e>>
    BY <2>1, AppendIsConcat
  <2> QED
    BY <1>1, <1>2, <2>2
<1>3. CASE Appear
  <2>1. PICK m \in {"launch", "restart"} : Due(m)
    BY <1>3 DEF Appear
  <2>2. b \in Instances
    BY <2>1, DueMessage
  <2>3. Msg("connected", b) \in Messages
    BY <2>2, MessageTypes
  <2>4. main' = Tail(main) \/ main' = Append(Tail(main), Msg("connected", b))
    BY <1>3 DEF Appear, OnStart
  <2>5. \A a : IsTold(main, a) => IsTold(main', a)
    BY <1>2, <2>1, <2>3, <2>4, EventNames
  <2>6. UNCHANGED <<screens, slot, disabled, worker, asked>>
    BY <1>3 DEF Appear
  <2> QED
    BY <2>5, <2>6, QuietStep
<1>4. CASE Resume
  <2>1. Due("resume") /\ main' = Tail(main) /\ UNCHANGED <<screens, slot, disabled, worker, asked>>
    BY <1>4 DEF Resume
  <2>2. \A a : IsTold(main, a) => IsTold(main', a)
    BY <1>1, <2>1, EventNames, EmptySeq
  <2> QED
    BY <2>1, <2>2, QuietStep
<1>5. CASE OnServiceConnected
  <2>1. /\ Due("connected") /\ "connected" \notin Events
        /\ UNCHANGED <<screens, disabled>> /\ slot' = (IF b \in clients THEN b ELSE slot)
        /\ b \in Instances /\ Tail(main) \in Seq(Messages)
    BY <1>5, DueMessage, EventNames DEF OnServiceConnected
  <2>2. CASE b \in clients /\ Is(b, "Login")
    <3>1. worker' = "connecting"
      BY <1>5, <2>2 DEF OnServiceConnected
    <3> QED
      BY <2>1, <3>1 DEF LoginInv, Hope
  <2>3. CASE ~(b \in clients /\ Is(b, "Login"))
    <3>1. main' = Tail(main) \o <<>> /\ UNCHANGED <<worker, asked>>
      BY <1>5, <2>3 DEF OnServiceConnected
    <3>2. \A a : IsTold(main, a) => IsTold(main', a)
      BY <1>1, <2>1, <3>1, EmptySeq
    <3>3. \A a : Waits(a)' => Waits(a)
      BY <2>1, <2>3 DEF Waits, Is
    <3> QED
      BY <2>1, <3>1, <3>2, <3>3 DEF LoginInv, Hope, AnswerIsDue
  <2> QED
    BY <2>2, <2>3
<1>6. ASSUME NEW m \in {"stop", "destroy"}, Due(m), NEW gone, Unbind(gone, Tail(main)),
             disabled' \subseteq disabled, UNCHANGED <<screens, slot, worker, asked>>
      PROVE  LoginInv'
  <2>1. Msg("destroyService", 0) \in Messages
    BY DEF Msg, Messages
  <2>2. main' = Tail(main) \/ main' = Append(Tail(main), Msg("destroyService", 0))
    BY <1>6 DEF Unbind
  <2>3. \A a : IsTold(main, a) => IsTold(main', a)
    BY <1>2, <1>6, <2>1, <2>2, EventNames
  <2> QED
    BY <1>6, <2>3, QuietStep
<1>7. CASE OnStop
  BY <1>6, <1>7 DEF OnStop
<1>8. CASE OnDestroy
  <2>1. /\ Due("destroy") /\ Unbind({b}, Tail(main)) /\ disabled' = disabled \ {b}
        /\ UNCHANGED <<screens, slot, worker, asked>>
    BY <1>8 DEF OnDestroy
  <2>2. disabled' \subseteq disabled
    BY <2>1
  <2> QED
    BY <1>6, <2>1, <2>2
<1>9. CASE OnDestroyService
  <2>1. slot' = 0 /\ UNCHANGED <<screens, disabled>>
    BY <1>9 DEF OnDestroyService
  <2>2. \A a \in disabled : a \in 1 .. Len(screens) /\ a # 0
    BY LenProperties DEF LoginInv, TypeOK
  <2> QED
    BY <2>1, <2>2 DEF LoginInv, Waits
<1>10. ASSUME NEW e \in Events, Due(e), main' = Tail(main), disabled' = disabled \ {b},
              UNCHANGED <<screens, slot, worker, asked>>
       PROVE  LoginInv'
  <2>1. main # <<>> /\ main \in Seq(Messages)
    BY <1>10 DEF Due, TypeOK
  <2>2. ASSUME NEW a \in disabled' PROVE IsTold(main, a) => IsTold(main', a)
    <3>1. ~Tells(Head(main), a)
      BY <1>10, <2>2 DEF Tells
    <3> QED
      BY <1>10, <2>1, <3>1, ToldTail
  <2> QED
    BY <1>10, <2>2, QuietStep
<1>11. CASE RunStatus
  <2>1. PICK e \in {"up", "down"} : Due(e)
    BY <1>11 DEF RunStatus
  <2> QED
    BY <1>10, <1>11, <2>1, EventNames DEF RunStatus
<1>12. CASE RunLoginResult
  <2>1. PICK e \in {"loginOk", "loginFailed"} : Due(e)
    BY <1>12 DEF RunLoginResult
  <2> QED
    BY <1>10, <1>12, <2>1, EventNames DEF RunLoginResult
<1>13. CASE RunRegisterResult
  <2>1. PICK e \in {"registered", "refused"} : Due(e)
    BY <1>13 DEF RunRegisterResult
  <2> QED
    BY <1>10, <1>13, <2>1, EventNames DEF RunRegisterResult
<1>14. ASSUME NEW a \in Instances, DelayedFinish(a) PROVE LoginInv'
  BY <1>14, QuietStep DEF DelayedFinish
<1> QED
  BY <1>3, <1>4, <1>5, <1>7, <1>8, <1>9, <1>11, <1>12, <1>13, <1>14 DEF MainThread

LEMMA WorkerEnables == ASSUME TypeOK, LoginInv, Worker PROVE LoginInv'
<1> USE DEF systemVars, bindingVars, buttonVars
<1>1. ASSUME NEW e \in Events, main' = main \o Posted(slot, e, served)
      PROVE  /\ \A a : IsTold(main, a) => IsTold(main', a)
             /\ Heeds(slot, e) /\ slot \in served => IsTold(main', slot)
  BY <1>1, PostedTells, ToldConcat DEF TypeOK
<1>2. CASE ConnectEnds
  BY <1>2 DEF ConnectEnds, LoginInv, Hope, Waits, Is
<1>3. ASSUME NEW e \in {"up", "down"}, main' = main \o Posted(slot, e, served),
             UNCHANGED <<screens, slot, disabled>>
      PROVE  LoginInv'
  <2>1. \A a : Waits(a) => Heeds(slot, e) /\ slot \in served /\ slot = a
    BY <1>3 DEF Waits, Heeds, TypeOK
  <2>2. \A a \in disabled : Waits(a) => IsTold(main', a)
    BY <1>1, <1>3, <2>1, EventNames
  <2> QED
    BY <1>3, <2>2 DEF LoginInv, Hope, Waits, Is
<1>4. CASE TellUp
  BY <1>3, <1>4 DEF TellUp
<1>5. CASE TellDown
  BY <1>3, <1>5 DEF TellDown
<1>6. CASE Lose
  BY <1>6 DEF Lose, LoginInv, Hope, Waits, Is
<1>7. ASSUME NEW ok \in BOOLEAN, Answer(ok) PROVE LoginInv'
  <2>1. /\ worker = "reading" /\ asked # <<>> /\ asked' = Tail(asked)
        /\ UNCHANGED <<screens, slot, disabled, worker>>
    BY <1>7 DEF Answer
  <2>2. CASE Head(asked) = "login"
    <3>1. PICK e \in {"loginOk", "loginFailed"} : main' = main \o Posted(slot, e, served)
      BY <1>7, <2>2 DEF Answer
    <3>2. \A a : Waits(a) => Heeds(slot, e) /\ slot \in served /\ slot = a
      BY <3>1 DEF Waits, Heeds, TypeOK
    <3>3. \A a \in disabled : Waits(a) => IsTold(main', a)
      BY <1>1, <3>1, <3>2, EventNames
    <3> QED
      BY <2>1, <3>3 DEF LoginInv, Hope, Waits, Is
  <2>3. CASE Head(asked) # "login"
    <3>1. PICK e \in {"registered", "refused"} : main' = main \o Posted(slot, e, served)
      BY <1>7, <2>3 DEF Answer
    <3>2. \A a : IsTold(main, a) => IsTold(main', a)
      BY <1>1, <3>1, EventNames
    <3>3. ASSUME NEW i \in 1 .. Len(asked), asked[i] = "login"
          PROVE  i - 1 \in 1 .. Len(Tail(asked)) /\ Tail(asked)[i - 1] = "login"
      <4>1. /\ asked \in Seq({"login", "register"}) /\ Len(asked) \in Nat \ {0}
            /\ Head(asked) = asked[1]
        BY <2>1, EmptySeq DEF TypeOK
      <4>2. i # 1
        BY <2>3, <3>3, <4>1
      <4>3. /\ Len(Tail(asked)) = Len(asked) - 1
            /\ \A j \in 1 .. Len(Tail(asked)) : Tail(asked)[j] = asked[j + 1]
        BY <2>1, <4>1, HeadTailProperties
      <4>4. i - 1 \in 1 .. Len(Tail(asked)) /\ (i - 1) + 1 = i
        BY <4>1, <4>2, <4>3
      <4> QED
        BY <3>3, <4>3, <4>4
    <3>4. AnswerIsDue => AnswerIsDue'
      BY <2>1, <3>3 DEF AnswerIsDue
    <3> QED
      BY <2>1, <3>2, <3>4 DEF LoginInv, Hope, Waits, Is
  <2> QED
    BY <2>2, <2>3
<1> QED
  BY <1>2, <1>4, <1>5, <1>6, <1>7 DEF Worker

LEMMA RecreateEnables == ASSUME TypeOK, LoginInv, Recreate PROVE LoginInv'
<1> DEFINE s == (IF front \in bound /\ clients = {front} THEN <<Msg("destroyService", 0)>> ELSE <<>>)
           t == (IF Binds(front) THEN <<Msg("connected", front)>> ELSE <<>>)
<1>1. /\ main' = (main \o s) \o t /\ disabled' \subseteq disabled /\ front \in Instances
      /\ UNCHANGED <<screens, slot, worker, asked>>
  BY DEF Recreate, TypeOK
<1>2. Msg("destroyService", 0) \in Messages /\ Msg("connected", front) \in Messages
  BY <1>1, MessageTypes DEF Msg, Messages
<1>3. s \in Seq(Messages) /\ t \in Seq(Messages)
  <2> HIDE DEF Msg
  <2> QED
    BY <1>2, EmptySeq
<1> HIDE DEF s, t
<1>4. \A a : IsTold(main, a) => IsTold(main', a)
  BY <1>1, <1>3, ToldConcat DEF TypeOK
<1> QED
  BY <1>1, <1>4, QuietStep

\* A disabled btnLogin of the screen that listens is enabled by something that
\* is under way: a change of the connection, an answer, or a message that waits.
THEOREM LoginIsEnabledAgain == Spec => []SomethingEnablesLogin
<1>1. Init => LoginInv
  BY DEF Init, LoginInv
<1>2. TypeOK /\ LoginInv /\ [Next]_vars => LoginInv'
  <2>1. ASSUME TypeOK, LoginInv, UNCHANGED vars PROVE LoginInv'
    BY <2>1, QuietStep DEF vars, systemVars, buttonVars, connectionVars
  <2> QED
    BY <2>1, UserEnables, SystemEnables, MainThreadEnables, WorkerEnables, RecreateEnables DEF Next
<1> QED
  BY <1>1, <1>2, AppTyped, LoginInvSuffices, PTL DEF Spec

-----------------------------------------------------------------------------
(* What waits in a queue *)

\* No message of q is in S; after the last message of q in A comes none in S.
NoneIn(q, S) == \A i \in 1 .. Len(q) : q[i] \notin S
LastIn(q, A, S) ==
    \E k \in 1 .. Len(q) : q[k] \in A /\ \A j \in k + 1 .. Len(q) : q[j] \notin S

LEMMA NoneInLess == ASSUME NEW q, NEW S, NEW T, T \subseteq S PROVE NoneIn(q, S) => NoneIn(q, T)
BY DEF NoneIn

LEMMA LastInLess ==
    ASSUME NEW q, NEW A, NEW S, NEW B, NEW T, A \subseteq B, T \subseteq S
    PROVE  LastIn(q, A, S) => LastIn(q, B, T)
BY DEF LastIn

\* Queues of no, one and two messages.
LEMMA ShortQueues ==
    /\ \A S : NoneIn(<<>>, S)
    /\ \A A, S : ~LastIn(<<>>, A, S)
    /\ \A m, S : NoneIn(<<m>>, S) <=> m \notin S
    /\ \A m, A, S : m \in A => LastIn(<<m>>, A, S)
    /\ \A m, n, S : NoneIn(<<m, n>>, S) <=> m \notin S /\ n \notin S
    /\ \A m, n, A, S : n \in A \/ (m \in A /\ n \notin S) => LastIn(<<m, n>>, A, S)
<1>1. \A S : NoneIn(<<>>, S)
  BY DEF NoneIn
<1>2. \A A, S : ~LastIn(<<>>, A, S)
  BY DEF LastIn
<1>3. \A m, S : NoneIn(<<m>>, S) <=> m \notin S
  BY DEF NoneIn
<1>4. ASSUME NEW m, NEW A, NEW S, m \in A PROVE LastIn(<<m>>, A, S)
  <2>1. 1 \in 1 .. Len(<<m>>) /\ <<m>>[1] = m /\ \A j \in 2 .. Len(<<m>>) : FALSE
    OBVIOUS
  <2> QED
    BY <1>4, <2>1 DEF LastIn
<1>5. \A m, n, S : NoneIn(<<m, n>>, S) <=> m \notin S /\ n \notin S
  BY DEF NoneIn
<1>6. ASSUME NEW m, NEW n, NEW A, NEW S, n \in A \/ (m \in A /\ n \notin S)
      PROVE  LastIn(<<m, n>>, A, S)
  <2>1. /\ Len(<<m, n>>) = 2 /\ <<m, n>>[1] = m /\ <<m, n>>[2] = n
    OBVIOUS
  <2>2. CASE n \in A
    <3>1. 2 \in 1 .. 2 /\ \A j \in 2 + 1 .. 2 : FALSE
      OBVIOUS
    <3> QED
      BY <2>1, <2>2, <3>1 DEF LastIn
  <2>3. CASE m \in A /\ n \notin S
    <3>1. 1 \in 1 .. 2 /\ \A j \in 1 + 1 .. 2 : j = 2
      OBVIOUS
    <3> QED
      BY <2>1, <2>3, <3>1 DEF LastIn
  <2> QED
    BY <1>6, <2>2, <2>3
<1> QED
  BY <1>1, <1>2, <1>3, <1>4, <1>5, <1>6

\* A queue that grows.
LEMMA Longer ==
    ASSUME NEW q \in Seq(Messages), NEW s \in Seq(Messages), NEW A, NEW S
    PROVE  /\ NoneIn(q \o s, S) <=> NoneIn(q, S) /\ NoneIn(s, S)
           /\ LastIn(q, A, S) /\ NoneIn(s, S) => LastIn(q \o s, A, S)
           /\ LastIn(s, A, S) => LastIn(q \o s, A, S)
<1>1. /\ Len(q \o s) = Len(q) + Len(s) /\ Len(q) \in Nat /\ Len(s) \in Nat
      /\ \A i \in 1 .. Len(q) + Len(s) : (q \o s)[i] = IF i <= Len(q) THEN q[i] ELSE s[i - Len(q)]
  BY ConcatProperties, LenProperties
<1>2. \A i \in 1 .. Len(q) : i \in 1 .. Len(q) + Len(s) /\ (q \o s)[i] = q[i]
  BY <1>1
<1>3. \A i \in 1 .. Len(s) :
          Len(q) + i \in 1 .. Len(q) + Len(s) /\ (q \o s)[Len(q) + i] = s[i]
  <2>1. ASSUME NEW i \in 1 .. Len(s)
        PROVE  /\ Len(q) + i \in 1 .. Len(q) + Len(s) /\ ~(Len(q) + i <= Len(q))
               /\ Len(q) + i - Len(q) = i
    BY <1>1
  <2> QED
    BY <1>1, <2>1
<1>4. ASSUME NEW i \in 1 .. Len(q) + Len(s), i \notin 1 .. Len(q)
      PROVE  i - Len(q) \in 1 .. Len(s) /\ (q \o s)[i] = s[i - Len(q)]
  BY <1>1, <1>4
<1>5. NoneIn(q \o s, S) => NoneIn(q, S) /\ NoneIn(s, S)
  BY <1>1, <1>2, <1>3 DEF NoneIn
<1>6. NoneIn(q, S) /\ NoneIn(s, S) => NoneIn(q \o s, S)
  BY <1>1, <1>2, <1>4 DEF NoneIn
<1>7. ASSUME LastIn(q, A, S), NoneIn(s, S) PROVE LastIn(q \o s, A, S)
  <2>1. PICK k \in 1 .. Len(q) : q[k] \in A /\ \A j \in k + 1 .. Len(q) : q[j] \notin S
    BY <1>7 DEF LastIn
  <2>2. ASSUME NEW j \in k + 1 .. Len(q) + Len(s) PROVE (q \o s)[j] \notin S
    <3>1. j \in 1 .. Len(q) + Len(s) /\ (j \in 1 .. Len(q) => j \in k + 1 .. Len(q))
      BY <1>1, <2>2
    <3> QED
      BY <1>2, <1>4, <1>7, <2>1, <3>1 DEF NoneIn
  <2> QED
    BY <1>1, <1>2, <2>1, <2>2 DEF LastIn
<1>8. ASSUME LastIn(s, A, S) PROVE LastIn(q \o s, A, S)
  <2>1. PICK k \in 1 .. Len(s) : s[k] \in A /\ \A j \in k + 1 .. Len(s) : s[j] \notin S
    BY <1>8 DEF LastIn
  <2> DEFINE l == Len(q) + k
  <2>2. l \in 1 .. Len(q) + Len(s) /\ (q \o s)[l] = s[k]
    BY <1>3, <2>1
  <2>3. ASSUME NEW j \in l + 1 .. Len(q) + Len(s) PROVE (q \o s)[j] \notin S
    <3>1. /\ j \in 1 .. Len(q) + Len(s) /\ j \notin 1 .. Len(q)
          /\ j - Len(q) \in k + 1 .. Len(s)
      BY <1>1, <2>3
    <3> QED
      BY <1>4, <2>1, <3>1
  <2> HIDE DEF l
  <2> QED
    BY <1>1, <2>1, <2>2, <2>3 DEF LastIn
<1> QED
  BY <1>5, <1>6, <1>7, <1>8

\* A queue that loses its head.
LEMMA Shorter ==
    ASSUME NEW q \in Seq(Messages), q # <<>>, NEW A, NEW S
    PROVE  /\ NoneIn(q, S) <=> Head(q) \notin S /\ NoneIn(Tail(q), S)
           /\ LastIn(q, A, S) =>
                  LastIn(Tail(q), A, S) \/ (Head(q) \in A /\ NoneIn(Tail(q), S))
<1>1. /\ Len(q) \in Nat \ {0} /\ Head(q) = q[1] /\ Len(Tail(q)) = Len(q) - 1
      /\ \A i \in 1 .. Len(Tail(q)) : Tail(q)[i] = q[i + 1]
  BY EmptySeq, HeadTailProperties
<1>2. 1 \in 1 .. Len(q) /\ \A i \in 1 .. Len(q) - 1 : i + 1 \in 1 .. Len(q)
  BY <1>1
<1>3. ASSUME NEW i \in 1 .. Len(q), i # 1
      PROVE  i - 1 \in 1 .. Len(q) - 1 /\ Tail(q)[i - 1] = q[i]
  <2>1. i - 1 \in 1 .. Len(q) - 1 /\ (i - 1) + 1 = i
    BY <1>1, <1>3
  <2> QED
    BY <1>1, <2>1
<1>4. NoneIn(q, S) => Head(q) \notin S /\ NoneIn(Tail(q), S)
  BY <1>1, <1>2 DEF NoneIn
<1>5. Head(q) \notin S /\ NoneIn(Tail(q), S) => NoneIn(q, S)
  BY <1>1, <1>3 DEF NoneIn
<1>6. ASSUME LastIn(q, A, S), ~(Head(q) \in A /\ NoneIn(Tail(q), S)) PROVE LastIn(Tail(q), A, S)
  <2>1. PICK k \in 1 .. Len(q) : q[k] \in A /\ \A j \in k + 1 .. Len(q) : q[j] \notin S
    BY <1>6 DEF LastIn
  <2>2. k # 1
    <3>1. ASSUME k = 1 PROVE Head(q) \in A /\ NoneIn(Tail(q), S)
      <4>1. \A i \in 1 .. Len(q) - 1 : i + 1 \in k + 1 .. Len(q)
        BY <1>1, <3>1
      <4> QED
        BY <1>1, <2>1, <3>1, <4>1 DEF NoneIn
    <3> QED
      BY <1>6, <3>1
  <2> DEFINE l == k - 1
  <2>3. l \in 1 .. Len(q) - 1 /\ Tail(q)[l] = q[k]
    BY <1>3, <2>2
  <2>4. ASSUME NEW j \in l + 1 .. Len(q) - 1 PROVE Tail(q)[j] \notin S
    <3>1. j \in 1 .. Len(q) - 1 /\ j + 1 \in k + 1 .. Len(q)
      BY <1>1, <2>4
    <3> QED
      BY <1>1, <2>1, <3>1
  <2> HIDE DEF l
  <2> QED
    BY <1>1, <2>1, <2>3, <2>4 DEF LastIn
<1> QED
  BY <1>4, <1>5, <1>6

-----------------------------------------------------------------------------
(* The screen in front *)

\* The messages that make an activity appear, those that make activity a
\* appear, and those of them after which it is the listener or came back early.
Showing == {m \in Messages : m.m \in {"launch", "resume", "restart"}}
Shows(a) == {m \in Showing : m.a = a}
Brings(a) == {m \in Shows(a) : m.m = "resume" => a \in early}

\* The messages that move the listener slot, and those for activities that have
\* yet to be created.
Listeners == {m \in Messages : m.m \in {"connected", "destroyService"}}
Later == {m \in Messages : m.a > Len(screens)}

\* Every message but the events that the worker posts.
Own == {m \in Messages : m.m \notin Events}

On(st, a) == \E i \in 1 .. Len(st) : st[i] = a

\* The back stack holds activities that were created, each of them once.
Known ==
    /\ \A i, j \in 1 .. Len(stack) : stack[i] = stack[j] => i = j
    /\ \A i \in 1 .. Len(stack) : stack[i] \in 1 .. Len(screens)
    /\ NoneIn(main, Later) /\ front \in 0 .. Len(screens)

\* An activity is destroyed when it is off the stack, and not before it has
\* left the front.
Leaves(a) ==
    \/ front # a /\ NoneIn(main, Shows(a))
    \/ LastIn(main, {Msg("destroy", a)}, Shows(a))
Gone ==
    \A a \in Instances :
        IF On(stack, a) THEN NoneIn(main, {Msg("destroy", a)}) ELSE Leaves(a)

\* The activity t is the one that main shows last.
Pending(t) == LastIn(main, Brings(t), Showing \union {Msg("stop", t)})

\* Activity t has the listener slot, or takes it last.
Listening(t) ==
    \/ slot = t /\ NoneIn(main, Listeners)
    \/ LastIn(main, {Msg("connected", t)}, Listeners)

\* The activity t is in front, and it stays the listener.
Arrived(t) ==
    /\ front = t /\ NoneIn(main, Showing) /\ NoneIn(main, {Msg("stop", t)})
    /\ Binds(t) /\ t \notin early => t \in clients /\ Listening(t)

TopShown == stack # <<>> => Pending(Top) \/ Arrived(Top)

FrontInv == Known /\ Gone /\ TopShown

LEMMA FrontInvSuffices == TypeOK /\ FrontInv => FrontHasTheSlot
<1> SUFFICES ASSUME TypeOK, FrontInv, main = <<>>, front # 0, Binds(front), front \notin early
             PROVE  slot = front
  BY DEF FrontHasTheSlot
<1>1. front \in Instances
  BY DEF TypeOK
<1>2. \A A, S : ~LastIn(main, A, S)
  BY ShortQueues
<1>3. On(stack, front)
  BY <1>1, <1>2 DEF FrontInv, Gone, Leaves
<1>4. stack # <<>>
  BY <1>3, EmptySeq DEF On
<1>5. Arrived(Top)
  BY <1>2, <1>4 DEF FrontInv, TopShown, Pending
<1> QED
  BY <1>2, <1>5 DEF Arrived, Listening

-----------------------------------------------------------------------------
(* One step of the queue of the main thread *)

Grows(s) == main' = main \o s
Runs(s) == main # <<>> /\ main' = Tail(main) \o s

LEMMA GrowsOrRuns == ASSUME TypeOK, NEW s \in Seq(Messages), Grows(s) PROVE ~Runs(s)
<1> SUFFICES ASSUME main # <<>>, main \o s = Tail(main) \o s PROVE FALSE
  BY DEF Grows, Runs
<1>1. /\ main \in Seq(Messages) /\ Tail(main) \in Seq(Messages)
      /\ Len(Tail(main)) = Len(main) - 1
  BY HeadTailProperties DEF TypeOK
<1>2. Len(main) \in Nat /\ Len(s) \in Nat
  BY <1>1, LenProperties
<1>3. Len(main \o s) = Len(main) + Len(s) /\ Len(Tail(main) \o s) = Len(main) - 1 + Len(s)
  BY <1>1, ConcatProperties
<1> QED
  BY <1>2, <1>3

\* What came before stays, if nothing that undoes it is put behind it.
LEMMA QueueStep ==
    ASSUME TypeOK, NEW s \in Seq(Messages), Grows(s) \/ Runs(s), NEW A, NEW S, NoneIn(s, S)
    PROVE  /\ NoneIn(main, S) => NoneIn(main', S)
           /\ LastIn(main, A, S) /\ (Runs(s) => Head(main) \notin A) => LastIn(main', A, S)
<1>0. main \in Seq(Messages)
  BY DEF TypeOK
<1>1. CASE Grows(s)
  BY <1>0, <1>1, Longer DEF Grows
<1>2. CASE Runs(s)
  <2>1. main # <<>> /\ main' = Tail(main) \o s /\ Tail(main) \in Seq(Messages)
    BY <1>0, <1>2, HeadTailProperties DEF Runs
  <2>2. NoneIn(main, S) => NoneIn(Tail(main), S)
    BY <1>0, <2>1, Shorter
  <2>3. LastIn(main, A, S) /\ Head(main) \notin A => LastIn(Tail(main), A, S)
    BY <1>0, <2>1, Shorter
  <2> QED
    BY <1>2, <2>1, <2>2, <2>3, Longer
<1> QED
  BY <1>1, <1>2

\* What the step that runs the head leaves: the last of A may have been the head.
LEMMA QueueRuns ==
    ASSUME TypeOK, NEW s \in Seq(Messages), Runs(s), NEW A, NEW S, NoneIn(s, S),
           LastIn(main, A, S)
    PROVE  LastIn(main', A, S) \/ (Head(main) \in A /\ NoneIn(main', S))
<1>1. main \in Seq(Messages) /\ main # <<>> /\ main' = Tail(main) \o s /\ Tail(main) \in Seq(Messages)
  BY HeadTailProperties DEF TypeOK, Runs
<1>2. LastIn(Tail(main), A, S) \/ (Head(main) \in A /\ NoneIn(Tail(main), S))
  BY <1>1, Shorter
<1> QED
  BY <1>1, <1>2, Longer

\* What is put behind the others comes last.
LEMMA QueueEnd ==
    ASSUME TypeOK, NEW s \in Seq(Messages), Grows(s) \/ Runs(s), NEW A, NEW S, LastIn(s, A, S)
    PROVE  LastIn(main', A, S)
<1>1. main \in Seq(Messages)
  BY DEF TypeOK
<1>2. CASE Grows(s)
  BY <1>1, <1>2, Longer DEF Grows
<1>3. CASE Runs(s)
  <2>1. Tail(main) \in Seq(Messages) /\ main' = Tail(main) \o s
    BY <1>1, <1>3, HeadTailProperties DEF Runs
  <2> QED
    BY <2>1, Longer
<1> QED
  BY <1>2, <1>3

\* A message is told by its kind and its activity.
LEMMA MessageIs == ASSUME NEW m \in Messages PROVE m = Msg(m.m, m.a)
BY DEF Messages, Msg

LEMMA MessageFields == ASSUME NEW x, NEW a PROVE Msg(x, a).m = x /\ Msg(x, a).a = a
BY DEF Msg

LEMMA TopType == ASSUME TypeOK, stack # <<>> PROVE Top \in Instances /\ On(stack, Top)
<1>1. Len(stack) \in Nat \ {0}
  BY EmptySeq DEF TypeOK
<1>2. Len(stack) \in 1 .. Len(stack)
  BY <1>1
<1> QED
  BY <1>2, ElementOfSeq DEF TypeOK, Top, On

LEMMA KnownKept ==
    ASSUME TypeOK, Known, NEW s \in Seq(Messages), Grows(s) \/ Runs(s), NoneIn(s, Later),
           UNCHANGED <<screens, stack>>, front' \in 0 .. Len(screens)
    PROVE  Known'
<1>1. NoneIn(main', Later)
  BY QueueStep DEF Known
<1>2. Later' = Later
  BY DEF Later
<1> QED
  BY <1>1, <1>2 DEF Known

LEMMA PendingKept ==
    ASSUME TypeOK, NEW s \in Seq(Messages), Grows(s) \/ Runs(s), NEW t,
           NoneIn(s, Showing \union {Msg("stop", t)}),
           Runs(s) => Head(main) \notin Brings(t), t \in early <=> t \in early', Pending(t)
    PROVE  Pending(t)'
<1>1. Brings(t)' = Brings(t)
  BY DEF Brings
<1>2. LastIn(main', Brings(t), Showing \union {Msg("stop", t)})
  BY QueueStep DEF Pending
<1> QED
  BY <1>1, <1>2 DEF Pending

LEMMA ListeningKept ==
    ASSUME TypeOK, NEW s \in Seq(Messages), Grows(s) \/ Runs(s), NEW t, NoneIn(s, Listeners),
           Runs(s) => Head(main) \notin Listeners, slot' = slot, t \in Instances, Listening(t)
    PROVE  Listening(t)'
<1>1. NoneIn(main, Listeners) => NoneIn(main', Listeners)
  BY QueueStep
<1>2. Msg("connected", t) \in Listeners
  BY MessageTypes, MessageFields DEF Listeners
<1>3. Runs(s) => Head(main) \notin {Msg("connected", t)}
  BY <1>2
<1>4. LastIn(main, {Msg("connected", t)}, Listeners) => LastIn(main', {Msg("connected", t)}, Listeners)
  BY <1>3, QueueStep
<1> QED
  BY <1>1, <1>4 DEF Listening

LEMMA ArrivedKept ==
    ASSUME TypeOK, NEW s \in Seq(Messages), Grows(s) \/ Runs(s), NEW t,
           NoneIn(s, Showing \union {Msg("stop", t)}), front' = front,
           Binds(t)' => Binds(t), t \in early <=> t \in early',
           t \in clients /\ Listening(t) /\ Binds(t) /\ t \notin early /\ NoneIn(main, {Msg("stop", t)})
               => t \in clients' /\ Listening(t)',
           Arrived(t)
    PROVE  Arrived(t)'
<1>1. NoneIn(s, Showing) /\ NoneIn(s, {Msg("stop", t)})
  BY NoneInLess
<1>2. NoneIn(main', Showing) /\ (NoneIn(main, {Msg("stop", t)}) => NoneIn(main', {Msg("stop", t)}))
  BY <1>1, QueueStep DEF Arrived
<1> QED
  BY <1>2 DEF Arrived

LEMMA GoneKept ==
    ASSUME TypeOK, Gone, NEW s \in Seq(Messages), Grows(s) \/ Runs(s),
           NoneIn(s, Showing), \A a \in Instances : NoneIn(s, {Msg("destroy", a)}),
           Runs(s) => Head(main).m # "destroy", UNCHANGED <<stack, front>>
    PROVE  Gone'
<1>1. ASSUME NEW a \in Instances
      PROVE  /\ NoneIn(main, {Msg("destroy", a)}) => NoneIn(main', {Msg("destroy", a)})
             /\ Leaves(a) => Leaves(a)'
  <2>1. Shows(a) \subseteq Showing
    BY DEF Shows
  <2>2. NoneIn(s, Shows(a)) /\ NoneIn(s, {Msg("destroy", a)})
    BY <2>1, NoneInLess
  <2>3. Runs(s) => Head(main) \notin {Msg("destroy", a)}
    BY MessageFields
  <2>4. /\ NoneIn(main, Shows(a)) => NoneIn(main', Shows(a))
        /\ LastIn(main, {Msg("destroy", a)}, Shows(a)) => LastIn(main', {Msg("destroy", a)}, Shows(a))
        /\ NoneIn(main, {Msg("destroy", a)}) => NoneIn(main', {Msg("destroy", a)})
    BY <2>2, <2>3, QueueStep
  <2> QED
    BY <2>4 DEF Leaves
<1> QED
  BY <1>1 DEF Gone

LEMMA OwnMessages ==
    /\ Showing \subseteq Own /\ Listeners \subseteq Own
    /\ \A a \in Instances : \A m \in {"connected", "stop", "destroy"} : Msg(m, a) \in Own
<1>1. \A m \in {"launch", "resume", "restart", "connected", "stop", "destroy", "destroyService"} :
          m \notin Events
  BY EventNames
<1>2. Showing \subseteq Own /\ Listeners \subseteq Own
  BY <1>1 DEF Showing, Listeners, Own
<1> QED
  BY <1>1, <1>2, MessageTypes, MessageFields DEF Own

\* A step that neither moves an activity nor the binding of one.
LEMMA QuietFront ==
    ASSUME TypeOK, FrontInv, NEW s \in Seq(Messages), NoneIn(s, Own \union Later),
           Grows(s) \/ (Runs(s) /\ Head(main) \notin Own),
           UNCHANGED <<screens, stack, early, front, clients, slot>>
    PROVE  FrontInv'
<1>1. (Grows(s) \/ Runs(s)) /\ (Runs(s) => Head(main) \notin Own)
  BY GrowsOrRuns
<1>2. /\ NoneIn(s, Later) /\ NoneIn(s, Showing) /\ NoneIn(s, Listeners)
      /\ \A a \in Instances : /\ NoneIn(s, {Msg("destroy", a)})
                              /\ NoneIn(s, Showing \union {Msg("stop", a)})
  BY OwnMessages, NoneInLess
<1>3. Known'
  BY <1>1, <1>2, KnownKept DEF FrontInv, Known
<1>4. Gone'
  <2>1. Runs(s) => Head(main).m # "destroy"
    <3>1. ASSUME Runs(s) PROVE Head(main) \in Messages /\ Head(main).m \in Events
      BY <1>1, <3>1, ToldTail DEF Runs, TypeOK, Own
    <3> QED
      BY <3>1, EventNames
  <2> QED
    BY <1>1, <1>2, <2>1, GoneKept DEF FrontInv
<1>5. ASSUME stack # <<>> PROVE Pending(Top)' \/ Arrived(Top)'
  <2>0. PICK t : t = Top
    OBVIOUS
  <2>1. t \in Instances /\ Top' = t
    BY <1>5, <2>0, TopType DEF Top
  <2>2. Pending(t) => Pending(t)'
    <3>1. Brings(t) \subseteq Own
      BY OwnMessages DEF Brings, Shows
    <3> QED
      BY <1>1, <1>2, <2>1, <3>1, PendingKept
  <2>3. Listening(t) => Listening(t)'
    BY OwnMessages, <1>1, <1>2, <2>1, ListeningKept
  <2>4. Arrived(t) => Arrived(t)'
    <3>1. Binds(t)' => Binds(t)
      BY DEF Binds, Is
    <3> QED
      BY <1>1, <1>2, <2>1, <2>3, <3>1, ArrivedKept
  <2> QED
    BY <1>5, <2>0, <2>1, <2>2, <2>4 DEF FrontInv, TopShown
<1>6. TopShown'
  BY <1>5 DEF TopShown
<1> QED
  BY <1>3, <1>4, <1>6 DEF FrontInv

\* What the worker says is quiet: it is for a screen that was created.
LEMMA PostedQuiet ==
    ASSUME TypeOK, NEW a, NEW e \in Events, NEW shown
    PROVE  NoneIn(Posted(a, e, shown), Own \union Later)
<1>1. CASE Heeds(a, e)
  <2>1. a \in 1 .. Len(screens) /\ Len(screens) \in Nat
    BY <1>1, LenProperties DEF Heeds, Is, TypeOK
  <2>2. Msg(e, a) \notin Own /\ Msg(e, a) \notin Later
    BY <2>1, MessageFields DEF Own, Later
  <2> QED
    BY <1>1, <2>2, ShortQueues DEF Posted
<1>2. CASE ~Heeds(a, e)
  BY <1>2, ShortQueues DEF Posted
<1> QED
  BY <1>1, <1>2

LEMMA LastWordsQuiet ==
    ASSUME TypeOK, NEW a, NEW shown PROVE NoneIn(LastWords(a, shown), Own \union Later)
<1>1. /\ NoneIn(Posted(a, "up", shown), Own \union Later) /\ NoneIn(Posted(a, "down", shown), Own \union Later)
      /\ Posted(a, "up", shown) \in Seq(Messages) /\ Posted(a, "down", shown) \in Seq(Messages)
  BY PostedQuiet, PostedTells, EventNames
<1>2. NoneIn(Posted(a, "up", shown) \o Posted(a, "down", shown), Own \union Later)
  BY <1>1, Longer
<1> QED
  BY <1>1, <1>2, ShortQueues DEF LastWords

\* A step that leaves the queue alone adds nothing to it.
LEMMA NothingGrows ==
    ASSUME TypeOK
    PROVE  /\ <<>> \in Seq(Messages) /\ \A S : NoneIn(<<>>, S)
           /\ UNCHANGED main => Grows(<<>>)
           /\ main # <<>> /\ main' = Tail(main) => Runs(<<>>)
<1>1. main \in Seq(Messages) /\ (main # <<>> => Tail(main) \in Seq(Messages))
  BY HeadTailProperties DEF TypeOK
<1> QED
  BY <1>1, EmptySeq, ConcatEmptySeq, ShortQueues DEF Grows, Runs

\* The head of the queue when an event is run.
LEMMA EventRuns ==
    ASSUME TypeOK, NEW e \in Events, Due(e), main' = Tail(main)
    PROVE  Runs(<<>>) /\ Head(main) \notin Own
BY DueMessage, NothingGrows DEF Own

LEMMA UserFront == ASSUME TypeOK, FrontInv, User PROVE FrontInv'
<1> USE DEF systemVars, bindingVars
<1>1. ASSUME UNCHANGED <<main, screens, stack, early, front, clients, slot>> PROVE FrontInv'
  BY <1>1, NothingGrows, QuietFront
<1>2. CASE Start
  BY <1>1, <1>2 DEF Start
<1>3. ASSUME NEW from, NEW to, OpenScreen(from, to) PROVE FrontInv'
  BY <1>1, <1>3 DEF OpenScreen
<1>4. CASE Back
  BY <1>1, <1>4 DEF Back
<1>5. ASSUME NEW activity, NEW request, Ask(activity, request) PROVE FrontInv'
  BY <1>1, <1>5 DEF Ask
<1>6. CASE Logout
  <2>1. Grows(LastWords(slot, served)) \/ UNCHANGED main
    BY <1>6 DEF Logout, Grows
  <2>2. UNCHANGED <<screens, stack, early, front, clients, slot>>
    BY <1>6 DEF Logout
  <2> QED
    BY <1>1, <2>1, <2>2, LastWordsTell, LastWordsQuiet, QuietFront
<1> QED
  BY <1>2, <1>3, <1>4, <1>5, <1>6 DEF User

LEMMA WorkerFront == ASSUME TypeOK, FrontInv, Worker PROVE FrontInv'
<1> USE DEF systemVars, bindingVars
<1>1. ASSUME UNCHANGED <<main, screens, stack, early, front, clients, slot>> PROVE FrontInv'
  BY <1>1, NothingGrows, QuietFront
<1>2. ASSUME NEW e \in Events, main' = main \o Posted(slot, e, served),
             UNCHANGED <<screens, stack, early, front, clients, slot>>
      PROVE  FrontInv'
  BY <1>2, PostedTells, PostedQuiet, QuietFront DEF Grows
<1>3. CASE ConnectEnds
  BY <1>1, <1>3 DEF ConnectEnds
<1>4. CASE TellUp
  BY <1>2, <1>4, EventNames DEF TellUp
<1>5. CASE Lose
  BY <1>1, <1>5 DEF Lose
<1>6. CASE TellDown
  BY <1>2, <1>6, EventNames DEF TellDown
<1>7. ASSUME NEW ok \in BOOLEAN, Answer(ok) PROVE FrontInv'
  <2>1. PICK e \in Events : main' = main \o Posted(slot, e, served)
    BY <1>7 DEF Answer, Events
  <2>2. UNCHANGED <<screens, stack, early, front, clients, slot>>
    BY <1>7 DEF Answer
  <2> QED
    BY <1>2, <2>1, <2>2
<1> QED
  BY <1>3, <1>4, <1>5, <1>6, <1>7 DEF Worker

\* One message that the system puts behind the others.
LEMMA OneGrows ==
    ASSUME TypeOK, NEW m \in Messages, main' = Append(main, m)
    PROVE  <<m>> \in Seq(Messages) /\ Grows(<<m>>)
BY AppendIsConcat DEF TypeOK, Grows

LEMMA OpensFront == ASSUME TypeOK, FrontInv, SystemOpens PROVE FrontInv'
<1> USE DEF bindingVars, buttonVars, connectionVars
<1> DEFINE b == Len(screens) + 1
           s == <<Msg("launch", b)>>
<1>1. /\ screens' = Append(screens, Head(sys).what) /\ stack' = Append(stack, b)
      /\ main' = Append(main, Msg("launch", b)) /\ UNCHANGED <<front, early>>
  BY DEF SystemOpens
<1>2. Len(screens) \in Nat /\ b \in Instances
  BY AppAssumption, LenProperties DEF SystemOpens, TypeOK, Instances
<1>3. Len(screens') = b
  <2>1. Head(sys) \in Calls /\ Head(sys).op = "open"
    BY HeadTailProperties DEF SystemOpens, TypeOK
  <2> QED
    BY <1>1, <2>1, AppendProperties DEF TypeOK, Calls
<1>4. /\ Len(stack) \in Nat /\ Len(stack') = Len(stack) + 1 /\ stack'[Len(stack) + 1] = b
      /\ \A i \in 1 .. Len(stack) : stack'[i] = stack[i] /\ stack[i] \in 1 .. Len(screens)
  BY <1>1, <1>2, AppendProperties, LenProperties DEF TypeOK, FrontInv, Known
<1>5. Msg("launch", b) \in Messages /\ s \in Seq(Messages) /\ Grows(s)
  BY <1>1, <1>2, MessageTypes, OneGrows
<1> HIDE DEF s
<1>6. \A S : NoneIn(s, S) <=> Msg("launch", b) \notin S
  BY ShortQueues DEF s
<1>7. Known'
  <2>1. ASSUME NEW i \in 1 .. Len(stack'), NEW j \in 1 .. Len(stack'), stack'[i] = stack'[j] PROVE i = j
    <3>1. /\ i \in 1 .. Len(stack) \/ i = Len(stack) + 1
          /\ j \in 1 .. Len(stack) \/ j = Len(stack) + 1
      BY <1>4
    <3>2. \A k \in 1 .. Len(stack) : stack'[k] # b
      BY <1>2, <1>4
    <3>3. CASE i \in 1 .. Len(stack) /\ j \in 1 .. Len(stack)
      BY <1>4, <2>1, <3>3 DEF FrontInv, Known
    <3> QED
      BY <1>4, <2>1, <3>1, <3>2, <3>3
  <2>2. \A i \in 1 .. Len(stack') : stack'[i] \in 1 .. Len(screens')
    BY <1>2, <1>3, <1>4
  <2>3. NoneIn(main', Later')
    <3>1. Later' \subseteq Later
      BY <1>2, <1>3 DEF Later, Messages, Instances
    <3>2. Msg("launch", b) \notin Later'
      BY <1>2, <1>3, MessageFields DEF Later
    <3>3. NoneIn(main, Later')
      BY <3>1, NoneInLess DEF FrontInv, Known
    <3> QED
      BY <1>5, <1>6, <3>2, <3>3, QueueStep
  <2>4. front' \in 0 .. Len(screens')
    BY <1>1, <1>2, <1>3 DEF FrontInv, Known
  <2> QED
    BY <2>1, <2>2, <2>3, <2>4 DEF Known
<1>8. Gone'
  <2> SUFFICES ASSUME NEW a \in Instances
               PROVE  IF On(stack', a) THEN NoneIn(main', {Msg("destroy", a)}) ELSE Leaves(a)'
    BY DEF Gone
  <2>1. NoneIn(main, {Msg("destroy", a)}) => NoneIn(main', {Msg("destroy", a)})
    BY <1>5, <1>6, QueueStep, MessageFields
  <2>2. CASE a = b
    <3>1. Msg("destroy", a) \in Later
      BY <1>2, <2>2, MessageTypes, MessageFields DEF Later
    <3>2. NoneIn(main, {Msg("destroy", a)})
      BY <3>1, NoneInLess DEF FrontInv, Known
    <3>3. On(stack', a)
      <4>1. Len(stack) + 1 \in 1 .. Len(stack')
        BY <1>4
      <4> QED
        BY <1>4, <2>2, <4>1 DEF On
    <3> QED
      BY <2>1, <3>2, <3>3
  <2>3. CASE a # b
    <3>1. On(stack', a) <=> On(stack, a)
      <4>1. \A i \in 1 .. Len(stack') : i \in 1 .. Len(stack) \/ i = Len(stack) + 1
        BY <1>4
      <4>2. \A i \in 1 .. Len(stack) : i \in 1 .. Len(stack')
        BY <1>4
      <4> QED
        BY <1>4, <2>3, <4>1, <4>2 DEF On
    <3>2. NoneIn(s, Shows(a))
      BY <1>6, <2>3, MessageFields DEF Shows
    <3>3. /\ NoneIn(main, Shows(a)) => NoneIn(main', Shows(a))
          /\ LastIn(main, {Msg("destroy", a)}, Shows(a)) => LastIn(main', {Msg("destroy", a)}, Shows(a))
      BY <1>5, <3>2, QueueStep, GrowsOrRuns
    <3>4. Leaves(a) => Leaves(a)'
      BY <1>1, <3>3 DEF Leaves
    <3> QED
      BY <2>1, <3>1, <3>4 DEF FrontInv, Gone
  <2> QED
    BY <2>2, <2>3
<1>9. TopShown'
  <2>0. PICK t : t = b
    OBVIOUS
  <2>1. Top' = t
    <3>1. stack' # <<>>
      BY <1>4, EmptySeq
    <3> QED
      BY <1>4, <2>0, <3>1 DEF Top
  <2>2. Msg("launch", t) \in Brings(t)'
    BY <1>5, <2>0, MessageFields DEF Brings, Shows, Showing
  <2>3. LastIn(s, Brings(t)', Showing \union {Msg("stop", t)})
    BY <2>0, <2>2, ShortQueues DEF s
  <2>4. LastIn(main', Brings(t)', Showing \union {Msg("stop", t)})
    BY <1>5, <2>3, QueueEnd
  <2> QED
    BY <2>1, <2>4 DEF TopShown, Pending
<1> QED
  BY <1>7, <1>8, <1>9 DEF FrontInv

\* A sequence without one of its elements.
LEMMA RemoveOne ==
    ASSUME NEW st \in Seq(Instances), NEW i \in 1 .. Len(st), NEW r,
           r = SubSeq(st, 1, i - 1) \o SubSeq(st, i + 1, Len(st))
    PROVE  /\ r \in Seq(Instances) /\ Len(r) = Len(st) - 1
           /\ \A j \in 1 .. Len(r) : r[j] = st[IF j < i THEN j ELSE j + 1]
<1> DEFINE p == SubSeq(st, 1, i - 1)
           q == SubSeq(st, i + 1, Len(st))
<1>1. Len(st) \in Nat /\ i \in Int
  BY LenProperties
<1>2. /\ \A j \in 1 .. i - 1 : st[j] \in Instances
      /\ \A j \in i + 1 .. Len(st) : st[j] \in Instances
  BY <1>1, ElementOfSeq
<1>3. /\ p \in Seq(Instances) /\ Len(p) = i - 1
      /\ \A j \in 1 .. i - 1 : p[j] = st[j]
  <2>1. /\ p \in Seq(Instances) /\ Len(p) = IF 1 <= i - 1 THEN i - 1 - 1 + 1 ELSE 0
        /\ \A j \in 1 .. i - 1 - 1 + 1 : p[j] = st[1 + j - 1]
    BY <1>1, <1>2, SubSeqProperties
  <2>2. \A j \in 1 .. i - 1 : j \in 1 .. i - 1 - 1 + 1 /\ 1 + j - 1 = j
    BY <1>1
  <2> QED
    BY <1>1, <2>1, <2>2
<1>4. /\ q \in Seq(Instances) /\ Len(q) = Len(st) - i
      /\ \A j \in 1 .. Len(st) - i : q[j] = st[i + j]
  <2>1. /\ q \in Seq(Instances)
        /\ Len(q) = IF i + 1 <= Len(st) THEN Len(st) - (i + 1) + 1 ELSE 0
        /\ \A j \in 1 .. Len(st) - (i + 1) + 1 : q[j] = st[(i + 1) + j - 1]
    BY <1>1, <1>2, SubSeqProperties
  <2>2. \A j \in 1 .. Len(st) - i : j \in 1 .. Len(st) - (i + 1) + 1 /\ (i + 1) + j - 1 = i + j
    BY <1>1
  <2> QED
    BY <1>1, <2>1, <2>2
<1> HIDE DEF p, q
<1>5. /\ p \o q \in Seq(Instances) /\ Len(p \o q) = Len(st) - 1
      /\ \A j \in 1 .. Len(st) - 1 : (p \o q)[j] = IF j <= i - 1 THEN p[j] ELSE q[j - (i - 1)]
  <2>1. /\ p \o q \in Seq(Instances) /\ Len(p \o q) = Len(p) + Len(q)
        /\ \A j \in 1 .. Len(p) + Len(q) : (p \o q)[j] = IF j <= Len(p) THEN p[j] ELSE q[j - Len(p)]
    BY <1>3, <1>4, ConcatProperties
  <2> QED
    BY <1>1, <1>3, <1>4, <2>1
<1>6. ASSUME NEW j \in 1 .. Len(st) - 1
      PROVE  (p \o q)[j] = st[IF j < i THEN j ELSE j + 1]
  <2>1. CASE j < i
    <3>1. j \in 1 .. i - 1 /\ j <= i - 1
      BY <1>1, <2>1
    <3> QED
      BY <1>3, <1>5, <2>1, <3>1
  <2>2. CASE ~(j < i)
    <3>1. ~(j <= i - 1) /\ j - (i - 1) \in 1 .. Len(st) - i /\ i + (j - (i - 1)) = j + 1
      BY <1>1, <2>2
    <3> QED
      BY <1>4, <1>5, <2>2, <3>1
  <2> QED
    BY <2>1, <2>2
<1>7. r = p \o q
  BY DEF p, q
<1> QED
  BY <1>5, <1>6, <1>7

\* The back stack without the activity at place i.
LEMMA StackWithout ==
    ASSUME TypeOK, Known, NEW i \in 1 .. Len(stack), Finish(i), NEW a, a = stack[i]
    PROVE  /\ a \in Instances /\ a \in 1 .. Len(screens)
           /\ \A x, y \in 1 .. Len(stack') : stack'[x] = stack'[y] => x = y
           /\ \A x \in 1 .. Len(stack') : stack'[x] \in 1 .. Len(screens)
           /\ \A b : On(stack', b) <=> On(stack, b) /\ b # a
           /\ i < Len(stack) => Top' = Top /\ Top # a
           /\ i = Len(stack) /\ i > 1 => Top' = stack[i - 1] /\ stack[i - 1] # a
           /\ stack' # <<>> => i < Len(stack) \/ i > 1
<1>1. /\ stack \in Seq(Instances) /\ Len(stack) \in Nat /\ i \in Int
      /\ stack' = SubSeq(stack, 1, i - 1) \o SubSeq(stack, i + 1, Len(stack))
  BY LenProperties DEF TypeOK, Finish
<1>2. /\ stack' \in Seq(Instances) /\ Len(stack') = Len(stack) - 1
      /\ \A j \in 1 .. Len(stack') : stack'[j] = stack[IF j < i THEN j ELSE j + 1]
  BY <1>1, RemoveOne
<1>3. \A j \in 1 .. Len(stack) - 1 :
          LET k == IF j < i THEN j ELSE j + 1 IN k \in 1 .. Len(stack) /\ k # i
  BY <1>1
<1>4. a \in Instances /\ a \in 1 .. Len(screens)
  BY <1>1, ElementOfSeq DEF Known
<1>5. ASSUME NEW x \in 1 .. Len(stack'), NEW y \in 1 .. Len(stack'), stack'[x] = stack'[y]
      PROVE  x = y
  <2> DEFINE k == IF x < i THEN x ELSE x + 1
             l == IF y < i THEN y ELSE y + 1
  <2>1. k \in 1 .. Len(stack) /\ l \in 1 .. Len(stack)
    BY <1>2, <1>3
  <2>2. stack[k] = stack[l]
    BY <1>2, <1>5
  <2> HIDE DEF k, l
  <2>3. k = l
    BY <2>1, <2>2 DEF Known
  <2> QED
    BY <1>1, <1>2, <2>3 DEF k, l
<1>6. \A x \in 1 .. Len(stack') : stack'[x] \in 1 .. Len(screens) /\ stack'[x] # a
  BY <1>2, <1>3 DEF Known
<1>7. ASSUME NEW b PROVE On(stack', b) <=> On(stack, b) /\ b # a
  <2>1. On(stack', b) => On(stack, b) /\ b # a
    BY <1>2, <1>3, <1>6 DEF On
  <2>2. ASSUME NEW k \in 1 .. Len(stack), stack[k] = b, b # a PROVE On(stack', b)
    <3>1. k # i
      BY <2>2
    <3> DEFINE j == IF k < i THEN k ELSE k - 1
    <3>2. j \in 1 .. Len(stack) - 1 /\ (IF j < i THEN j ELSE j + 1) = k
      BY <1>1, <3>1
    <3> HIDE DEF j
    <3> QED
      BY <1>2, <2>2, <3>2 DEF On
  <2> QED
    BY <2>1, <2>2 DEF On
<1>8. stack # <<>>
  BY <1>1, EmptySeq
<1>9. stack' # <<>> => Len(stack) - 1 \in Nat \ {0}
  BY <1>2, EmptySeq
<1>10. Len(stack) - 1 # 0 => stack' # <<>>
  BY <1>2, EmptySeq
<1>11. ASSUME i < Len(stack) PROVE Top' = Top /\ Top # a
  <2>1. /\ Len(stack) - 1 # 0 /\ Len(stack) - 1 \in 1 .. Len(stack) - 1
        /\ ~(Len(stack) - 1 < i) /\ Len(stack) - 1 + 1 = Len(stack)
        /\ Len(stack) \in 1 .. Len(stack) /\ Len(stack) # i
    <3>1. Len(stack) \in Nat /\ i \in Nat /\ 1 <= i /\ i <= Len(stack) - 1
      BY <1>1, <1>11
    <3> QED
      BY <3>1
  <2>2. Top' = stack[Len(stack)]
    BY <1>2, <1>10, <2>1 DEF Top
  <2> QED
    BY <1>8, <2>1, <2>2 DEF Top, Known
<1>12. ASSUME i = Len(stack), i > 1 PROVE Top' = stack[i - 1] /\ stack[i - 1] # a
  <2>1. /\ Len(stack) - 1 # 0 /\ i - 1 \in 1 .. Len(stack) - 1 /\ i - 1 \in 1 .. Len(stack)
        /\ i - 1 < i /\ i - 1 # i
    BY <1>1, <1>12
  <2>2. Top' = stack'[i - 1]
    BY <1>2, <1>10, <1>12, <2>1 DEF Top
  <2>3. stack'[i - 1] = stack[i - 1]
    BY <1>2, <2>1
  <2> QED
    BY <2>1, <2>2, <2>3 DEF Known
<1>13. stack' # <<>> => i < Len(stack) \/ i > 1
  BY <1>1, <1>9
<1> QED
  BY <1>4, <1>5, <1>6, <1>7, <1>11, <1>12, <1>13

\* An activity is finished: the queue gets s, with the end of the activity last.
LEMMA FinishGone ==
    ASSUME TypeOK, FrontInv, NEW i \in 1 .. Len(stack), Finish(i), NEW a, a = stack[i],
           NEW s \in Seq(Messages), Grows(s), LastIn(s, {Msg("destroy", a)}, Shows(a)),
           \A b \in Instances : NoneIn(s, {Msg("destroy", b)}) \/ b = a,
           \A b \in Instances : NoneIn(s, Shows(b)) \/ On(stack, b), front' = front
    PROVE  Gone'
<1> SUFFICES ASSUME NEW b \in Instances
             PROVE  IF On(stack', b) THEN NoneIn(main', {Msg("destroy", b)}) ELSE Leaves(b)'
  BY DEF Gone
<1>1. On(stack', b) <=> On(stack, b) /\ b # a
  BY StackWithout DEF FrontInv
<1>2. CASE b = a
  <2>1. LastIn(main', {Msg("destroy", b)}, Shows(b))
    BY <1>2, QueueEnd
  <2> QED
    BY <1>1, <1>2, <2>1 DEF Leaves
<1>3. CASE b # a /\ On(stack, b)
  <2>1. NoneIn(main', {Msg("destroy", b)})
    BY <1>3, QueueStep DEF FrontInv, Gone
  <2> QED
    BY <1>1, <1>3, <2>1
<1>4. CASE b # a /\ ~On(stack, b)
  <2>1. NoneIn(s, Shows(b)) /\ Leaves(b)
    BY <1>4 DEF FrontInv, Gone
  <2>2. /\ NoneIn(main, Shows(b)) => NoneIn(main', Shows(b))
        /\ LastIn(main, {Msg("destroy", b)}, Shows(b)) => LastIn(main', {Msg("destroy", b)}, Shows(b))
    BY <2>1, QueueStep, GrowsOrRuns
  <2> QED
    BY <1>1, <1>4, <2>1, <2>2 DEF Leaves
<1> QED
  BY <1>2, <1>3, <1>4

LEMMA FinishFront ==
    ASSUME TypeOK, FrontInv, NEW i \in 1 .. Len(stack), Finish(i),
           UNCHANGED <<screens, front, clients, slot>>
    PROVE  FrontInv'
<1>0. PICK a : a = stack[i]
  OBVIOUS
<1>1. /\ a \in Instances /\ a \in 1 .. Len(screens) /\ Len(screens) \in Nat
      /\ \A x, y \in 1 .. Len(stack') : stack'[x] = stack'[y] => x = y
      /\ \A x \in 1 .. Len(stack') : stack'[x] \in 1 .. Len(screens)
      /\ i < Len(stack) => Top' = Top /\ Top # a
      /\ i = Len(stack) /\ i > 1 => Top' = stack[i - 1] /\ stack[i - 1] # a
      /\ stack' # <<>> => i < Len(stack) \/ i > 1
  BY <1>0, StackWithout, LenProperties DEF FrontInv, TypeOK
<1>2. Len(stack) \in Nat /\ On(stack, a) /\ stack # <<>>
  BY <1>0, LenProperties, EmptySeq DEF TypeOK, On
<1>3. Msg("destroy", a) \in Messages
  BY <1>1, MessageTypes
<1>4. /\ Msg("destroy", a) \notin Later /\ Msg("destroy", a) \notin Showing
      /\ \A b : Msg("destroy", a) \notin Shows(b) /\ Msg("destroy", a) # Msg("stop", b)
      /\ \A b \in Instances : b # a => Msg("destroy", b) # Msg("destroy", a)
  <2>1. \A b : /\ Msg("destroy", b).m = "destroy" /\ Msg("destroy", b).a = b
               /\ Msg("stop", b).m = "stop"
    BY MessageFields
  <2>2. Msg("destroy", a) \notin Later
    BY <1>1, <2>1 DEF Later
  <2>3. Msg("destroy", a) \notin Showing
    BY <2>1 DEF Showing
  <2> QED
    BY <2>1, <2>2, <2>3 DEF Shows
<1>5. CASE i = Len(stack) /\ i > 1
  <2>0. PICK b : b = stack[i - 1]
    OBVIOUS
  <2>1. b \in Instances /\ b \in 1 .. Len(screens) /\ On(stack, b) /\ b # a
    <3>1. i - 1 \in 1 .. Len(stack)
      BY <1>2, <1>5
    <3> QED
      BY <1>1, <1>5, <2>0, <3>1, ElementOfSeq DEF TypeOK, FrontInv, Known, On
  <2> DEFINE m == Msg(IF b \in stopped THEN "restart" ELSE "resume", b)
             s == <<m, Msg("destroy", a)>>
  <2>2. /\ main' = main \o s /\ early' = (early \ {a, b}) \union ({b} \ stopped)
    BY <1>0, <1>5, <2>0 DEF Finish
  <2>3. /\ m \in Messages /\ m.m \in {"restart", "resume"} /\ m.a = b
        /\ m.m = "resume" => b \in early'
    BY <2>1, <2>2, MessageTypes, MessageFields
  <2> HIDE DEF m
  <2>4. s \in Seq(Messages) /\ Grows(s)
    BY <1>3, <2>2, <2>3 DEF Grows
  <2>5. \A S : NoneIn(s, S) <=> m \notin S /\ Msg("destroy", a) \notin S
    BY ShortQueues
  <2>6. LastIn(s, {Msg("destroy", a)}, Shows(a))
    BY ShortQueues
  <2>7. LastIn(s, Brings(b)', Showing \union {Msg("stop", b)})
    <3>1. m \in Brings(b)'
      BY <2>3 DEF Brings, Shows, Showing
    <3>2. Msg("destroy", a) \notin Showing \union {Msg("stop", b)}
      BY <1>4
    <3> QED
      BY <3>1, <3>2, ShortQueues
  <2> HIDE DEF s
  <2>8. Known'
    <3>1. NoneIn(s, Later)
      BY <1>1, <1>4, <2>1, <2>3, <2>5 DEF Later
    <3>2. NoneIn(main', Later)
      BY <2>4, <3>1, QueueStep DEF FrontInv, Known
    <3>3. Later' = Later
      BY DEF Later
    <3> QED
      BY <1>1, <3>2, <3>3 DEF FrontInv, Known
  <2>9. Gone'
    <3>1. \A c \in Instances : NoneIn(s, {Msg("destroy", c)}) \/ c = a
      BY <1>4, <2>3, <2>5, MessageFields
    <3>2. \A c \in Instances : NoneIn(s, Shows(c)) \/ On(stack, c)
      BY <1>4, <2>1, <2>3, <2>5 DEF Shows
    <3> QED
      BY <1>0, <2>4, <2>6, <3>1, <3>2, FinishGone
  <2>10. TopShown'
    <3>1. LastIn(main', Brings(b)', Showing \union {Msg("stop", b)})
      BY <2>4, <2>7, QueueEnd
    <3>2. Top' = b
      BY <1>1, <1>5, <2>0
    <3> QED
      BY <3>1, <3>2 DEF TopShown, Pending
  <2> QED
    BY <2>8, <2>9, <2>10 DEF FrontInv
<1>6. CASE ~(i = Len(stack) /\ i > 1)
  <2> DEFINE s == <<Msg("destroy", a)>>
  <2>1. main' = Append(main, Msg("destroy", a)) /\ early' = early \ {a}
    BY <1>0, <1>6 DEF Finish
  <2>2. s \in Seq(Messages) /\ Grows(s)
    BY <1>3, <2>1, OneGrows
  <2>3. \A S : NoneIn(s, S) <=> Msg("destroy", a) \notin S
    BY ShortQueues
  <2>4. LastIn(s, {Msg("destroy", a)}, Shows(a))
    BY ShortQueues
  <2> HIDE DEF s
  <2>5. Known'
    <3>1. NoneIn(main', Later)
      BY <1>4, <2>2, <2>3, QueueStep DEF FrontInv, Known
    <3>2. Later' = Later
      BY DEF Later
    <3> QED
      BY <1>1, <3>1, <3>2 DEF FrontInv, Known
  <2>6. Gone'
    <3>1. \A c \in Instances : NoneIn(s, {Msg("destroy", c)}) \/ c = a
      BY <1>4, <2>3
    <3>2. \A c \in Instances : NoneIn(s, Shows(c))
      BY <1>4, <2>3
    <3> QED
      BY <1>0, <2>2, <2>4, <3>1, <3>2, FinishGone
  <2>7. ASSUME stack' # <<>> PROVE Pending(Top)' \/ Arrived(Top)'
    <3>1. i < Len(stack)
      BY <1>1, <1>2, <1>6, <2>7
    <3>2. PICK t : t = Top
      OBVIOUS
    <3>3. Top' = t /\ t # a /\ (t \in early <=> t \in early')
      BY <1>1, <2>1, <3>1, <3>2
    <3>4. t \in Instances
      BY <1>2, <3>2, TopType
    <3>5. /\ NoneIn(s, Showing \union {Msg("stop", t)}) /\ NoneIn(s, Listeners)
      <4>1. Msg("destroy", a) \notin Listeners
        BY MessageFields DEF Listeners
      <4> QED
        BY <1>4, <2>3, <4>1
    <3>6. ~Runs(s)
      BY <2>2, GrowsOrRuns
    <3>7. Pending(t) => Pending(t)'
      BY <2>2, <3>3, <3>5, <3>6, PendingKept
    <3>8. Listening(t) => Listening(t)'
      BY <2>2, <3>4, <3>5, <3>6, ListeningKept
    <3>9. Arrived(t) => Arrived(t)'
      <4>1. Binds(t)' => Binds(t)
        BY DEF Binds, Is
      <4> QED
        BY <2>2, <3>3, <3>5, <3>8, <4>1, ArrivedKept
    <3> QED
      BY <1>2, <3>2, <3>3, <3>7, <3>9 DEF FrontInv, TopShown
  <2>8. TopShown'
    BY <2>7 DEF TopShown
  <2> QED
    BY <2>5, <2>6, <2>8 DEF FrontInv
<1> QED
  BY <1>5, <1>6

LEMMA StopsFront ==
    ASSUME TypeOK, FrontInv, NEW a \in Instances, SystemStops(a) PROVE FrontInv'
<1> USE DEF bindingVars, buttonVars, connectionVars
<1> DEFINE s == <<Msg("stop", a)>>
<1>1. /\ main' = Append(main, Msg("stop", a))
      /\ UNCHANGED <<screens, stack, early, front, clients, slot>>
  BY DEF SystemStops
<1>2. PICK i \in 1 .. Len(stack) - 1 : stack[i] = a
  BY DEF SystemStops
<1>3. /\ i \in 1 .. Len(stack) /\ Len(stack) \in 1 .. Len(stack) /\ i # Len(stack)
      /\ stack # <<>>
  BY <1>2, LenProperties, EmptySeq DEF TypeOK
<1>4. a \in 1 .. Len(screens) /\ a # Top /\ Len(screens) \in Nat
  BY <1>2, <1>3, LenProperties DEF FrontInv, Known, Top, TypeOK
<1>5. s \in Seq(Messages) /\ Grows(s) /\ ~Runs(s)
  BY <1>1, MessageTypes, OneGrows, GrowsOrRuns
<1>6. \A S : NoneIn(s, S) <=> Msg("stop", a) \notin S
  BY ShortQueues
<1>7. /\ NoneIn(s, Later) /\ NoneIn(s, Showing) /\ NoneIn(s, Listeners)
      /\ \A b : NoneIn(s, {Msg("destroy", b)})
      /\ \A b : b # a => NoneIn(s, Showing \union {Msg("stop", b)})
  <2>1. \A b : /\ Msg("stop", b).m = "stop" /\ Msg("stop", b).a = b
               /\ Msg("destroy", b).m = "destroy"
    BY MessageFields
  <2>2. Msg("stop", a) \notin Later
    BY <1>4, <2>1 DEF Later
  <2>3. Msg("stop", a) \notin Showing /\ Msg("stop", a) \notin Listeners
    BY <2>1 DEF Showing, Listeners
  <2>4. \A b : Msg("stop", a) # Msg("destroy", b) /\ (b # a => Msg("stop", a) # Msg("stop", b))
    BY <2>1
  <2> QED
    BY <1>6, <2>2, <2>3, <2>4
<1> HIDE DEF s
<1>8. Known'
  BY <1>1, <1>5, <1>7, KnownKept DEF FrontInv, Known
<1>9. Gone'
  BY <1>1, <1>5, <1>7, GoneKept DEF FrontInv
<1>10. TopShown'
  <2>1. PICK t : t = Top
    OBVIOUS
  <2>2. Top' = t /\ t # a /\ t \in Instances
    BY <1>1, <1>3, <1>4, <2>1, TopType DEF Top
  <2>3. Pending(t) => Pending(t)'
    BY <1>1, <1>5, <1>7, <2>2, PendingKept
  <2>4. Listening(t) => Listening(t)'
    BY <1>1, <1>5, <1>7, <2>2, ListeningKept
  <2>5. Arrived(t) => Arrived(t)'
    <3>1. Binds(t)' => Binds(t)
      BY <1>1 DEF Binds, Is
    <3> QED
      BY <1>1, <1>5, <1>7, <2>2, <2>4, <3>1, ArrivedKept
  <2> QED
    BY <1>3, <2>1, <2>2, <2>3, <2>5 DEF FrontInv, TopShown
<1> QED
  BY <1>8, <1>9, <1>10 DEF FrontInv

LEMMA SystemFront == ASSUME TypeOK, FrontInv, System PROVE FrontInv'
<1>1. CASE SystemFinishes
  <2>1. UNCHANGED <<screens, front, clients, slot>>
    BY <1>1 DEF SystemFinishes, bindingVars
  <2>2. ASSUME UNCHANGED <<stack, main, early>> PROVE FrontInv'
    BY <2>1, <2>2, NothingGrows, QuietFront
  <2>3. ASSUME NEW i \in 1 .. Len(stack), Finish(i) PROVE FrontInv'
    BY <2>1, <2>3, FinishFront
  <2> QED
    BY <1>1, <2>2, <2>3 DEF SystemFinishes
<1> QED
  BY <1>1, OpensFront, StopsFront DEF System
-----------------------------------------------------------------------------
(* What the main thread runs *)

\* The head of the queue, which is about an activity that was created.
LEMMA HeadKnown ==
    ASSUME TypeOK, Known, NEW m, Due(m)
    PROVE  /\ main # <<>> /\ Head(main) \in Messages /\ Head(main).m = m
           /\ Head(main) = Msg(m, Head(main).a)
           /\ Head(main).a \in 0 .. Len(screens)
           /\ m # "destroyService" => Head(main).a \in Instances
           /\ \A S : NoneIn(main, S) => Head(main) \notin S
<1>1. /\ main # <<>> /\ Head(main) \in Messages /\ Head(main).m = m /\ main \in Seq(Messages)
      /\ Head(main).a \in Instances \union {0} /\ (m # "destroyService" => Head(main).a \in Instances)
  BY DueMessage DEF TypeOK
<1>2. \A S : NoneIn(main, S) => Head(main) \notin S
  BY <1>1, Shorter
<1>3. ~(Head(main).a > Len(screens))
  BY <1>1, <1>2 DEF Known, Later
<1>4. Head(main).a \in 0 .. Len(screens)
  BY <1>1, <1>3, AppAssumption, LenProperties DEF TypeOK, Instances
<1> QED
  BY <1>1, <1>2, <1>4, MessageIs

\* One message that is run, and one that is put behind the others.
LEMMA OneRuns ==
    ASSUME TypeOK, main # <<>>, NEW m \in Messages, main' = Append(Tail(main), m)
    PROVE  <<m>> \in Seq(Messages) /\ Runs(<<m>>)
<1>1. Tail(main) \in Seq(Messages)
  BY HeadTailProperties DEF TypeOK
<1> QED
  BY <1>1, AppendIsConcat DEF Runs

\* An activity comes to the front.
LEMMA ShowsGone ==
    ASSUME TypeOK, FrontInv, NEW a \in Instances, Head(main) \in Shows(a), front' = a,
           NEW s \in Seq(Messages), Runs(s), NoneIn(s, Showing),
           \A b \in Instances : NoneIn(s, {Msg("destroy", b)}), UNCHANGED stack
    PROVE  Gone'
<1> SUFFICES ASSUME NEW b \in Instances
             PROVE  IF On(stack, b) THEN NoneIn(main', {Msg("destroy", b)}) ELSE Leaves(b)'
  BY DEF Gone
<1>1. NoneIn(s, Shows(b))
  BY NoneInLess DEF Shows
<1>2. Head(main) \notin {Msg("destroy", b)}
  BY MessageFields DEF Shows, Showing
<1>3. /\ NoneIn(main, {Msg("destroy", b)}) => NoneIn(main', {Msg("destroy", b)})
      /\ NoneIn(main, Shows(b)) => NoneIn(main', Shows(b))
      /\ LastIn(main, {Msg("destroy", b)}, Shows(b)) => LastIn(main', {Msg("destroy", b)}, Shows(b))
  BY <1>1, <1>2, QueueStep
<1>4. NoneIn(main, Shows(b)) => a # b
  <2>1. main \in Seq(Messages) /\ main # <<>>
    BY DEF TypeOK, Runs
  <2> QED
    BY <2>1, Shorter
<1> QED
  BY <1>3, <1>4 DEF FrontInv, Gone, Leaves

LEMMA ShowsTop ==
    ASSUME TypeOK, FrontInv, NEW a \in Instances, Head(main) \in Shows(a), front' = a,
           NEW s \in Seq(Messages), Runs(s),
           \A b \in Instances : NoneIn(s, Showing \union {Msg("stop", b)}),
           UNCHANGED <<stack, early, screens, slot>>,
           Head(main).m # "resume" /\ Binds(a) =>
               a \in clients' /\ LastIn(s, {Msg("connected", a)}, Listeners)
    PROVE  TopShown'
<1> SUFFICES ASSUME stack # <<>> PROVE Pending(Top)' \/ Arrived(Top)'
  BY DEF TopShown
<1>1. PICK t : t = Top
  OBVIOUS
<1>2. Top' = t /\ t \in Instances /\ Brings(t)' = Brings(t) /\ Binds(t)' = Binds(t)
  BY <1>1, TopType DEF Top, Brings, Binds, Is
<1>3. CASE Arrived(t)
  <2>1. main \in Seq(Messages) /\ main # <<>> /\ Head(main) \in Showing
    BY DEF TypeOK, Runs, Shows
  <2> QED
    BY <1>3, <2>1, Shorter DEF Arrived
<1>4. CASE Pending(t)
  <2>1. LastIn(main', Brings(t), Showing \union {Msg("stop", t)})
        \/ (Head(main) \in Brings(t) /\ NoneIn(main', Showing \union {Msg("stop", t)}))
    BY <1>2, <1>4, QueueRuns DEF Pending
  <2>2. CASE Head(main) \in Brings(t) /\ NoneIn(main', Showing \union {Msg("stop", t)})
    <3>1. a = t /\ (Head(main).m = "resume" => t \in early)
      BY <2>2 DEF Brings, Shows
    <3>2. NoneIn(main', Showing) /\ NoneIn(main', {Msg("stop", t)})
      BY <2>2, NoneInLess
    <3>3. ASSUME LastIn(s, {Msg("connected", t)}, Listeners) PROVE Listening(t)'
      BY <3>3, QueueEnd DEF Listening
    <3>4. Arrived(t)'
      BY <1>2, <3>1, <3>2, <3>3 DEF Arrived
    <3> QED
      BY <1>2, <3>4
  <2>3. CASE LastIn(main', Brings(t), Showing \union {Msg("stop", t)})
    BY <1>2, <2>3 DEF Pending
  <2> QED
    BY <2>1, <2>2, <2>3
<1> QED
  BY <1>1, <1>3, <1>4 DEF FrontInv, TopShown

LEMMA AppearFront == ASSUME TypeOK, FrontInv, Appear PROVE FrontInv'
<1> USE DEF systemVars
<1>0. PICK a : a = Head(main).a
  OBVIOUS
<1>1. PICK m \in {"launch", "restart"} : Due(m)
  BY DEF Appear
<1>2. /\ a \in Instances /\ a \in 0 .. Len(screens) /\ main # <<>> /\ Len(screens) \in Nat
      /\ Head(main) \in Messages /\ Head(main).m = m
  BY <1>0, <1>1, HeadKnown, LenProperties DEF FrontInv, TypeOK
<1>3. Head(main) \in Shows(a)
  BY <1>0, <1>1, <1>2 DEF Shows, Showing
<1>4. front' = a /\ UNCHANGED <<stack, early, screens, slot>>
  BY <1>0 DEF Appear
<1>5. PICK s \in Seq(Messages) :
          /\ Runs(s) /\ s = IF Binds(a) THEN <<Msg("connected", a)>> ELSE <<>>
          /\ Binds(a) => a \in clients'
  <2>1. OnStart(a)
    BY <1>0 DEF Appear
  <2>2. CASE Binds(a)
    BY <1>2, <2>1, <2>2, MessageTypes, OneRuns DEF OnStart
  <2>3. CASE ~Binds(a)
    BY <1>2, <2>1, <2>3, NothingGrows DEF OnStart
  <2> QED
    BY <2>2, <2>3
<1>6. \A S : Msg("connected", a) \notin S => NoneIn(s, S)
  BY <1>5, ShortQueues
<1>7. /\ NoneIn(s, Later) /\ NoneIn(s, Showing)
      /\ \A b : NoneIn(s, {Msg("destroy", b)}) /\ NoneIn(s, Showing \union {Msg("stop", b)})
  <2>1. /\ Msg("connected", a).m = "connected" /\ Msg("connected", a).a = a
        /\ \A b : Msg("destroy", b).m = "destroy" /\ Msg("stop", b).m = "stop"
    BY MessageFields
  <2>2. Msg("connected", a) \notin Later
    BY <1>2, <2>1 DEF Later
  <2>3. Msg("connected", a) \notin Showing
    BY <2>1 DEF Showing
  <2>4. \A b : Msg("connected", a) # Msg("destroy", b) /\ Msg("connected", a) # Msg("stop", b)
    BY <2>1
  <2> QED
    BY <1>6, <2>2, <2>3, <2>4
<1>8. Binds(a) => LastIn(s, {Msg("connected", a)}, Listeners)
  BY <1>5, ShortQueues
<1>9. Known'
  BY <1>2, <1>4, <1>5, <1>7, KnownKept DEF FrontInv
<1>10. Gone'
  BY <1>2, <1>3, <1>4, <1>5, <1>7, ShowsGone
<1>11. TopShown'
  BY <1>2, <1>3, <1>4, <1>5, <1>7, <1>8, ShowsTop
<1> QED
  BY <1>9, <1>10, <1>11 DEF FrontInv

LEMMA ResumeFront == ASSUME TypeOK, FrontInv, Resume PROVE FrontInv'
<1> USE DEF systemVars
<1>0. PICK a : a = Head(main).a
  OBVIOUS
<1>1. /\ Due("resume") /\ front' = a /\ UNCHANGED <<stack, early, screens, slot>>
      /\ main' = Tail(main)
  BY <1>0 DEF Resume
<1>2. /\ a \in Instances /\ a \in 0 .. Len(screens) /\ main # <<>>
      /\ Head(main) \in Messages /\ Head(main).m = "resume"
  BY <1>0, <1>1, HeadKnown DEF FrontInv
<1>3. Head(main) \in Shows(a)
  BY <1>0, <1>2 DEF Shows, Showing
<1>4. <<>> \in Seq(Messages) /\ Runs(<<>>) /\ \A S : NoneIn(<<>>, S)
  BY <1>1, <1>2, NothingGrows
<1>5. Known'
  BY <1>1, <1>2, <1>4, KnownKept DEF FrontInv
<1>6. Gone'
  BY <1>1, <1>2, <1>3, <1>4, ShowsGone
<1>7. TopShown'
  BY <1>1, <1>2, <1>3, <1>4, ShowsTop
<1> QED
  BY <1>5, <1>6, <1>7 DEF FrontInv

\* A message is run that shows nothing, by an activity that stays where it is.
LEMMA ListenersTop ==
    ASSUME TypeOK, FrontInv, NEW s \in Seq(Messages), Runs(s), Head(main) \notin Showing,
           \A b \in Instances : NoneIn(s, Showing \union {Msg("stop", b)}),
           UNCHANGED <<stack, early, screens>>,
           stack # <<>> /\ front = Top => front' = front,
           \A t \in Instances :
               t \in clients /\ Listening(t) /\ On(stack, t) /\ NoneIn(main, {Msg("stop", t)})
                   => t \in clients' /\ Listening(t)'
    PROVE  TopShown'
<1> SUFFICES ASSUME stack # <<>> PROVE Pending(Top)' \/ Arrived(Top)'
  BY DEF TopShown
<1>1. PICK t : t = Top
  OBVIOUS
<1>2. Top' = t /\ t \in Instances /\ On(stack, t) /\ (Binds(t)' => Binds(t))
  BY <1>1, TopType DEF Top, Binds, Is
<1>3. Pending(t) => Pending(t)'
  <2>1. Head(main) \notin Brings(t)
    BY DEF Brings, Shows
  <2> QED
    BY <1>2, <2>1, PendingKept
<1>4. Arrived(t) => Arrived(t)'
  <2>1. ASSUME Arrived(t) PROVE front' = front
    BY <1>1, <2>1 DEF Arrived
  <2> QED
    BY <1>2, <2>1, ArrivedKept
<1> QED
  BY <1>1, <1>2, <1>3, <1>4 DEF FrontInv, TopShown

LEMMA ConnectedFront == ASSUME TypeOK, FrontInv, OnServiceConnected PROVE FrontInv'
<1> USE DEF systemVars
<1>0. PICK a : a = Head(main).a
  OBVIOUS
<1>1. /\ Due("connected") /\ UNCHANGED <<screens, stack, early, front, clients>>
      /\ slot' = IF a \in clients THEN a ELSE slot
  BY <1>0 DEF OnServiceConnected
<1>2. /\ main # <<>> /\ Head(main) \in Messages /\ Head(main).m = "connected"
      /\ Head(main) = Msg("connected", a) /\ main \in Seq(Messages)
      /\ \A S : NoneIn(main, S) => Head(main) \notin S
  BY <1>0, <1>1, HeadKnown DEF FrontInv, TypeOK
<1>3. PICK s \in Seq(Messages) : Runs(s) /\ NoneIn(s, Own \union Later)
  <2>1. \E s \in {LastWords(a, served'), <<>>} : Runs(s)
    BY <1>0, <1>2 DEF OnServiceConnected, Runs
  <2> QED
    BY <2>1, LastWordsTell, LastWordsQuiet, NothingGrows
<1>4. /\ NoneIn(s, Later) /\ NoneIn(s, Showing) /\ NoneIn(s, Listeners)
      /\ \A b \in Instances : /\ NoneIn(s, {Msg("destroy", b)})
                              /\ NoneIn(s, Showing \union {Msg("stop", b)})
  BY <1>3, OwnMessages, NoneInLess
<1>5. Head(main) \notin Showing /\ Head(main) \in Listeners
  BY <1>2 DEF Showing, Listeners
<1>6. Known'
  BY <1>1, <1>3, <1>4, KnownKept DEF FrontInv, Known
<1>7. Gone'
  BY <1>1, <1>2, <1>3, <1>4, GoneKept DEF FrontInv
<1>8. ASSUME NEW t \in Instances, t \in clients, Listening(t) PROVE t \in clients' /\ Listening(t)'
  <2>1. LastIn(main, {Msg("connected", t)}, Listeners)
    BY <1>2, <1>5, <1>8 DEF Listening
  <2>2. LastIn(main', {Msg("connected", t)}, Listeners)
        \/ (Head(main) = Msg("connected", t) /\ NoneIn(main', Listeners))
    BY <1>3, <1>4, <2>1, QueueRuns
  <2>3. Head(main) = Msg("connected", t) => slot' = t
    BY <1>0, <1>1, <1>8, MessageFields
  <2> QED
    BY <1>1, <1>8, <2>2, <2>3 DEF Listening
<1>9. TopShown'
  BY <1>1, <1>3, <1>4, <1>5, <1>8, ListenersTop
<1> QED
  BY <1>6, <1>7, <1>9 DEF FrontInv

\* A screen that stops or is destroyed gives its binding back: the service is
\* destroyed only if no other screen holds one.
LEMMA UnbindRuns ==
    ASSUME TypeOK, main # <<>>, NEW gone, Unbind(gone, Tail(main))
    PROVE  \E s \in Seq(Messages) :
               /\ Runs(s) /\ NoneIn(s, Showing) /\ NoneIn(s, Later)
               /\ \A b \in Instances : /\ NoneIn(s, {Msg("destroy", b)})
                                       /\ NoneIn(s, Showing \union {Msg("stop", b)})
               /\ clients' # {} => NoneIn(s, Listeners)
<1> DEFINE m == Msg("destroyService", 0)
<1>1. /\ m \in Messages /\ m.m = "destroyService" /\ m.a = 0
      /\ \A b : Msg("destroy", b).m = "destroy" /\ Msg("stop", b).m = "stop"
  BY MessageFields DEF Msg, Messages
<1> HIDE DEF m
<1>2. m \notin Later /\ m \notin Showing
  <2>1. ~(0 > Len(screens))
    BY LenProperties DEF TypeOK
  <2> QED
    BY <1>1, <2>1 DEF Later, Showing
<1>3. \A b : m # Msg("destroy", b) /\ m # Msg("stop", b)
  BY <1>1
<1>4. CASE main' = Append(Tail(main), m) /\ clients' = {}
  <2>1. <<m>> \in Seq(Messages) /\ Runs(<<m>>)
    BY <1>1, <1>4, OneRuns
  <2>2. \A S : m \notin S => NoneIn(<<m>>, S)
    BY ShortQueues
  <2>3. /\ NoneIn(<<m>>, Showing) /\ NoneIn(<<m>>, Later)
        /\ \A b \in Instances : /\ NoneIn(<<m>>, {Msg("destroy", b)})
                                /\ NoneIn(<<m>>, Showing \union {Msg("stop", b)})
    BY <1>2, <1>3, <2>2
  <2> QED
    BY <1>4, <2>1, <2>3
<1>5. CASE main' = Tail(main)
  BY <1>5, NothingGrows
<1>6. \/ main' = Append(Tail(main), m) /\ clients' = {}
      \/ main' = Tail(main)
  BY DEF Unbind, m
<1> QED
  BY <1>4, <1>5, <1>6

LEMMA StopFront == ASSUME TypeOK, FrontInv, OnStop PROVE FrontInv'
<1> USE DEF systemVars
<1>0. PICK a : a = Head(main).a
  OBVIOUS
<1>1. /\ Due("stop") /\ UNCHANGED <<screens, stack, early, front, slot>>
      /\ Unbind(bound \intersect {a}, Tail(main))
  BY <1>0 DEF OnStop
<1>2. /\ main # <<>> /\ Head(main) \in Messages /\ Head(main).m = "stop"
      /\ Head(main) = Msg("stop", a) /\ \A S : NoneIn(main, S) => Head(main) \notin S
  BY <1>0, <1>1, HeadKnown DEF FrontInv
<1>3. PICK s \in Seq(Messages) :
          /\ Runs(s) /\ NoneIn(s, Showing) /\ NoneIn(s, Later)
          /\ \A b \in Instances : /\ NoneIn(s, {Msg("destroy", b)})
                                  /\ NoneIn(s, Showing \union {Msg("stop", b)})
          /\ clients' # {} => NoneIn(s, Listeners)
  BY <1>1, <1>2, UnbindRuns
<1>4. Head(main) \notin Showing /\ Head(main) \notin Listeners
  BY <1>2 DEF Showing, Listeners
<1>5. Known'
  BY <1>1, <1>3, KnownKept DEF FrontInv, Known
<1>6. Gone'
  BY <1>1, <1>2, <1>3, GoneKept DEF FrontInv
<1>7. ASSUME NEW t \in Instances, t \in clients, Listening(t), NoneIn(main, {Msg("stop", t)})
      PROVE  t \in clients' /\ Listening(t)'
  <2>1. t # a
    BY <1>2, <1>7
  <2>2. t \in clients'
    BY <1>1, <1>7, <2>1 DEF Unbind
  <2> QED
    BY <1>1, <1>3, <1>4, <1>7, <2>2, ListeningKept
<1>8. TopShown'
  BY <1>1, <1>3, <1>4, <1>7, ListenersTop
<1> QED
  BY <1>5, <1>6, <1>8 DEF FrontInv

LEMMA DestroyFront == ASSUME TypeOK, FrontInv, OnDestroy PROVE FrontInv'
<1> USE DEF systemVars
<1>0. PICK a : a = Head(main).a
  OBVIOUS
<1>1. /\ Due("destroy") /\ UNCHANGED <<screens, stack, early, slot>>
      /\ Unbind({a}, Tail(main)) /\ front' = IF front = a THEN 0 ELSE front
  BY <1>0 DEF OnDestroy
<1>2. /\ main # <<>> /\ Head(main) \in Messages /\ Head(main).m = "destroy" /\ a \in Instances
      /\ Head(main) = Msg("destroy", a) /\ \A S : NoneIn(main, S) => Head(main) \notin S
  BY <1>0, <1>1, HeadKnown DEF FrontInv
<1>3. PICK s \in Seq(Messages) :
          /\ Runs(s) /\ NoneIn(s, Showing) /\ NoneIn(s, Later)
          /\ \A b \in Instances : /\ NoneIn(s, {Msg("destroy", b)})
                                  /\ NoneIn(s, Showing \union {Msg("stop", b)})
          /\ clients' # {} => NoneIn(s, Listeners)
  BY <1>1, <1>2, UnbindRuns
<1>4. Head(main) \notin Showing /\ Head(main) \notin Listeners
  BY <1>2 DEF Showing, Listeners
<1>5. ~On(stack, a)
  BY <1>2 DEF FrontInv, Gone
<1>6. Known'
  <2>1. front' \in 0 .. Len(screens)
    BY <1>1, LenProperties DEF FrontInv, Known, TypeOK
  <2> QED
    BY <1>1, <1>3, <2>1, KnownKept DEF FrontInv
<1>7. Gone'
  <2> SUFFICES ASSUME NEW b \in Instances
               PROVE  IF On(stack', b) THEN NoneIn(main', {Msg("destroy", b)}) ELSE Leaves(b)'
    BY DEF Gone
  <2>0. 0 # b
    BY DEF Instances
  <2>1. NoneIn(s, Shows(b)) /\ NoneIn(s, {Msg("destroy", b)})
    <3>1. Shows(b) \subseteq Showing
      BY DEF Shows
    <3> QED
      BY <1>3, <3>1, NoneInLess
  <2>2. /\ NoneIn(main, {Msg("destroy", b)}) => NoneIn(main', {Msg("destroy", b)})
        /\ NoneIn(main, Shows(b)) => NoneIn(main', Shows(b))
    BY <1>3, <2>1, QueueStep
  <2>3. LastIn(main, {Msg("destroy", b)}, Shows(b)) =>
            \/ LastIn(main', {Msg("destroy", b)}, Shows(b))
            \/ Head(main) = Msg("destroy", b) /\ NoneIn(main', Shows(b))
    BY <1>3, <2>1, QueueRuns
  <2>4. Head(main) = Msg("destroy", b) => front' # b
    <3>1. Head(main) = Msg("destroy", b) => a = b
      BY <1>2, MessageFields
    <3> QED
      BY <1>1, <2>0, <3>1
  <2>5. front # b => front' # b
    BY <1>1, <2>0
  <2> QED
    BY <1>1, <2>2, <2>3, <2>4, <2>5 DEF FrontInv, Gone, Leaves
<1>8. ASSUME NEW t \in Instances, t \in clients, Listening(t), On(stack, t)
      PROVE  t \in clients' /\ Listening(t)'
  <2>1. t \in clients'
    BY <1>1, <1>5, <1>8 DEF Unbind
  <2> QED
    BY <1>1, <1>3, <1>4, <1>8, <2>1, ListeningKept
<1>9. stack # <<>> /\ front = Top => front' = front
  BY <1>1, <1>5, TopType
<1>10. TopShown'
  BY <1>1, <1>3, <1>4, <1>8, <1>9, ListenersTop
<1> QED
  BY <1>6, <1>7, <1>10 DEF FrontInv

LEMMA ServiceFront == ASSUME TypeOK, FrontInv, OnDestroyService PROVE FrontInv'
<1> USE DEF systemVars, bindingVars
<1>1. /\ Due("destroyService") /\ UNCHANGED <<screens, stack, early, front, clients>>
      /\ main' = Tail(main)
  BY DEF OnDestroyService
<1>2. /\ main # <<>> /\ Head(main) \in Messages /\ Head(main).m = "destroyService"
      /\ \A S : NoneIn(main, S) => Head(main) \notin S
  BY <1>1, HeadKnown DEF FrontInv
<1>3. Runs(<<>>) /\ <<>> \in Seq(Messages) /\ \A S : NoneIn(<<>>, S)
  BY <1>1, <1>2, NothingGrows
<1>4. Head(main) \notin Showing /\ Head(main) \in Listeners
  BY <1>2 DEF Showing, Listeners
<1>5. Known'
  BY <1>1, <1>3, KnownKept DEF FrontInv, Known
<1>6. Gone'
  BY <1>1, <1>2, <1>3, GoneKept DEF FrontInv
<1>7. ASSUME NEW t \in Instances, t \in clients, Listening(t) PROVE t \in clients' /\ Listening(t)'
  <2>1. LastIn(main, {Msg("connected", t)}, Listeners)
    BY <1>2, <1>4, <1>7 DEF Listening
  <2>2. Head(main) \notin {Msg("connected", t)}
    BY <1>2, MessageFields
  <2>3. LastIn(main', {Msg("connected", t)}, Listeners)
    BY <1>3, <2>1, <2>2, QueueStep
  <2> QED
    BY <1>1, <1>7, <2>3 DEF Listening
<1>8. TopShown'
  BY <1>1, <1>3, <1>4, <1>7, ListenersTop
<1> QED
  BY <1>5, <1>6, <1>8 DEF FrontInv

LEMMA MainThreadFront == ASSUME TypeOK, FrontInv, MainThread PROVE FrontInv'
<1> USE DEF systemVars, bindingVars
<1>1. ASSUME NEW e \in Events, Due(e), main' = Tail(main),
             UNCHANGED <<screens, stack, early, front, clients, slot>>
      PROVE  FrontInv'
  <2>1. Runs(<<>>) /\ Head(main) \notin Own
    BY <1>1, EventRuns
  <2> QED
    BY <1>1, <2>1, NothingGrows, QuietFront
<1>2. CASE RunStatus
  <2>1. PICK e \in {"up", "down"} : Due(e)
    BY <1>2 DEF RunStatus
  <2> QED
    BY <1>1, <1>2, <2>1, EventNames DEF RunStatus
<1>3. CASE RunLoginResult
  <2>1. PICK e \in {"loginOk", "loginFailed"} : Due(e)
    BY <1>3 DEF RunLoginResult
  <2> QED
    BY <1>1, <1>3, <2>1, EventNames DEF RunLoginResult
<1>4. CASE RunRegisterResult
  <2>1. PICK e \in {"registered", "refused"} : Due(e)
    BY <1>4 DEF RunRegisterResult
  <2> QED
    BY <1>1, <1>4, <2>1, EventNames DEF RunRegisterResult
<1>5. ASSUME NEW a \in Instances, DelayedFinish(a) PROVE FrontInv'
  BY <1>5, NothingGrows, QuietFront DEF DelayedFinish
<1> QED
  BY <1>2, <1>3, <1>4, <1>5, AppearFront, ResumeFront, ConnectedFront, StopFront, DestroyFront,
     ServiceFront DEF MainThread

LEMMA InitFront == Init => FrontInv
<1> SUFFICES ASSUME Init PROVE FrontInv
  OBVIOUS
<1>1. main = <<>> /\ stack = <<>> /\ screens = <<>> /\ front = 0
  BY DEF Init
<1>2. Len(stack) = 0 /\ Len(screens) = 0 /\ \A S : NoneIn(main, S)
  BY <1>1, EmptySeq, ShortQueues
<1>3. Known
  BY <1>1, <1>2 DEF Known
<1>4. Gone
  BY <1>1, <1>2 DEF Gone, On, Leaves, Instances
<1> QED
  BY <1>1, <1>3, <1>4 DEF FrontInv, TopShown

-----------------------------------------------------------------------------
(* The order of what waits in a queue *)

\* After something of A comes nothing of S; nothing of S comes before the first
\* of A.
Apart(q, A, S) == \A i, j \in 1 .. Len(q) : i < j /\ q[i] \in A => q[j] \notin S
Unless(q, A, S) ==
    NoneIn(q, S) \/ \E k \in 1 .. Len(q) : q[k] \in A /\ \A j \in 1 .. k : q[j] \notin S

\* A queue of any elements that grows.
LEMMA OrderLonger ==
    ASSUME NEW X, NEW q \in Seq(X), NEW s \in Seq(X), NEW A, NEW S
    PROVE  /\ q \o s \in Seq(X)
           /\ NoneIn(q \o s, S) <=> NoneIn(q, S) /\ NoneIn(s, S)
           /\ Apart(q, A, S) /\ Apart(s, A, S) /\ (NoneIn(q, A) \/ NoneIn(s, S)) => Apart(q \o s, A, S)
           /\ Unless(q, A, S) /\ (~NoneIn(q, A) \/ Unless(s, A, S)) => Unless(q \o s, A, S)
<1>1. /\ Len(q \o s) = Len(q) + Len(s) /\ Len(q) \in Nat /\ Len(s) \in Nat
      /\ \A i \in 1 .. Len(q) + Len(s) : (q \o s)[i] = IF i <= Len(q) THEN q[i] ELSE s[i - Len(q)]
      /\ q \o s \in Seq(X)
  BY ConcatProperties, LenProperties
<1>2. \A i \in 1 .. Len(q) : i \in 1 .. Len(q) + Len(s) /\ (q \o s)[i] = q[i]
  BY <1>1
<1>3. \A i \in 1 .. Len(s) :
          Len(q) + i \in 1 .. Len(q) + Len(s) /\ (q \o s)[Len(q) + i] = s[i]
  <2>1. ASSUME NEW i \in 1 .. Len(s)
        PROVE  /\ Len(q) + i \in 1 .. Len(q) + Len(s) /\ ~(Len(q) + i <= Len(q))
               /\ Len(q) + i - Len(q) = i
    BY <1>1
  <2> QED
    BY <1>1, <2>1
<1>4. ASSUME NEW i \in 1 .. Len(q) + Len(s), i \notin 1 .. Len(q)
      PROVE  i - Len(q) \in 1 .. Len(s) /\ (q \o s)[i] = s[i - Len(q)]
  BY <1>1, <1>4
<1>5. NoneIn(q \o s, S) => NoneIn(q, S) /\ NoneIn(s, S)
  BY <1>1, <1>2, <1>3 DEF NoneIn
<1>6. NoneIn(q, S) /\ NoneIn(s, S) => NoneIn(q \o s, S)
  BY <1>1, <1>2, <1>4 DEF NoneIn
<1>7. ASSUME Apart(q, A, S), Apart(s, A, S), NoneIn(q, A) \/ NoneIn(s, S) PROVE Apart(q \o s, A, S)
  <2> SUFFICES ASSUME NEW i \in 1 .. Len(q) + Len(s), NEW j \in 1 .. Len(q) + Len(s), i < j,
                      (q \o s)[i] \in A
               PROVE  (q \o s)[j] \notin S
    BY <1>1 DEF Apart
  <2>1. CASE j \in 1 .. Len(q)
    <3>1. i \in 1 .. Len(q)
      BY <1>1, <2>1
    <3> QED
      BY <1>2, <1>7, <2>1, <3>1 DEF Apart
  <2>2. CASE i \notin 1 .. Len(q)
    <3>1. j \notin 1 .. Len(q)
      BY <1>1, <2>2
    <3>2. i - Len(q) < j - Len(q)
      BY <1>1
    <3> QED
      BY <1>4, <1>7, <2>2, <3>1, <3>2 DEF Apart
  <2>3. CASE i \in 1 .. Len(q) /\ j \notin 1 .. Len(q)
    <3>1. NoneIn(s, S)
      BY <1>2, <1>7, <2>3 DEF NoneIn
    <3> QED
      BY <1>4, <2>3, <3>1 DEF NoneIn
  <2> QED
    BY <2>1, <2>2, <2>3
<1>8. ASSUME NEW k \in 1 .. Len(q), q[k] \in A, \A j \in 1 .. k : q[j] \notin S
      PROVE  Unless(q \o s, A, S)
  <2>1. \A j \in 1 .. k : j \in 1 .. Len(q)
    BY <1>1
  <2> QED
    BY <1>1, <1>2, <1>8, <2>1 DEF Unless
<1>9. ASSUME NoneIn(q, S), NEW k \in 1 .. Len(s), s[k] \in A, \A j \in 1 .. k : s[j] \notin S
      PROVE  Unless(q \o s, A, S)
  <2> DEFINE l == Len(q) + k
  <2>1. l \in 1 .. Len(q) + Len(s) /\ (q \o s)[l] \in A
    BY <1>3, <1>9
  <2>2. ASSUME NEW j \in 1 .. l PROVE (q \o s)[j] \notin S
    <3>1. j \in 1 .. Len(q) + Len(s) /\ (j \notin 1 .. Len(q) => j - Len(q) \in 1 .. k)
      BY <1>1, <2>2
    <3> QED
      BY <1>2, <1>4, <1>9, <3>1 DEF NoneIn
  <2> HIDE DEF l
  <2> QED
    BY <1>1, <2>1, <2>2 DEF Unless
<1>10. ASSUME NoneIn(q, S), ~NoneIn(q, A) PROVE Unless(q \o s, A, S)
  <2>1. PICK k \in 1 .. Len(q) : q[k] \in A
    BY <1>10 DEF NoneIn
  <2>2. \A j \in 1 .. k : q[j] \notin S
    BY <1>1, <1>10 DEF NoneIn
  <2> QED
    BY <1>8, <2>1, <2>2
<1>11. ASSUME Unless(q, A, S), ~NoneIn(q, A) \/ Unless(s, A, S) PROVE Unless(q \o s, A, S)
  <2>1. CASE NoneIn(q, S) /\ NoneIn(s, S)
    BY <1>6, <2>1 DEF Unless
  <2> QED
    BY <1>8, <1>9, <1>10, <1>11, <2>1 DEF Unless
<1> QED
  BY <1>1, <1>5, <1>6, <1>7, <1>11

\* A queue of any elements that loses its head.
LEMMA OrderShorter ==
    ASSUME NEW X, NEW q \in Seq(X), q # <<>>, NEW A, NEW S
    PROVE  /\ Tail(q) \in Seq(X) /\ Head(q) \in X
           /\ NoneIn(q, S) <=> Head(q) \notin S /\ NoneIn(Tail(q), S)
           /\ Apart(q, A, S) => Apart(Tail(q), A, S) /\ (Head(q) \in A => NoneIn(Tail(q), S))
           /\ Unless(q, A, S) /\ Head(q) \notin A => Head(q) \notin S /\ Unless(Tail(q), A, S)
<1>1. /\ Len(q) \in Nat \ {0} /\ Head(q) = q[1] /\ Len(Tail(q)) = Len(q) - 1
      /\ \A i \in 1 .. Len(Tail(q)) : Tail(q)[i] = q[i + 1]
      /\ Tail(q) \in Seq(X) /\ Head(q) \in X
  BY EmptySeq, HeadTailProperties
<1>2. 1 \in 1 .. Len(q) /\ \A i \in 1 .. Len(q) - 1 : i + 1 \in 1 .. Len(q) /\ 1 < i + 1
  BY <1>1
<1>3. ASSUME NEW i \in 1 .. Len(q), i # 1
      PROVE  i - 1 \in 1 .. Len(q) - 1 /\ Tail(q)[i - 1] = q[i]
  <2>1. i - 1 \in 1 .. Len(q) - 1 /\ (i - 1) + 1 = i
    BY <1>1, <1>3
  <2> QED
    BY <1>1, <2>1
<1>4. NoneIn(q, S) => Head(q) \notin S /\ NoneIn(Tail(q), S)
  BY <1>1, <1>2 DEF NoneIn
<1>5. Head(q) \notin S /\ NoneIn(Tail(q), S) => NoneIn(q, S)
  BY <1>1, <1>3 DEF NoneIn
<1>6. ASSUME Apart(q, A, S) PROVE Apart(Tail(q), A, S) /\ (Head(q) \in A => NoneIn(Tail(q), S))
  <2>1. \A i, j \in 1 .. Len(q) - 1 : i < j => i + 1 < j + 1
    BY <1>1
  <2>2. Apart(Tail(q), A, S)
    BY <1>1, <1>2, <1>6, <2>1 DEF Apart
  <2>3. Head(q) \in A => NoneIn(Tail(q), S)
    BY <1>1, <1>2, <1>6 DEF Apart, NoneIn
  <2> QED
    BY <2>2, <2>3
<1>7. ASSUME NEW k \in 1 .. Len(q), q[k] \in A, \A j \in 1 .. k : q[j] \notin S, Head(q) \notin A
      PROVE  Head(q) \notin S /\ Unless(Tail(q), A, S)
  <2> DEFINE l == k - 1
  <2>1. k # 1 /\ 1 \in 1 .. k
    BY <1>1, <1>7
  <2>2. l \in 1 .. Len(q) - 1 /\ Tail(q)[l] \in A
    BY <1>3, <1>7, <2>1
  <2>3. ASSUME NEW j \in 1 .. l PROVE Tail(q)[j] \notin S
    <3>1. j \in 1 .. Len(q) - 1 /\ j + 1 \in 1 .. k
      BY <1>1, <2>1, <2>3
    <3> QED
      BY <1>1, <1>7, <3>1
  <2> HIDE DEF l
  <2> QED
    BY <1>1, <1>7, <2>1, <2>2, <2>3 DEF Unless
<1>8. Unless(q, A, S) /\ Head(q) \notin A => Head(q) \notin S /\ Unless(Tail(q), A, S)
  BY <1>4, <1>7 DEF Unless
<1> QED
  BY <1>1, <1>4, <1>5, <1>6, <1>8

LEMMA ShortOrders ==
    /\ \A A, S : Apart(<<>>, A, S) /\ Unless(<<>>, A, S)
    /\ \A m, A, S : Apart(<<m>>, A, S) /\ (m \notin S => Unless(<<m>>, A, S))
    /\ \A m, n, A, S : m \notin S /\ (m \in A \/ n \notin S) => Unless(<<m, n>>, A, S)
<1>1. \A A, S : Apart(<<>>, A, S) /\ Unless(<<>>, A, S)
  BY DEF Apart, Unless, NoneIn
<1>2. \A m, A, S : Apart(<<m>>, A, S) /\ (m \notin S => Unless(<<m>>, A, S))
  <2>1. \A m : Len(<<m>>) = 1
    OBVIOUS
  <2>2. \A m, A, S : Apart(<<m>>, A, S)
    BY <2>1 DEF Apart
  <2> QED
    BY <2>2, ShortQueues DEF Unless
<1>3. ASSUME NEW m, NEW n, NEW A, NEW S, m \notin S, m \in A \/ n \notin S
      PROVE  Unless(<<m, n>>, A, S)
  <2>1. CASE m \in A
    <3>1. 1 \in 1 .. Len(<<m, n>>) /\ <<m, n>>[1] = m /\ \A j \in 1 .. 1 : j = 1
      OBVIOUS
    <3> QED
      BY <1>3, <2>1, <3>1 DEF Unless
  <2>2. CASE n \notin S
    BY <1>3, <2>2, ShortQueues DEF Unless
  <2> QED
    BY <1>3, <2>1, <2>2
<1> QED
  BY <1>1, <1>2, <1>3

\* Two messages of which the second is harmless.
LEMMA PairApart == \A m, n, A, S : n \notin S => Apart(<<m, n>>, A, S)
<1>1. \A m, n : Len(<<m, n>>) = 2 /\ <<m, n>>[2] = n
  OBVIOUS
<1>2. \A i, j \in 1 .. 2 : i < j => j = 2
  OBVIOUS
<1> QED
  BY <1>1, <1>2 DEF Apart

LEMMA NoneApart == ASSUME NEW q, NEW A, NEW S, NoneIn(q, A) \/ NoneIn(q, S) PROVE Apart(q, A, S)
BY DEF NoneIn, Apart

LEMMA ApartLess ==
    ASSUME NEW q, NEW A, NEW S, NEW B, NEW T, B \subseteq A, T \subseteq S
    PROVE  Apart(q, A, S) => Apart(q, B, T)
BY DEF Apart

\* The order of the queue of the main thread after a step.
LEMMA QueueOrder ==
    ASSUME TypeOK, NEW s \in Seq(Messages), Grows(s) \/ Runs(s), NEW A, NEW S, Apart(main, A, S)
    PROVE  /\ NoneIn(s, S) => Apart(main', A, S)
           /\ NoneIn(s, S) /\ Runs(s) /\ Head(main) \in A => NoneIn(main', S)
           /\ NoneIn(main, A) /\ Apart(s, A, S) => Apart(main', A, S)
<1>0. main \in Seq(Messages)
  BY DEF TypeOK
<1>1. NoneIn(s, S) => Apart(s, A, S)
  BY NoneApart
<1>2. CASE Grows(s)
  <2>1. ~Runs(s)
    BY <1>2, GrowsOrRuns
  <2> QED
    BY <1>0, <1>1, <1>2, <2>1, OrderLonger DEF Grows
<1>3. CASE Runs(s)
  <2>1. main # <<>> /\ main' = Tail(main) \o s
    BY <1>3 DEF Runs
  <2>2. /\ Tail(main) \in Seq(Messages) /\ Apart(Tail(main), A, S)
        /\ NoneIn(main, A) => NoneIn(Tail(main), A)
        /\ Head(main) \in A => NoneIn(Tail(main), S)
    BY <1>0, <2>1, OrderShorter
  <2> QED
    BY <1>1, <2>1, <2>2, OrderLonger
<1> QED
  BY <1>2, <1>3

-----------------------------------------------------------------------------
(* The steps, by what they do with the queue of the main thread *)

Created == 1 .. Len(screens)
About(a) == {m \in Messages : m.a = a}
Frees(a) == {Msg("stop", a), Msg("destroy", a)}
Takes(a) == {Msg("launch", a), Msg("restart", a)}
Services == {Msg("destroyService", 0)}
Moves == {m \in Messages : m.m \in {"launch", "resume", "restart", "stop", "destroy"}}

\* The answers that open and close screens.
Oks == {m \in Messages : m.m = "loginOk"}
Registrations == {m \in Messages : m.m = "registered"}
LoginAsked == \E i \in 1 .. Len(asked) : asked[i] = "login"

\* A login screen is told that it was accepted when it asked; a registration
\* screen is told the same of what it asked.
Fit(s) ==
    \/ NoneIn(s, Oks \union Registrations)
    \/ Is(slot, "Login") /\ LoginAsked /\ loggedIn' /\ NoneIn(s, Registrations)
    \/ Is(slot, "Register") /\ NoneIn(s, Oks)

\* An event, if any, is put behind the others, for the listener.
Voice(s) ==
    /\ Grows(s) /\ NoneIn(s, Own \union Later) /\ NoneIn(s, Messages \ About(slot)) /\ Fit(s)
    /\ UNCHANGED <<screens, stack, stopped, front, clients, served, slot>>

\* The main thread runs its next message.
Turn(s) ==
    /\ Runs(s) /\ NoneIn(s, Moves \union Later)
    /\ NoneIn(s, Messages \ (About(Head(main).a) \union About(0)))
    /\ NoneIn(s, Oks \union Registrations)
    /\ UNCHANGED <<screens, stack, stopped>>
    /\ front' = IF Head(main) \in Showing THEN Head(main).a
                ELSE IF front # 0 /\ Head(main) = Msg("destroy", front) THEN 0 ELSE front
    /\ \A a \in Instances :
           /\ a \in clients /\ Head(main) \notin Frees(a) => a \in clients'
           /\ Head(main) \in Takes(a) /\ Binds(a) => a \in clients'
           /\ a \in served' => a \in served \/ Head(main) = Msg("connected", a)
           /\ a \in served => a \in served' \/ Head(main) = Msg("destroy", a)
           /\ a \in clients /\ Head(main) = Msg("connected", a) => a \in served'
           /\ Head(main) \in Takes(a) \/ NoneIn(s, {Msg("connected", a)})
           /\ slot' = a => slot = a \/ Head(main) = Msg("connected", a)
    /\ NoneIn(s, Services) \/ (clients' = {} /\ \E a \in Instances : Head(main) \in Frees(a))

\* The screen in front is made anew: its binding is connected again, and the
\* service is destroyed before that if it was its only client.
Renews(s) ==
    /\ Grows(s) /\ NoneIn(s, Moves \union Later) /\ NoneIn(s, Oks \union Registrations)
    /\ NoneIn(s, Messages \ ({Msg("connected", front)} \union Services))
    /\ front \in Instances /\ front = Top /\ stack # <<>>
    /\ Binds(front) =>
           /\ front \in clients /\ NoneIn(main, {Msg("connected", front)})
           /\ LastIn(s, {Msg("connected", front)}, Listeners)
           /\ Apart(s, {Msg("connected", front)}, Services)
    /\ NoneIn(s, Services) \/ (clients = {front} /\ parting' # "no")
    /\ served' = served \ {front} /\ early' = early \ {front}
    /\ parting # "no" => parting' # "no"
    /\ UNCHANGED <<screens, stack, sys, stopped, front, clients, slot, closing, worker,
                   asked, loggedIn, ended>>

\* The activity at place i of the back stack is finished.
Ends(i) ==
    /\ Finish(i) /\ sys # <<>> /\ Head(sys) = FinishOf(stack[i]) /\ sys' = Tail(sys)
    /\ UNCHANGED <<screens, front, bindingVars, slot, buttonVars, connectionVars>>

LEMMA PostedAbout ==
    ASSUME TypeOK, NEW a, NEW shown
    PROVE  /\ \A e \in Events : NoneIn(Posted(a, e, shown), Messages \ About(a))
           /\ NoneIn(LastWords(a, shown), Messages \ About(a))
<1>1. ASSUME NEW e \in Events PROVE NoneIn(Posted(a, e, shown), Messages \ About(a))
  <2>1. CASE Heeds(a, e)
    <3>1. Msg(e, a) \notin Messages \ About(a)
      BY MessageFields DEF About
    <3> QED
      BY <2>1, <3>1, ShortQueues DEF Posted
  <2>2. CASE ~Heeds(a, e)
    BY <2>2, ShortQueues DEF Posted
  <2> QED
    BY <2>1, <2>2
<1>2. NoneIn(Posted(a, "up", shown) \o Posted(a, "down", shown), Messages \ About(a))
  BY <1>1, PostedTells, EventNames, Longer
<1>3. NoneIn(LastWords(a, shown), Messages \ About(a))
  BY <1>1, <1>2, EventNames, ShortQueues DEF LastWords
<1> QED
  BY <1>1, <1>3

LEMMA PostedFit ==
    ASSUME TypeOK, NEW a, NEW shown
    PROVE  /\ \A e \in Events : e \notin {"loginOk", "registered"} =>
                  NoneIn(Posted(a, e, shown), Oks \union Registrations)
           /\ ~Is(a, "Login") => NoneIn(Posted(a, "loginOk", shown), Oks \union Registrations)
           /\ ~Is(a, "Register") => NoneIn(Posted(a, "registered", shown), Oks \union Registrations)
           /\ NoneIn(Posted(a, "loginOk", shown), Registrations) /\ NoneIn(Posted(a, "registered", shown), Oks)
           /\ NoneIn(LastWords(a, shown), Oks \union Registrations)
<1>1. /\ \A e : e \notin {"loginOk", "registered"} => Msg(e, a) \notin Oks \union Registrations
      /\ Msg("loginOk", a) \notin Registrations /\ Msg("registered", a) \notin Oks
  BY MessageFields DEF Oks, Registrations
<1>2. /\ \A S : NoneIn(<<>>, S)
      /\ \A e, S : Msg(e, a) \notin S => NoneIn(Posted(a, e, shown), S)
      /\ \A e : Heeds(a, e) \/ Posted(a, e, shown) = <<>>
  BY ShortQueues DEF Posted
<1>3. \A e \in Events : e \notin {"loginOk", "registered"} =>
          NoneIn(Posted(a, e, shown), Oks \union Registrations)
  BY <1>1, <1>2
<1>4. /\ ~Is(a, "Login") => Posted(a, "loginOk", shown) = <<>>
      /\ ~Is(a, "Register") => Posted(a, "registered", shown) = <<>>
  BY <1>2 DEF Heeds
<1>5. NoneIn(LastWords(a, shown), Oks \union Registrations)
  <2>1. NoneIn(Posted(a, "up", shown) \o Posted(a, "down", shown), Oks \union Registrations)
    BY <1>3, PostedTells, EventNames, Longer
  <2> QED
    BY <1>2, <1>3, <2>1, EventNames DEF LastWords
<1> QED
  BY <1>1, <1>2, <1>3, <1>4, <1>5

LEMMA QuietVoice ==
    ASSUME TypeOK, UNCHANGED <<main, screens, stack, stopped, front, clients, served, slot>>
    PROVE  \E s \in Seq(Messages) : Voice(s)
<1>1. NoneIn(<<>>, Oks \union Registrations)
  BY ShortQueues
<1> QED
  BY <1>1, NothingGrows DEF Voice, Fit

LEMMA EventVoice ==
    ASSUME TypeOK, NEW e \in Events, main' = main \o Posted(slot, e, served),
           e = "loginOk" => LoginAsked /\ loggedIn',
           UNCHANGED <<screens, stack, stopped, front, clients, served, slot>>
    PROVE  \E s \in Seq(Messages) : Voice(s)
<1>1. Fit(Posted(slot, e, served))
  BY PostedFit DEF Fit
<1> QED
  BY <1>1, PostedTells, PostedQuiet, PostedAbout DEF Voice, Grows

LEMMA UserVoice == ASSUME TypeOK, User PROVE \E s \in Seq(Messages) : Voice(s)
<1> USE DEF systemVars, bindingVars
<1>1. CASE Start
  BY <1>1, QuietVoice DEF Start
<1>2. ASSUME NEW from, NEW to, OpenScreen(from, to) PROVE \E s \in Seq(Messages) : Voice(s)
  BY <1>2, QuietVoice DEF OpenScreen
<1>3. CASE Back
  BY <1>3, QuietVoice DEF Back
<1>4. ASSUME NEW activity, NEW request, Ask(activity, request)
      PROVE  \E s \in Seq(Messages) : Voice(s)
  BY <1>4, QuietVoice DEF Ask
<1>5. CASE Logout
  <2>1. Grows(LastWords(slot, served)) \/ UNCHANGED main
    BY <1>5 DEF Logout, Grows
  <2>2. UNCHANGED <<screens, stack, stopped, front, clients, served, slot>>
    BY <1>5 DEF Logout
  <2>3. CASE Grows(LastWords(slot, served))
    BY <2>2, <2>3, LastWordsTell, LastWordsQuiet, PostedAbout, PostedFit DEF Voice, Fit
  <2> QED
    BY <2>1, <2>2, <2>3, QuietVoice
<1> QED
  BY <1>1, <1>2, <1>3, <1>4, <1>5 DEF User

LEMMA WorkerVoice == ASSUME TypeOK, Worker PROVE \E s \in Seq(Messages) : Voice(s)
<1> USE DEF systemVars, bindingVars
<1>1. CASE ConnectEnds
  BY <1>1, QuietVoice DEF ConnectEnds
<1>2. CASE TellUp
  BY <1>2, EventVoice, EventNames DEF TellUp
<1>3. CASE Lose
  BY <1>3, QuietVoice DEF Lose
<1>4. CASE TellDown
  BY <1>4, EventVoice, EventNames DEF TellDown
<1>5. ASSUME NEW ok \in BOOLEAN, Answer(ok) PROVE \E s \in Seq(Messages) : Voice(s)
  <2>1. PICK e \in Events : /\ main' = main \o Posted(slot, e, served)
                            /\ e = "loginOk" => Head(asked) = "login" /\ loggedIn'
    BY <1>5 DEF Answer, Events
  <2>2. asked # <<>> /\ asked \in Seq({"login", "register"})
    BY <1>5 DEF Answer, TypeOK
  <2>3. Head(asked) = asked[1] /\ 1 \in 1 .. Len(asked)
    BY <2>2, EmptySeq
  <2>4. e = "loginOk" => LoginAsked /\ loggedIn'
    BY <2>1, <2>3 DEF LoginAsked
  <2> QED
    BY <1>5, <2>1, <2>4, EventVoice DEF Answer
<1> QED
  BY <1>1, <1>2, <1>3, <1>4, <1>5 DEF Worker

\* The sets a message is in, by its kind and its activity.
LEMMA KindOf ==
    ASSUME NEW m \in Messages
    PROVE  /\ \A k, b : m = Msg(k, b) <=> m.m = k /\ m.a = b
           /\ m \in Showing <=> m.m \in {"launch", "resume", "restart"}
           /\ \A b : m \in Shows(b) <=> m \in Showing /\ m.a = b
           /\ \A b : m \in Frees(b) <=> m.m \in {"stop", "destroy"} /\ m.a = b
           /\ \A b : m \in Takes(b) <=> m.m \in {"launch", "restart"} /\ m.a = b
           /\ m \in Moves <=> m.m \in {"launch", "resume", "restart", "stop", "destroy"}
           /\ m \in Services <=> m.m = "destroyService"
           /\ \A b : m \in About(b) <=> m.a = b
           /\ m \in Own <=> m.m \notin Events
           /\ m \in Oks <=> m.m = "loginOk"
           /\ m \in Registrations <=> m.m = "registered"
           /\ m \in Later <=> m.a > Len(screens)
<1>1. \A k, b : m = Msg(k, b) <=> m.m = k /\ m.a = b
  BY MessageIs, MessageFields
<1>2. m.m = "destroyService" => m.a = 0
  BY DEF Messages, Events
<1> QED
  BY <1>1, <1>2 DEF Showing, Shows, Frees, Takes, Moves, Services, About, Own, Later, Oks,
                    Registrations

LEMMA ServiceMessage == Msg("destroyService", 0) \in Messages
BY DEF Msg, Messages

\* The main thread runs a message and adds nothing, or something of its own.
LEMMA AppearTurn == ASSUME TypeOK, FrontInv, Appear PROVE \E s \in Seq(Messages) : Turn(s)
<1> USE DEF systemVars, bindingVars
<1>0. PICK a, h : a = Head(main).a /\ h = Head(main)
  OBVIOUS
<1>1. PICK k \in {"launch", "restart"} : Due(k)
  BY DEF Appear
<1>2. /\ a \in Instances /\ h \in Messages /\ h.m = k /\ h.a = a /\ main # <<>>
      /\ ~(a > Len(screens))
  BY <1>0, <1>1, HeadKnown, LenProperties DEF FrontInv, TypeOK
<1>3. /\ h \in Showing /\ \A b : h \in Takes(b) <=> b = a
      /\ \A b : h # Msg("connected", b) /\ h # Msg("destroy", b)
  BY <1>2, KindOf
<1>4. PICK s \in Seq(Messages) :
          /\ Runs(s) /\ (s = <<Msg("connected", a)>> \/ s = <<>>)
          /\ \A b : b \in clients => b \in clients'
          /\ Binds(a) => a \in clients'
  <2>1. OnStart(a)
    BY <1>0 DEF Appear
  <2>2. CASE Binds(a)
    BY <1>2, <2>1, <2>2, MessageTypes, OneRuns DEF OnStart
  <2>3. CASE ~Binds(a)
    BY <1>2, <2>1, <2>3, NothingGrows DEF OnStart
  <2> QED
    BY <2>2, <2>3
<1>5. PICK c : c = Msg("connected", a)
  OBVIOUS
<1>6. /\ c \notin Moves /\ c \notin Later /\ c \in About(a) /\ c \notin Services
      /\ c \notin Oks /\ c \notin Registrations
      /\ \A b : b # a => c # Msg("connected", b)
  <2>1. c \in Messages /\ c.m = "connected" /\ c.a = a
    BY <1>2, <1>5, MessageTypes, MessageFields
  <2> QED
    BY <1>2, <2>1, KindOf
<1>7. \A S : c \notin S => NoneIn(s, S)
  BY <1>4, <1>5, ShortQueues
<1>8. /\ NoneIn(s, Moves \union Later) /\ NoneIn(s, Messages \ (About(a) \union About(0)))
      /\ NoneIn(s, Services) /\ \A b : b # a => NoneIn(s, {Msg("connected", b)})
      /\ NoneIn(s, Oks \union Registrations)
  BY <1>6, <1>7
<1>9. UNCHANGED <<screens, stack, stopped, served, slot>> /\ front' = a
  BY <1>0 DEF Appear
<1> QED
  BY <1>0, <1>3, <1>4, <1>8, <1>9 DEF Turn

LEMMA ResumeTurn == ASSUME TypeOK, FrontInv, Resume PROVE \E s \in Seq(Messages) : Turn(s)
<1> USE DEF systemVars, bindingVars
<1>0. PICK h : h = Head(main)
  OBVIOUS
<1>1. Due("resume") /\ main' = Tail(main) /\ front' = h.a
      /\ UNCHANGED <<screens, stack, stopped, served, slot, clients>>
  BY <1>0 DEF Resume
<1>2. h \in Messages /\ h.m = "resume" /\ main # <<>>
  BY <1>0, <1>1, HeadKnown DEF FrontInv
<1>3. /\ h \in Showing /\ \A b : h \notin Takes(b) /\ h # Msg("connected", b)
  BY <1>2, KindOf
<1>4. <<>> \in Seq(Messages) /\ Runs(<<>>) /\ \A S : NoneIn(<<>>, S)
  BY <1>1, <1>2, NothingGrows
<1> QED
  BY <1>0, <1>1, <1>3, <1>4 DEF Turn

LEMMA ConnectedTurn ==
    ASSUME TypeOK, FrontInv, OnServiceConnected PROVE \E s \in Seq(Messages) : Turn(s)
<1> USE DEF systemVars
<1>0. PICK a, h : a = Head(main).a /\ h = Head(main)
  OBVIOUS
<1>1. /\ Due("connected") /\ UNCHANGED <<screens, stack, stopped, front, clients>>
      /\ slot' = (IF a \in clients THEN a ELSE slot)
      /\ served' = (IF a \in clients THEN served \union {a} ELSE served)
  BY <1>0 DEF OnServiceConnected
<1>2. h \in Messages /\ h.m = "connected" /\ h.a = a /\ main # <<>>
  BY <1>0, <1>1, HeadKnown DEF FrontInv
<1>3. /\ h \notin Showing /\ \A b : h \notin Takes(b) /\ h # Msg("destroy", b)
      /\ \A b : h = Msg("connected", b) <=> b = a
  BY <1>2, KindOf
<1>4. PICK s \in Seq(Messages) :
          /\ Runs(s) /\ NoneIn(s, Own \union Later) /\ NoneIn(s, Messages \ About(a))
          /\ NoneIn(s, Oks \union Registrations)
  <2>1. \E s \in {LastWords(a, served'), <<>>} : Runs(s)
    BY <1>0, <1>2 DEF OnServiceConnected, Runs
  <2> QED
    BY <2>1, LastWordsTell, LastWordsQuiet, PostedAbout, PostedFit, NothingGrows
<1>5. /\ NoneIn(s, Moves \union Later) /\ NoneIn(s, Services)
      /\ NoneIn(s, Messages \ (About(a) \union About(0)))
      /\ \A b \in Instances : NoneIn(s, {Msg("connected", b)})
  <2>1. Moves \subseteq Own /\ Services \subseteq Own
    <3>1. Services \subseteq Messages
      BY ServiceMessage DEF Services
    <3>2. \A m \in Messages : m.m \in {"launch", "resume", "restart", "connected", "stop", "destroy", "destroyService"}
                                  => m \in Own
      BY KindOf, EventNames
    <3> QED
      BY <3>1, <3>2, MessageFields DEF Moves, Services
  <2>2. Moves \union Later \subseteq Own \union Later
    BY <2>1
  <2> QED
    BY <1>4, <2>1, <2>2, OwnMessages, NoneInLess
<1> QED
  BY <1>0, <1>1, <1>3, <1>4, <1>5 DEF Turn

\* A binding that is given back: only if it was the last one the service goes.
LEMMA UnbindTurn ==
    ASSUME TypeOK, FrontInv, NEW a \in Instances, NEW k \in {"stop", "destroy"}, Due(k),
           Head(main).a = a, NEW gone \in SUBSET {a}, Unbind(gone, Tail(main)),
           UNCHANGED <<screens, stack, stopped, slot>>,
           front' = IF k = "destroy" /\ front = a THEN 0 ELSE front,
           served' = IF k = "destroy" THEN served \ {a} ELSE served
    PROVE  \E s \in Seq(Messages) : Turn(s)
<1>0. PICK h : h = Head(main)
  OBVIOUS
<1>1. h \in Messages /\ h.m = k /\ h.a = a /\ main # <<>>
  BY <1>0, HeadKnown DEF FrontInv
<1>2. /\ h \notin Showing /\ \A b : h \notin Takes(b) /\ h # Msg("connected", b)
      /\ \A b : h \in Frees(b) <=> b = a
      /\ \A b : h = Msg("destroy", b) <=> k = "destroy" /\ b = a
  BY <1>1, KindOf
<1>3. PICK m : m = Msg("destroyService", 0)
  OBVIOUS
<1>4. /\ m \in Messages /\ m \notin Moves /\ m \notin Later /\ m \in About(0)
      /\ m \notin Oks /\ m \notin Registrations
      /\ \A b : m # Msg("connected", b)
  <2>1. m \in Messages /\ m.m = "destroyService" /\ m.a = 0 /\ ~(0 > Len(screens))
    BY <1>3, ServiceMessage, MessageFields, LenProperties DEF TypeOK
  <2> QED
    BY <2>1, KindOf
<1>5. PICK s \in Seq(Messages) :
          Runs(s) /\ (s = <<>> \/ (s = <<m>> /\ clients' = {}))
  <2>1. CASE main' = Append(Tail(main), m) /\ clients' = {}
    BY <1>1, <1>4, <2>1, OneRuns
  <2>2. CASE main' = Tail(main)
    BY <1>1, <2>2, NothingGrows
  <2> QED
    BY <1>3, <2>1, <2>2 DEF Unbind
<1>6. \A S : m \notin S => NoneIn(s, S)
  BY <1>5, ShortQueues
<1>7. /\ NoneIn(s, Moves \union Later) /\ NoneIn(s, Messages \ (About(a) \union About(0)))
      /\ \A b : NoneIn(s, {Msg("connected", b)})
      /\ NoneIn(s, Services) \/ clients' = {}
      /\ NoneIn(s, Oks \union Registrations)
  BY <1>4, <1>5, <1>6, ShortQueues
<1>8. \A b : b \in clients /\ h \notin Frees(b) => b \in clients'
  BY <1>2 DEF Unbind
<1>9. front' = IF front # 0 /\ h = Msg("destroy", front) THEN 0 ELSE front
  <2>1. a # 0
    BY DEF Instances
  <2> QED
    BY <1>2, <2>1
<1> QED
  BY <1>0, <1>1, <1>2, <1>5, <1>7, <1>8, <1>9 DEF Turn

LEMMA MainThreadTurn ==
    ASSUME TypeOK, FrontInv, MainThread PROVE \E s \in Seq(Messages) : Voice(s) \/ Turn(s)
<1> USE DEF systemVars, bindingVars
<1>0. PICK h : h = Head(main)
  OBVIOUS
<1>1. ASSUME NEW k \in Events \union {"destroyService"}, Due(k), main' = Tail(main),
             UNCHANGED <<screens, stack, stopped, front, clients, served>>, slot' \in {slot, 0}
      PROVE  \E s \in Seq(Messages) : Turn(s)
  <2>1. h \in Messages /\ h.m = k /\ main # <<>>
    BY <1>0, <1>1, HeadKnown DEF FrontInv
  <2>2. k \notin {"launch", "resume", "restart", "stop", "destroy", "connected"}
    BY DEF Events
  <2>3. h \notin Showing /\ \A b : h \notin Takes(b) /\ h # Msg("destroy", b) /\ h # Msg("connected", b)
    BY <2>1, <2>2, KindOf
  <2>4. <<>> \in Seq(Messages) /\ Runs(<<>>) /\ \A S : NoneIn(<<>>, S)
    BY <1>1, <2>1, NothingGrows
  <2>5. \A b \in Instances : b # 0
    BY DEF Instances
  <2> QED
    BY <1>0, <1>1, <2>3, <2>4, <2>5 DEF Turn
<1>2. CASE OnStop
  <2>1. PICK a : a = Head(main).a
    OBVIOUS
  <2>2. /\ Due("stop") /\ UNCHANGED <<screens, stack, stopped, slot, front, served>>
        /\ Unbind(bound \intersect {a}, Tail(main))
    BY <1>2, <2>1 DEF OnStop
  <2>3. a \in Instances /\ bound \intersect {a} \in SUBSET {a}
    BY <2>1, <2>2, HeadKnown DEF FrontInv
  <2> QED
    BY <2>1, <2>2, <2>3, UnbindTurn
<1>3. CASE OnDestroy
  <2>1. PICK a : a = Head(main).a
    OBVIOUS
  <2>2. /\ Due("destroy") /\ UNCHANGED <<screens, stack, stopped, slot>>
        /\ Unbind({a}, Tail(main))
        /\ front' = IF front = a THEN 0 ELSE front
        /\ served' = served \ {a}
    BY <1>3, <2>1 DEF OnDestroy
  <2>3. a \in Instances /\ {a} \in SUBSET {a}
    BY <2>1, <2>2, HeadKnown DEF FrontInv
  <2> QED
    BY <2>1, <2>2, <2>3, UnbindTurn
<1>4. CASE OnDestroyService
  BY <1>1, <1>4 DEF OnDestroyService
<1>5. CASE RunStatus
  <2>1. PICK e \in {"up", "down"} : Due(e)
    BY <1>5 DEF RunStatus
  <2> QED
    BY <1>1, <1>5, <2>1, EventNames DEF RunStatus
<1>6. CASE RunLoginResult
  <2>1. PICK e \in {"loginOk", "loginFailed"} : Due(e)
    BY <1>6 DEF RunLoginResult
  <2> QED
    BY <1>1, <1>6, <2>1, EventNames DEF RunLoginResult
<1>7. CASE RunRegisterResult
  <2>1. PICK e \in {"registered", "refused"} : Due(e)
    BY <1>7 DEF RunRegisterResult
  <2> QED
    BY <1>1, <1>7, <2>1, EventNames DEF RunRegisterResult
<1>8. ASSUME NEW a \in Instances, DelayedFinish(a) PROVE \E s \in Seq(Messages) : Voice(s)
  BY <1>8, QuietVoice DEF DelayedFinish
<1> QED
  BY <1>2, <1>3, <1>4, <1>5, <1>6, <1>7, <1>8, AppearTurn, ResumeTurn, ConnectedTurn DEF MainThread

LEMMA TwoMessages ==
    ASSUME NEW m \in Messages, NEW n \in Messages PROVE <<m, n>> = <<m>> \o <<n>>
<1>1. /\ <<m, n>> \in Seq(Messages) /\ Len(<<m, n>>) = 2
      /\ <<m>> \in Seq(Messages) /\ Len(<<m>>) = 1 /\ <<n>> \in Seq(Messages) /\ Len(<<n>>) = 1
  OBVIOUS
<1>2. /\ <<m>> \o <<n>> \in Seq(Messages) /\ Len(<<m>> \o <<n>>) = 2
      /\ \A i \in 1 .. 2 : (<<m>> \o <<n>>)[i] = IF i <= 1 THEN <<m>>[i] ELSE <<n>>[i - 1]
  BY <1>1, ConcatProperties
<1>3. \A i \in 1 .. 2 : <<m, n>>[i] = (<<m>> \o <<n>>)[i]
  BY <1>2
<1> QED
  BY <1>1, <1>2, <1>3, SeqEqual

LEMMA RecreateRenews == ASSUME TypeOK, FrontInv, Recreate PROVE \E s \in Seq(Messages) : Renews(s)
<1> DEFINE d == Msg("destroyService", 0)
           c == Msg("connected", front)
           lost == front \in bound /\ clients = {front}
           s == (IF lost THEN <<d>> ELSE <<>>) \o (IF Binds(front) THEN <<c>> ELSE <<>>)
<1>1. /\ front \in Instances /\ front = Top /\ stack # <<>> /\ front \in 0 .. Len(screens)
      /\ Len(screens) \in Nat
  BY LenProperties DEF Recreate, TypeOK, Top, FrontInv, Known
<1>2. /\ d \in Messages /\ c \in Messages /\ d.m = "destroyService" /\ c.m = "connected"
      /\ d.a = 0 /\ c.a = front
  BY <1>1, MessageTypes, MessageFields, ServiceMessage
<1>3. /\ \A m \in {d, c} : m \notin Moves \union Later \union Oks \union Registrations
      /\ c \notin Services /\ d \in Services
  BY <1>1, <1>2 DEF Moves, Later, Oks, Registrations, Services
<1> HIDE DEF d, c
<1>4. /\ s \in Seq(Messages)
      /\ \A S : (lost => d \notin S) /\ (Binds(front) => c \notin S) => NoneIn(s, S)
      /\ \A S : Binds(front) => LastIn(s, {c}, S)
      /\ Binds(front) => Apart(s, {c}, Services)
  <2>1. /\ <<d>> \in Seq(Messages) /\ <<c>> \in Seq(Messages) /\ <<d, c>> \in Seq(Messages)
        /\ <<>> \in Seq(Messages)
    BY <1>2, EmptySeq
  <2>2. /\ <<d, c>> = <<d>> \o <<c>> /\ <<d>> = <<d>> \o <<>> /\ <<c>> = <<>> \o <<c>>
        /\ <<>> = <<>> \o <<>>
    BY <1>2, <2>1, TwoMessages, ConcatEmptySeq
  <2>3. CASE lost /\ Binds(front)
    <3>1. s = <<d, c>>
      BY <2>2, <2>3
    <3> HIDE DEF s, lost
    <3>2. \A S : d \notin S /\ c \notin S => NoneIn(s, S)
      BY <3>1, ShortQueues
    <3>3. \A S : LastIn(s, {c}, S)
      BY <3>1, ShortQueues
    <3>4. Apart(s, {c}, Services)
      <4>1. c \in {c}
        OBVIOUS
      <4>2. Len(s) = 2 /\ s[1] = d /\ s[2] = c
        BY <3>1
      <4>3. \A i, j \in 1 .. 2 : i < j => j = 2
        OBVIOUS
      <4> QED
        BY <1>3, <4>2, <4>3 DEF Apart
    <3> QED
      BY <2>1, <2>3, <3>1, <3>2, <3>3, <3>4
  <2>4. CASE lost /\ ~Binds(front)
    <3>1. s = <<d>>
      BY <2>2, <2>4
    <3> HIDE DEF s, lost
    <3>2. \A S : d \notin S => NoneIn(s, S)
      BY <3>1, ShortQueues
    <3> QED
      BY <2>1, <2>4, <3>1, <3>2
  <2>5. CASE ~lost /\ Binds(front)
    <3>1. s = <<c>>
      BY <2>2, <2>5
    <3> HIDE DEF s, lost
    <3>2. \A S : c \notin S => NoneIn(s, S)
      BY <3>1, ShortQueues
    <3>3. \A S : LastIn(s, {c}, S)
      BY <3>1, ShortQueues
    <3>4. Apart(s, {c}, Services)
      BY <3>1, ShortOrders
    <3> QED
      BY <2>1, <2>5, <3>1, <3>2, <3>3, <3>4
  <2>6. CASE ~lost /\ ~Binds(front)
    <3>1. s = <<>>
      BY <2>2, <2>6
    <3> HIDE DEF s, lost
    <3>2. \A S : NoneIn(s, S)
      BY <3>1, ShortQueues
    <3> QED
      BY <2>1, <2>6, <3>1, <3>2
  <2> QED
    BY <2>3, <2>4, <2>5, <2>6
<1>5. /\ main' = main \o s /\ parting' = (IF lost /\ parting = "no" THEN "recreated" ELSE parting)
      /\ Binds(front) => front \in clients /\ NoneIn(main, {c})
      /\ served' = served \ {front} /\ early' = early \ {front}
      /\ UNCHANGED <<screens, stack, sys, stopped, front, clients, slot, closing, worker,
                     asked, loggedIn, ended>>
  <2>1. main \in Seq(Messages)
    BY DEF TypeOK
  <2>2. main' = (main \o (IF lost THEN <<d>> ELSE <<>>)) \o (IF Binds(front) THEN <<c>> ELSE <<>>)
    BY DEF Recreate, d, c
  <2>3. main' = main \o s
    <3>1. \A u, v \in Seq(Messages) : (main \o u) \o v = main \o (u \o v)
      BY <2>1, ConcatAssociative
    <3>2. /\ (IF lost THEN <<d>> ELSE <<>>) \in Seq(Messages)
          /\ (IF Binds(front) THEN <<c>> ELSE <<>>) \in Seq(Messages)
      BY <1>2, EmptySeq
    <3> QED
      BY <2>2, <3>1, <3>2
  <2>4. Binds(front) => front \in clients /\ NoneIn(main, {c})
    BY DEF Recreate, TypeOK, NoneIn, c
  <2> HIDE DEF s
  <2> QED
    BY <2>3, <2>4 DEF Recreate
<1> HIDE DEF s
<1>6. /\ NoneIn(s, Moves \union Later) /\ NoneIn(s, Oks \union Registrations)
      /\ NoneIn(s, Messages \ ({c} \union Services))
      /\ lost \/ NoneIn(s, Services)
  BY <1>3, <1>4
<1>7. Renews(s)
  BY <1>1, <1>4, <1>5, <1>6 DEF Renews, Grows, c
<1> QED
  BY <1>4, <1>7

\* Every step is one of these.
LEMMA Steps ==
    ASSUME TypeOK, FrontInv, [Next]_vars
    PROVE  \/ \E s \in Seq(Messages) : Voice(s)
           \/ \E s \in Seq(Messages) : Turn(s)
           \/ SystemOpens
           \/ \E i \in 1 .. Len(stack) : Ends(i)
           \/ \E a \in Instances : SystemStops(a)
           \/ \E s \in Seq(Messages) : Renews(s)
<1>1. ASSUME UNCHANGED vars PROVE \E s \in Seq(Messages) : Voice(s)
  BY <1>1, QuietVoice DEF vars, systemVars, bindingVars
<1>2. CASE SystemFinishes
  <2>1. PICK h : h = Head(sys)
    OBVIOUS
  <2>2. sys # <<>> /\ h \in Calls /\ h.op = "finish"
    BY <1>2, <2>1, HeadTailProperties DEF SystemFinishes, TypeOK
  <2>3. h = FinishOf(h.what)
    BY <2>2 DEF Calls, FinishOf
  <2>4. ASSUME NEW i \in 1 .. Len(stack), stack[i] = h.what, Finish(i) PROVE Ends(i)
    BY <1>2, <2>1, <2>2, <2>3, <2>4 DEF SystemFinishes, Ends
  <2>5. ASSUME UNCHANGED <<stack, main, early, stopped>> PROVE \E s \in Seq(Messages) : Voice(s)
    BY <1>2, <2>5, QuietVoice DEF SystemFinishes, bindingVars
  <2> QED
    BY <1>2, <2>1, <2>4, <2>5 DEF SystemFinishes
<1> QED
  BY <1>1, <1>2, UserVoice, WorkerVoice, MainThreadTurn, RecreateRenews DEF Next, System

-----------------------------------------------------------------------------
(* The steps of the system, by what they do with the back stack *)

\* Activity x is somewhere under activity y.
Under(st, x, y) == \E i, j \in 1 .. Len(st) : i < j /\ st[i] = x /\ st[j] = y

\* Activity b, a new one, is put on the stack.
Opens(b) ==
    /\ b \in Instances \ Created /\ Created' = Created \union {b}
    /\ <<Msg("launch", b)>> \in Seq(Messages) /\ Grows(<<Msg("launch", b)>>)
    /\ stack' # <<>> /\ Top' = b
    /\ \A x : On(stack, x) => x \in Created
    /\ \A x : On(stack', x) <=> On(stack, x) \/ x = b
    /\ \A x, y : Under(stack', x, y) <=> Under(stack, x, y) \/ (On(stack, x) /\ y = b)
    /\ \A x \in Created : \A activity : Is(x, activity)' <=> Is(x, activity)
    /\ \A activity : Is(b, activity)' <=> Head(sys) = Open(activity)
    /\ sys # <<>> /\ Head(sys) \in Calls /\ Head(sys).op = "open" /\ sys' = Tail(sys)
    /\ UNCHANGED <<stopped, early, front, bindingVars, slot, buttonVars, connectionVars>>

\* The activity a goes and the message s tells so.
Leaving(a, s) ==
    /\ On(stack, a) /\ a \in Instances /\ stack # <<>>
    /\ s \in Seq(Messages) /\ Grows(s)
    /\ sys # <<>> /\ Head(sys) = FinishOf(a) /\ sys' = Tail(sys)
    /\ \A x : On(stack', x) <=> On(stack, x) /\ x # a
    /\ \A x, y : Under(stack', x, y) <=> Under(stack, x, y) /\ x # a /\ y # a
    /\ UNCHANGED <<screens, front, bindingVars, slot, buttonVars, connectionVars>>

\* An activity under others goes, or the only one.
Vanishes(a) ==
    /\ Leaving(a, <<Msg("destroy", a)>>)
    /\ stack' # <<>> => Top' = Top /\ Top # a
    /\ stack' = <<>> => \A x : On(stack, x) => x = a
    /\ stopped' = stopped \ {a}

\* The activity at the top goes, and b comes back.
Returns(b) ==
    /\ Leaving(Top, <<Msg(IF b \in stopped THEN "restart" ELSE "resume", b), Msg("destroy", Top)>>)
    /\ stack' # <<>> /\ Top' = b /\ b # Top /\ b \in Instances /\ Under(stack, b, Top)
    /\ \A x : Under(stack, x, Top) => x = b \/ Under(stack, x, b)
    /\ stopped' = stopped \ {Top, b}

\* Activity a, which is covered, is told to stop.
Stops(a) ==
    /\ On(stack, a) /\ a # Top /\ front = Top /\ front # 0 /\ stack # <<>>
    /\ <<Msg("stop", a)>> \in Seq(Messages) /\ Grows(<<Msg("stop", a)>>)
    /\ a \notin stopped /\ stopped' = stopped \union {a}
    /\ UNCHANGED <<screens, stack, sys, early, front, bindingVars, slot, buttonVars, connectionVars>>

LEMMA OnStack ==
    ASSUME TypeOK, Known, NEW x, On(stack, x)
    PROVE  /\ x \in Instances /\ x \in Created /\ stack # <<>>
           /\ x = Top \/ Under(stack, x, Top)
<1>1. PICK i \in 1 .. Len(stack) : stack[i] = x
  BY DEF On
<1>2. stack # <<>> /\ Len(stack) \in Nat
  BY EmptySeq, LenProperties DEF TypeOK
<1>3. Top = stack[Len(stack)] /\ Len(stack) \in 1 .. Len(stack) /\ (i = Len(stack) \/ i < Len(stack))
  BY <1>2 DEF Top
<1>4. x = Top \/ Under(stack, x, Top)
  BY <1>1, <1>3 DEF Under
<1> QED
  BY <1>1, <1>2, <1>4, ElementOfSeq DEF TypeOK, Known, Created

LEMMA UnderStack ==
    ASSUME TypeOK, Known, NEW x, NEW y, Under(stack, x, y)
    PROVE  On(stack, x) /\ On(stack, y) /\ x # y /\ x # Top
<1>1. PICK i \in 1 .. Len(stack), j \in 1 .. Len(stack) : i < j /\ stack[i] = x /\ stack[j] = y
  BY DEF Under
<1>2. Len(stack) \in Nat /\ stack # <<>> /\ i # j /\ i # Len(stack)
  BY <1>1, EmptySeq, LenProperties DEF TypeOK
<1>3. Len(stack) \in 1 .. Len(stack)
  BY <1>2
<1> QED
  BY <1>1, <1>2, <1>3 DEF On, Known, Top

LEMMA OpensEffect == ASSUME TypeOK, FrontInv, SystemOpens PROVE \E b \in Instances : Opens(b)
<1> USE DEF bindingVars, buttonVars, connectionVars
<1>0. PICK b, c : b = Len(screens) + 1 /\ c = Head(sys)
  OBVIOUS
<1>1. /\ sys # <<>> /\ c.op = "open" /\ sys' = Tail(sys) /\ screens' = Append(screens, c.what)
      /\ stack' = Append(stack, b) /\ main' = Append(main, Msg("launch", b))
      /\ UNCHANGED <<stopped, early, front, bindingVars, slot, buttonVars, connectionVars>>
  BY <1>0 DEF SystemOpens
<1>2. Len(screens) \in Nat /\ b \in Instances
  BY <1>0, AppAssumption, LenProperties DEF SystemOpens, TypeOK, Instances
<1>3. c \in Calls /\ c.what \in Activities /\ \A x : c = Open(x) <=> x = c.what
  <2>1. c \in Calls
    BY <1>0, <1>1, HeadTailProperties DEF TypeOK
  <2> QED
    BY <1>1, <2>1 DEF Calls, Open
<1>4. /\ screens' \in Seq(Activities) /\ Len(screens') = b /\ screens'[b] = c.what
      /\ \A x \in 1 .. Len(screens) : screens'[x] = screens[x]
  BY <1>0, <1>1, <1>3, AppendProperties DEF TypeOK
<1>5. /\ Len(stack) \in Nat /\ Len(stack') = Len(stack) + 1 /\ stack'[Len(stack) + 1] = b
      /\ \A i \in 1 .. Len(stack) : stack'[i] = stack[i] /\ stack[i] \in 1 .. Len(screens)
  BY <1>1, <1>2, AppendProperties, LenProperties DEF TypeOK, FrontInv, Known
<1>6. /\ \A i \in 1 .. Len(stack') : i \in 1 .. Len(stack) \/ i = Len(stack) + 1
      /\ \A i \in 1 .. Len(stack) : i \in 1 .. Len(stack') /\ i < Len(stack) + 1
      /\ Len(stack) + 1 \in 1 .. Len(stack')
  BY <1>5
<1>7. stack' # <<>> /\ Top' = b
  <2>1. stack' # <<>>
    BY <1>5, EmptySeq
  <2> QED
    BY <1>5, <2>1 DEF Top
<1>8. Created' = Created \union {b} /\ b \notin Created
  BY <1>0, <1>2, <1>4 DEF Created
<1>9. <<Msg("launch", b)>> \in Seq(Messages) /\ Grows(<<Msg("launch", b)>>)
  BY <1>1, <1>2, MessageTypes, OneGrows
<1>10. \A x : On(stack, x) => x \in Created
  BY <1>5 DEF On, Created
<1>11. \A x : On(stack', x) <=> On(stack, x) \/ x = b
  <2>1. ASSUME NEW x, On(stack', x) PROVE On(stack, x) \/ x = b
    BY <1>5, <1>6, <2>1 DEF On
  <2>2. ASSUME NEW x, On(stack, x) PROVE On(stack', x)
    BY <1>5, <1>6, <2>2 DEF On
  <2>3. On(stack', b)
    BY <1>5, <1>6 DEF On
  <2> QED
    BY <2>1, <2>2, <2>3
<1>12. ASSUME NEW x, NEW y
       PROVE  Under(stack', x, y) <=> Under(stack, x, y) \/ (On(stack, x) /\ y = b)
  <2>1. ASSUME NEW i \in 1 .. Len(stack'), NEW j \in 1 .. Len(stack'), i < j,
               stack'[i] = x, stack'[j] = y
        PROVE  Under(stack, x, y) \/ (On(stack, x) /\ y = b)
    <3>1. i \in 1 .. Len(stack)
      BY <1>5, <2>1
    <3>2. CASE j \in 1 .. Len(stack)
      BY <1>5, <2>1, <3>1, <3>2 DEF Under
    <3>3. CASE j = Len(stack) + 1
      BY <1>5, <2>1, <3>1, <3>3 DEF On
    <3> QED
      BY <1>6, <3>2, <3>3
  <2>2. ASSUME Under(stack, x, y) PROVE Under(stack', x, y)
    BY <1>5, <1>6, <2>2 DEF Under
  <2>3. ASSUME On(stack, x), y = b PROVE Under(stack', x, y)
    BY <1>5, <1>6, <2>3 DEF Under, On
  <2> QED
    BY <2>1, <2>2, <2>3 DEF Under
<1>13. \A x \in Created : \A activity : Is(x, activity)' <=> Is(x, activity)
  <2>1. \A x \in 1 .. Len(screens) : x \in 1 .. Len(screens')
    BY <1>0, <1>2, <1>4
  <2> QED
    BY <1>4, <2>1 DEF Is, Created
<1>14. \A activity : Is(b, activity)' <=> c = Open(activity)
  <2>1. b \in 1 .. Len(screens')
    BY <1>0, <1>2, <1>4
  <2> QED
    BY <1>3, <1>4, <2>1 DEF Is
<1> QED
  BY <1>0, <1>1, <1>2, <1>3, <1>7, <1>8, <1>9, <1>10, <1>11, <1>12, <1>13, <1>14 DEF Opens

\* The order of the activities that stay is the order they had.
LEMMA UnderWithout ==
    ASSUME TypeOK, Known, NEW i \in 1 .. Len(stack), Finish(i), NEW x, NEW y
    PROVE  Under(stack', x, y) <=> Under(stack, x, y) /\ x # stack[i] /\ y # stack[i]
<1>1. /\ Len(stack) \in Nat /\ i \in Int /\ Len(stack') = Len(stack) - 1
      /\ \A j \in 1 .. Len(stack') : stack'[j] = stack[IF j < i THEN j ELSE j + 1]
  <2>1. /\ stack \in Seq(Instances) /\ Len(stack) \in Nat /\ i \in Int
        /\ stack' = SubSeq(stack, 1, i - 1) \o SubSeq(stack, i + 1, Len(stack))
    BY LenProperties DEF TypeOK, Finish
  <2> QED
    BY <2>1, RemoveOne
<1>2. ASSUME NEW k \in 1 .. Len(stack'), NEW l \in 1 .. Len(stack'), k < l,
             stack'[k] = x, stack'[l] = y
      PROVE  Under(stack, x, y) /\ x # stack[i] /\ y # stack[i]
  <2> DEFINE p == IF k < i THEN k ELSE k + 1
             q == IF l < i THEN l ELSE l + 1
  <2>1. p \in 1 .. Len(stack) /\ q \in 1 .. Len(stack) /\ p < q /\ p # i /\ q # i
    BY <1>1, <1>2
  <2>2. stack[p] = x /\ stack[q] = y
    BY <1>1, <1>2
  <2> HIDE DEF p, q
  <2> QED
    BY <2>1, <2>2 DEF Under, Known
<1>3. ASSUME NEW p \in 1 .. Len(stack), NEW q \in 1 .. Len(stack), p < q,
             stack[p] = x, stack[q] = y, x # stack[i], y # stack[i]
      PROVE  Under(stack', x, y)
  <2> DEFINE k == IF p < i THEN p ELSE p - 1
             l == IF q < i THEN q ELSE q - 1
  <2>1. p # i /\ q # i
    BY <1>3
  <2>2. /\ k \in 1 .. Len(stack) - 1 /\ l \in 1 .. Len(stack) - 1 /\ k < l
        /\ (IF k < i THEN k ELSE k + 1) = p /\ (IF l < i THEN l ELSE l + 1) = q
    BY <1>1, <1>3, <2>1
  <2> HIDE DEF k, l
  <2>3. stack'[k] = x /\ stack'[l] = y
    BY <1>1, <1>3, <2>2
  <2> QED
    BY <1>1, <2>2, <2>3 DEF Under
<1> QED
  BY <1>2, <1>3 DEF Under

LEMMA EndsEffect ==
    ASSUME TypeOK, FrontInv, NEW i \in 1 .. Len(stack), Ends(i)
    PROVE  (\E a \in Instances : Vanishes(a)) \/ (\E b \in Instances : Returns(b))
<1>0. PICK a : a = stack[i]
  OBVIOUS
<1>1. /\ a \in Instances /\ a \in 1 .. Len(screens) /\ Finish(i)
      /\ \A x : On(stack', x) <=> On(stack, x) /\ x # a
      /\ i < Len(stack) => Top' = Top /\ Top # a
      /\ i = Len(stack) /\ i > 1 => Top' = stack[i - 1] /\ stack[i - 1] # a
      /\ stack' # <<>> => i < Len(stack) \/ i > 1
  BY <1>0, StackWithout DEF FrontInv, Ends
<1>2. Len(stack) \in Nat /\ i \in Nat /\ i <= Len(stack) /\ On(stack, a) /\ stack # <<>>
  BY <1>0, LenProperties, EmptySeq DEF TypeOK, On
<1>3. Msg("destroy", a) \in Messages
  BY <1>1, MessageTypes
<1>4. \A x, y : Under(stack', x, y) <=> Under(stack, x, y) /\ x # a /\ y # a
  BY <1>0, <1>1, UnderWithout DEF FrontInv
<1>5. /\ sys # <<>> /\ Head(sys) = FinishOf(a) /\ sys' = Tail(sys)
      /\ UNCHANGED <<screens, front, bindingVars, slot, buttonVars, connectionVars>>
  BY <1>0 DEF Ends
<1>6. CASE i = Len(stack) /\ i > 1
  <2>0. PICK b : b = stack[i - 1]
    OBVIOUS
  <2>1. i - 1 \in 1 .. Len(stack) /\ i - 1 < i /\ Top = a
    BY <1>0, <1>2, <1>6 DEF Top
  <2>2. b \in Instances /\ b # a /\ Top' = b /\ Under(stack, b, a)
    <3>1. b \in Instances
      BY <2>0, <2>1, ElementOfSeq DEF TypeOK
    <3> QED
      BY <1>0, <1>1, <1>6, <2>0, <2>1, <3>1 DEF Under
  <2>3. ASSUME NEW x, Under(stack, x, a) PROVE x = b \/ Under(stack, x, b)
    <3>1. PICK k \in 1 .. Len(stack), l \in 1 .. Len(stack) : k < l /\ stack[k] = x /\ stack[l] = a
      BY <2>3 DEF Under
    <3>2. l = i
      BY <1>0, <3>1 DEF FrontInv, Known
    <3>3. k = i - 1 \/ k < i - 1
      BY <1>2, <3>1, <3>2
    <3> QED
      BY <2>0, <2>1, <3>1, <3>3 DEF Under
  <2>4. PICK m : m = Msg(IF b \in stopped THEN "restart" ELSE "resume", b)
    OBVIOUS
  <2>5. main' = main \o <<m, Msg("destroy", a)>> /\ stopped' = stopped \ {a, b}
    BY <1>0, <1>1, <1>6, <2>0, <2>4 DEF Finish
  <2>6. m \in Messages
    BY <2>2, <2>4, MessageTypes
  <2>7. <<m, Msg("destroy", a)>> \in Seq(Messages) /\ Grows(<<m, Msg("destroy", a)>>)
    BY <1>3, <2>5, <2>6 DEF Grows
  <2>8. stack' # <<>>
    <3>1. On(stack', b)
      BY <1>1, <2>2, UnderStack DEF FrontInv
    <3> QED
      BY <3>1, EmptySeq DEF On
  <2> QED
    BY <1>1, <1>2, <1>4, <1>5, <2>1, <2>2, <2>3, <2>4, <2>5, <2>7, <2>8 DEF Returns, Leaving
<1>7. CASE ~(i = Len(stack) /\ i > 1)
  <2>1. main' = Append(main, Msg("destroy", a)) /\ stopped' = stopped \ {a}
    BY <1>0, <1>1, <1>7 DEF Finish
  <2>2. <<Msg("destroy", a)>> \in Seq(Messages) /\ Grows(<<Msg("destroy", a)>>)
    BY <1>3, <2>1, OneGrows
  <2>3. stack' # <<>> => Top' = Top /\ Top # a
    BY <1>1, <1>2, <1>7
  <2>4. stack' = <<>> => \A x : On(stack, x) => x = a
    <3>1. stack' = <<>> => \A x : ~On(stack', x)
      BY EmptySeq DEF On
    <3> QED
      BY <1>1, <3>1
  <2> QED
    BY <1>1, <1>2, <1>4, <1>5, <2>1, <2>2, <2>3, <2>4 DEF Vanishes, Leaving
<1> QED
  BY <1>6, <1>7

LEMMA StopsEffect == ASSUME TypeOK, FrontInv, NEW a \in Instances, SystemStops(a) PROVE Stops(a)
<1>1. PICK i \in 1 .. Len(stack) - 1 : stack[i] = a
  BY DEF SystemStops
<1>2. /\ i \in 1 .. Len(stack) /\ Len(stack) \in 1 .. Len(stack) /\ i # Len(stack)
      /\ stack # <<>>
  BY <1>1, LenProperties, EmptySeq DEF TypeOK
<1>3. On(stack, a) /\ a # Top
  BY <1>1, <1>2 DEF FrontInv, Known, Top, On
<1>4. <<Msg("stop", a)>> \in Seq(Messages) /\ Grows(<<Msg("stop", a)>>)
  BY MessageTypes, OneGrows DEF SystemStops
<1> QED
  BY <1>2, <1>3, <1>4 DEF SystemStops, Stops

LEMMA StepKinds ==
    ASSUME TypeOK, FrontInv, [Next]_vars
    PROVE  \/ \E s \in Seq(Messages) : Voice(s)
           \/ \E s \in Seq(Messages) : Turn(s)
           \/ \E b \in Instances : Opens(b)
           \/ \E a \in Instances : Vanishes(a)
           \/ \E b \in Instances : Returns(b)
           \/ \E a \in Instances : Stops(a)
           \/ \E s \in Seq(Messages) : Renews(s)
BY Steps, OpensEffect, EndsEffect, StopsEffect

\* What a screen that is made anew puts behind the others.
LEMMA RenewsAdds ==
    ASSUME TypeOK, NEW s \in Seq(Messages), Renews(s)
    PROVE  /\ Grows(s) /\ ~Runs(s)
           /\ \A S : (\A m \in S \intersect Messages : m.m \notin {"connected", "destroyService"})
                      => NoneIn(s, S)
           /\ NoneIn(s, Showing) /\ NoneIn(s, Oks) /\ NoneIn(s, Registrations)
           /\ \A x \in Instances :
                  /\ NoneIn(s, {Msg("launch", x)}) /\ NoneIn(s, {Msg("stop", x)})
                  /\ NoneIn(s, {Msg("destroy", x)}) /\ NoneIn(s, {Msg("resume", x)})
                  /\ NoneIn(s, {Msg("registered", x)}) /\ NoneIn(s, {Msg("loginOk", x)})
                  /\ NoneIn(s, Showing \union {Msg("stop", x)})
                  /\ NoneIn(s, Shows(x)) /\ NoneIn(s, Frees(x)) /\ NoneIn(s, Takes(x))
                  /\ x # front => NoneIn(s, About(x))
<1>1. Grows(s) /\ ~Runs(s) /\ NoneIn(s, Messages \ ({Msg("connected", front)} \union Services))
  BY GrowsOrRuns DEF Renews
<1>2. \A i \in 1 .. Len(s) : s[i] \in Messages
  BY ElementOfSeq
<1>3. \A i \in 1 .. Len(s) : s[i] = Msg("connected", front) \/ s[i] = Msg("destroyService", 0)
  BY <1>1, <1>2 DEF NoneIn, Services
<1>4. \A i \in 1 .. Len(s) : /\ s[i].m \in {"connected", "destroyService"}
                            /\ s[i].a \in {front, 0}
  BY <1>3, MessageFields
<1>5. ASSUME NEW S, \A m \in S \intersect Messages : m.m \notin {"connected", "destroyService"}
      PROVE  NoneIn(s, S)
  BY <1>2, <1>4, <1>5 DEF NoneIn
<1>6. NoneIn(s, Showing) /\ NoneIn(s, Oks) /\ NoneIn(s, Registrations)
  BY <1>5 DEF Showing, Oks, Registrations
<1>7. ASSUME NEW x \in Instances
      PROVE  /\ NoneIn(s, {Msg("launch", x)}) /\ NoneIn(s, {Msg("stop", x)})
             /\ NoneIn(s, {Msg("destroy", x)}) /\ NoneIn(s, {Msg("resume", x)})
             /\ NoneIn(s, {Msg("registered", x)}) /\ NoneIn(s, {Msg("loginOk", x)})
             /\ NoneIn(s, Showing \union {Msg("stop", x)})
             /\ NoneIn(s, Shows(x)) /\ NoneIn(s, Frees(x)) /\ NoneIn(s, Takes(x))
             /\ x # front => NoneIn(s, About(x))
  <2>1. \A k : k \notin {"connected", "destroyService"} => NoneIn(s, {Msg(k, x)})
    BY <1>4, MessageFields DEF NoneIn
  <2>2. NoneIn(s, Showing \union {Msg("stop", x)})
    BY <1>6, <2>1 DEF NoneIn
  <2>3. NoneIn(s, Frees(x)) /\ NoneIn(s, Takes(x))
    BY <2>1 DEF NoneIn, Frees, Takes
  <2>4. NoneIn(s, Shows(x))
    BY <1>6, NoneInLess DEF Shows
  <2>5. x # front => NoneIn(s, About(x))
    <3>1. x # 0
      BY DEF Instances
    <3> QED
      BY <1>4, <3>1 DEF NoneIn, About
  <2> QED
    BY <2>1, <2>2, <2>3, <2>4, <2>5
<1> QED
  BY <1>1, <1>5, <1>6, <1>7

-----------------------------------------------------------------------------
(* The steps, by what they ask of the system *)

Entrance(a) == Is(a, "Login") \/ Is(a, "Register")
Inside(a) == Is(a, "FriendList") \/ Is(a, "Chat")

\* What the user wants with a call, when the call is made and until it is carried out.
Meant(c) ==
    IF c = Open("Login") THEN stack = <<>>
    ELSE /\ stack # <<>> /\ front = Top
         /\ c = Open("Register") => Is(Top, "Login")
         /\ c \in {Open("FriendList"), Open("Chat"), Open("About")} => Is(Top, "FriendList")
         /\ c.op = "finish" => c.what = Top

\* The user makes the call c.
Commands(c) ==
    /\ c \in Calls /\ c # Open("FriendList") /\ Meant(c) /\ sys = <<>> /\ sys' = <<c>>
    /\ parting' = IF c = Open("About") \/ (c.op = "finish" /\ Len(stack) = 1) THEN "left" ELSE parting
    /\ UNCHANGED <<screens, stack, stopped, early, front, bindingVars, slot, buttonVars>>

\* The message that login screen a was accepted is run.
Admits(a) ==
    /\ main # <<>> /\ Head(main) = Msg("loginOk", a) /\ a \in Instances
    /\ sys' = sys \o <<Open("FriendList"), FinishOf(a)>>
    /\ main' = Tail(main)
    /\ UNCHANGED <<screens, stack, stopped, early, front, bindingVars, slot, closing,
                   connectionVars>>

\* The message that registration screen a was accepted is run.
Registers(a) ==
    /\ main # <<>> /\ Head(main) = Msg("registered", a) /\ a \in Instances
    /\ closing' = closing \union {a}
    /\ main' = Tail(main)
    /\ UNCHANGED <<screens, stack, sys, stopped, early, front, bindingVars, slot, connectionVars>>

LEMMA CallNames ==
    /\ \A x, y : Open(x) = Open(y) <=> x = y
    /\ \A x, y : FinishOf(x) = FinishOf(y) <=> x = y
    /\ \A x, y : Open(x) # FinishOf(y)
    /\ \A x : Open(x).op = "open" /\ FinishOf(x).op = "finish" /\ FinishOf(x).what = x
    /\ \A c \in Calls : c.op = "finish" => c = FinishOf(c.what) /\ c.what \in Instances
    /\ \A c \in Calls : c.op = "open" => \E x \in Activities : c = Open(x)
<1>1. /\ \A x, y : Open(x) = Open(y) <=> x = y
      /\ \A x, y : FinishOf(x) = FinishOf(y) <=> x = y
      /\ \A x, y : Open(x) # FinishOf(y)
      /\ \A x : Open(x).op = "open" /\ FinishOf(x).op = "finish" /\ FinishOf(x).what = x
  BY DEF Open, FinishOf
<1>2. \A c \in Calls : c.op = "finish" => c = FinishOf(c.what) /\ c.what \in Instances
  BY DEF Calls, FinishOf
<1>3. \A c \in Calls : c.op = "open" => \E x \in Activities : c = Open(x)
  BY DEF Calls, Open
<1> QED
  BY <1>1, <1>2, <1>3

LEMMA FrontTop == ASSUME TypeOK, front # 0, front = Top PROVE stack # <<>> /\ front \in Instances
BY DEF TypeOK, Top

LEMMA UserCalls ==
    ASSUME TypeOK, User
    PROVE  (UNCHANGED sys /\ closing' \subseteq closing) \/ \E c \in Calls : Commands(c)
<1> USE DEF buttonVars
<1>1. CASE Start
  <2>1. PICK c : c = Open("Login")
    OBVIOUS
  <2>2. c \in Calls /\ c # Open("FriendList") /\ c # Open("About") /\ c.op # "finish"
    BY <2>1, CallTypes, CallNames DEF Activities
  <2>3. parting' = parting
    BY <1>1 DEF Start, connectionVars, TypeOK
  <2> QED
    BY <1>1, <2>1, <2>2, <2>3 DEF Start, Commands, Meant
<1>2. ASSUME NEW from, NEW to, OpenScreen(from, to), to \in {"Register", "Chat", "About"},
             from = IF to = "Register" THEN "Login" ELSE "FriendList"
      PROVE  \E c \in Calls : Commands(c)
  <2>1. PICK c : c = Open(to)
    OBVIOUS
  <2>2. /\ c \in Calls /\ c # Open("FriendList") /\ c # Open("Login") /\ c.op = "open"
        /\ c = Open("Register") => from = "Login"
        /\ c \in {Open("Chat"), Open("About")} => from = "FriendList"
        /\ c = Open("About") <=> to = "About"
    BY <1>2, <2>1, CallTypes, CallNames DEF Activities
  <2>3. /\ stack # <<>> /\ front = Top /\ Is(Top, from) /\ sys = <<>> /\ sys' = <<c>>
        /\ UNCHANGED <<screens, stack, stopped, early, front, bindingVars, slot, buttonVars>>
        /\ parting' = IF to = "About" THEN "left" ELSE parting
    BY <1>2, <2>1, FrontTop DEF OpenScreen, UserSees
  <2> QED
    BY <2>2, <2>3 DEF Commands, Meant
<1>3. ASSUME front # 0, front = Top, sys = <<>>, sys' = <<FinishOf(front)>>,
             parting' = IF Len(stack) = 1 THEN "left" ELSE parting,
             UNCHANGED <<screens, stack, stopped, early, front, bindingVars, slot, buttonVars>>
      PROVE  \E c \in Calls : Commands(c)
  <2>1. PICK c : c = FinishOf(front)
    OBVIOUS
  <2>2. /\ c \in Calls /\ c.what = Top /\ stack # <<>> /\ c.op = "finish"
        /\ c \notin {Open("Login"), Open("Register"), Open("FriendList"), Open("Chat"), Open("About")}
    BY <1>3, <2>1, FrontTop, CallTypes, CallNames
  <2> QED
    BY <1>3, <2>1, <2>2 DEF Commands, Meant
<1>4. CASE Back
  BY <1>3, <1>4 DEF Back
<1>5. CASE Logout
  BY <1>3, <1>5 DEF Logout, UserSees
<1>6. ASSUME NEW activity, NEW request, Ask(activity, request)
      PROVE  UNCHANGED sys /\ closing' \subseteq closing
  BY <1>6 DEF Ask, systemVars
<1>7. OpenScreen("Login", "Register") => \E c \in Calls : Commands(c)
  BY <1>2
<1>8. OpenScreen("FriendList", "Chat") => \E c \in Calls : Commands(c)
  BY <1>2
<1>9. OpenScreen("FriendList", "About") => \E c \in Calls : Commands(c)
  BY <1>2
<1> QED
  BY <1>1, <1>4, <1>5, <1>6, <1>7, <1>8, <1>9 DEF User

LEMMA MainThreadCalls ==
    ASSUME TypeOK, FrontInv, MainThread
    PROVE  \/ UNCHANGED sys /\ closing' \subseteq closing
           \/ \E a \in Instances : Admits(a)
           \/ \E a \in Instances : Registers(a)
           \/ \E a \in Instances : DelayedFinish(a)
<1> USE DEF systemVars, buttonVars
<1>1. CASE Appear
  BY <1>1 DEF Appear
<1>2. CASE Resume
  BY <1>2 DEF Resume
<1>3. CASE OnServiceConnected
  BY <1>3 DEF OnServiceConnected
<1>4. CASE OnStop
  BY <1>4 DEF OnStop
<1>5. CASE OnDestroy
  <2>1. sys' = sys /\ closing' = closing \ {Head(main).a}
    BY <1>5 DEF OnDestroy
  <2> QED
    BY <2>1
<1>6. CASE OnDestroyService
  BY <1>6 DEF OnDestroyService
<1>7. CASE RunStatus
  BY <1>7 DEF RunStatus
<1>8. CASE RunLoginResult
  <2>1. PICK a : a = Head(main).a
    OBVIOUS
  <2>2. CASE Due("loginOk")
    <3>1. main # <<>> /\ Head(main) = Msg("loginOk", a) /\ a \in Instances
      BY <2>1, <2>2, HeadKnown DEF FrontInv
    <3>2. Admits(a)
      BY <1>8, <2>1, <2>2, <3>1 DEF RunLoginResult, Admits
    <3> QED
      BY <3>1, <3>2
  <2>3. CASE ~Due("loginOk")
    BY <1>8, <2>3 DEF RunLoginResult
  <2> QED
    BY <2>2, <2>3
<1>9. CASE RunRegisterResult
  <2>1. PICK a : a = Head(main).a
    OBVIOUS
  <2>2. CASE Due("registered")
    <3>1. main # <<>> /\ Head(main) = Msg("registered", a) /\ a \in Instances
      BY <2>1, <2>2, HeadKnown DEF FrontInv
    <3>2. Registers(a)
      BY <1>9, <2>1, <2>2, <3>1 DEF RunRegisterResult, Registers
    <3> QED
      BY <3>1, <3>2
  <2>3. CASE ~Due("registered")
    BY <1>9, <2>3 DEF RunRegisterResult
  <2> QED
    BY <2>2, <2>3
<1> QED
  BY <1>1, <1>2, <1>3, <1>4, <1>5, <1>6, <1>7, <1>8, <1>9 DEF MainThread

\* Every step makes one of these calls, or carries one out, or none.
LEMMA CallKinds ==
    ASSUME TypeOK, FrontInv, [Next]_vars
    PROVE  \/ UNCHANGED sys /\ closing' \subseteq closing
           \/ \E c \in Calls : Commands(c)
           \/ \E a \in Instances : Admits(a)
           \/ \E a \in Instances : Registers(a)
           \/ \E a \in Instances : DelayedFinish(a)
           \/ /\ sys # <<>> /\ sys' = Tail(sys) /\ closing' = closing
              /\ Head(sys).op = "finish" \/ SystemOpens
<1> USE DEF systemVars, buttonVars
<1>1. ASSUME UNCHANGED vars PROVE UNCHANGED sys /\ closing' \subseteq closing
  BY <1>1 DEF vars
<1>2. ASSUME System
      PROVE  \/ UNCHANGED sys /\ closing' \subseteq closing
             \/ /\ sys # <<>> /\ sys' = Tail(sys) /\ closing' = closing
                /\ Head(sys).op = "finish" \/ SystemOpens
  BY <1>2 DEF System, SystemOpens, SystemFinishes, SystemStops
<1>3. ASSUME Worker PROVE UNCHANGED sys /\ closing' \subseteq closing
  BY <1>3 DEF Worker, ConnectEnds, TellUp, Lose, TellDown, Answer
<1> QED
  BY <1>1, <1>2, <1>3, UserCalls, MainThreadCalls DEF Next, Recreate

-----------------------------------------------------------------------------
(* The order in which screens appear *)

\* The calls to finish an activity that was never created.
Strangers == {c \in Calls : c.op = "finish" /\ c.what \notin Created}
Existing ==
    /\ NoneIn(sys, Strangers)
    /\ closing \union stopped \union served \subseteq Created /\ slot \in Created \union {0}

\* Nothing was done with activity x, or is under way, but its launch.
Unseen(x) ==
    /\ On(stack, x) /\ NoneIn(main, About(x) \ {Msg("launch", x)})
    /\ x \notin served /\ front # x /\ slot # x
Uncalled(x) == NoneIn(sys, {FinishOf(x)}) /\ x \notin closing
Unlaunched ==
    \A x \in Instances : NoneIn(main, {Msg("launch", x)}) \/ (Unseen(x) /\ Uncalled(x))

\* When an activity appears, those above it have not been launched.
LaunchFirst ==
    \A x, y \in Instances :
        Under(stack, x, y) =>
            /\ front = x => ~NoneIn(main, {Msg("launch", y)})
            /\ NoneIn(main, Shows(x)) \/ LastIn(main, {Msg("launch", y)}, Shows(x))

\* The screen in front is not shown again, nor is another one shown twice.
ShownOnce ==
    \A x \in Instances :
        On(stack, x) => /\ front = x => NoneIn(main, Shows(x))
                        /\ Apart(main, Shows(x), Shows(x))

OrderInv == Existing /\ Unlaunched /\ LaunchFirst /\ ShownOnce

\* The calls that are under way, and the next message.
LEMMA CallsLonger ==
    ASSUME TypeOK, NEW s \in Seq(Calls), NEW S
    PROVE  NoneIn(sys \o s, S) <=> NoneIn(sys, S) /\ NoneIn(s, S)
BY OrderLonger DEF TypeOK

LEMMA CallsShorter ==
    ASSUME TypeOK, sys # <<>>, NEW S
    PROVE  /\ Head(sys) \in Calls /\ Tail(sys) \in Seq(Calls)
           /\ NoneIn(sys, S) <=> Head(sys) \notin S /\ NoneIn(Tail(sys), S)
<1>1. sys \in Seq(Calls)
  BY DEF TypeOK
<1> QED
  BY <1>1, OrderShorter

LEMMA HeadNone ==
    ASSUME TypeOK, main # <<>>, NEW S
    PROVE  Head(main) \in Messages /\ (NoneIn(main, S) => Head(main) \notin S)
<1>1. main \in Seq(Messages)
  BY DEF TypeOK
<1> QED
  BY <1>1, OrderShorter

LEMMA LastSome == ASSUME NEW q, NEW A, NEW S, LastIn(q, A, S) PROVE ~NoneIn(q, A)
BY DEF LastIn, NoneIn

\* What waits before and after a step.
LEMMA QueueNone ==
    ASSUME TypeOK, NEW s \in Seq(Messages), NEW S
    PROVE  /\ Grows(s) => (NoneIn(main', S) <=> NoneIn(main, S) /\ NoneIn(s, S))
           /\ Runs(s) =>
                  /\ NoneIn(main', S) /\ Head(main) \notin S => NoneIn(main, S)
                  /\ NoneIn(main, S) => Head(main) \notin S
                  /\ NoneIn(main, S) /\ NoneIn(s, S) => NoneIn(main', S)
<1>1. main \in Seq(Messages)
  BY DEF TypeOK
<1>2. CASE Grows(s)
  <2>1. ~Runs(s)
    BY <1>2, GrowsOrRuns
  <2> QED
    BY <1>1, <1>2, <2>1, OrderLonger DEF Grows
<1>3. CASE Runs(s)
  <2>1. main # <<>> /\ main' = Tail(main) \o s
    BY <1>3 DEF Runs
  <2>2. Tail(main) \in Seq(Messages) /\ (NoneIn(main, S) <=> Head(main) \notin S /\ NoneIn(Tail(main), S))
    BY <1>1, <2>1, OrderShorter
  <2>3. NoneIn(main', S) <=> NoneIn(Tail(main), S) /\ NoneIn(s, S)
    BY <2>1, <2>2, OrderLonger
  <2>4. ~Grows(s)
    BY <1>3, GrowsOrRuns
  <2> QED
    BY <2>2, <2>3, <2>4
<1> QED
  BY <1>2, <1>3

\* The screen at the top that is in front waits for no other.
NothingShows == front # 0 /\ front = Top => NoneIn(main, Showing)

LEMMA OrderSettles == ASSUME TypeOK, FrontInv, OrderInv PROVE NothingShows
<1> SUFFICES ASSUME front # 0, front = Top PROVE NoneIn(main, Showing)
  BY DEF NothingShows
<1>1. PICK t : t = Top
  OBVIOUS
<1>2. stack # <<>> /\ t \in Instances /\ On(stack, t)
  BY <1>1, FrontTop, TopType
<1>3. NoneIn(main, Shows(t))
  BY <1>1, <1>2 DEF OrderInv, ShownOnce
<1>4. Brings(t) \subseteq Shows(t)
  BY DEF Brings
<1>5. ~Pending(t)
  BY <1>3, <1>4, NoneInLess, LastSome DEF Pending
<1> QED
  BY <1>1, <1>2, <1>5 DEF FrontInv, TopShown, Arrived

\* A screen that is made anew takes the listener slot last.
LEMMA RecreateFront ==
    ASSUME TypeOK, FrontInv, OrderInv, NEW s \in Seq(Messages), Renews(s) PROVE FrontInv'
<1>1. /\ front \in Instances /\ front = Top /\ stack # <<>> /\ early' = early \ {front}
      /\ Binds(front) => front \in clients /\ LastIn(s, {Msg("connected", front)}, Listeners)
      /\ UNCHANGED <<screens, stack, front, clients, slot>> /\ NoneIn(s, Later)
  BY NoneInLess DEF Renews
<1>2. /\ Grows(s) /\ ~Runs(s) /\ NoneIn(s, Showing)
      /\ \A a \in Instances : /\ NoneIn(s, {Msg("destroy", a)}) /\ NoneIn(s, {Msg("stop", a)})
  BY RenewsAdds
<1>3. Known'
  BY <1>1, <1>2, KnownKept DEF FrontInv, Known
<1>4. Gone'
  BY <1>1, <1>2, GoneKept DEF FrontInv
<1>5. NoneIn(main, Showing)
  BY <1>1, OrderSettles DEF NothingShows, Instances
<1>6. Arrived(front)
  <2>1. Brings(front) \subseteq Showing
    BY DEF Brings, Shows
  <2>2. ~Pending(front)
    BY <1>5, <2>1, NoneInLess, LastSome DEF Pending
  <2> QED
    BY <1>1, <2>2 DEF FrontInv, TopShown
<1>7. Arrived(front)'
  <2>1. NoneIn(main', Showing) /\ NoneIn(main', {Msg("stop", front)})
    BY <1>1, <1>2, <1>6, QueueNone DEF Arrived
  <2>2. Binds(front)' => Binds(front)
    BY <1>1 DEF Binds, Is
  <2>3. Binds(front) => Listening(front)'
    BY <1>1, <1>2, QueueEnd DEF Listening
  <2> QED
    BY <1>1, <2>1, <2>2, <2>3 DEF Arrived
<1>8. TopShown'
  BY <1>1, <1>7 DEF TopShown, Top
<1> QED
  BY <1>3, <1>4, <1>8 DEF FrontInv

LEMMA FrontStep == TypeOK /\ FrontInv /\ OrderInv /\ [Next]_vars => FrontInv'
<1>1. ASSUME TypeOK, FrontInv, UNCHANGED vars PROVE FrontInv'
  BY <1>1, NothingGrows, QuietFront DEF vars, systemVars, bindingVars
<1>2. ASSUME TypeOK, FrontInv, OrderInv, Recreate PROVE FrontInv'
  BY <1>2, RecreateRenews, RecreateFront
<1> QED
  BY <1>1, <1>2, UserFront, SystemFront, MainThreadFront, WorkerFront DEF Next

\* An activity that is being finished has been launched.
LEMMA FinishLaunched ==
    ASSUME TypeOK, OrderInv, NEW a \in Instances, sys # <<>>, Head(sys) = FinishOf(a)
    PROVE  NoneIn(main, {Msg("launch", a)})
<1>1. ~NoneIn(sys, {FinishOf(a)})
  BY CallsShorter
<1> QED
  BY <1>1 DEF OrderInv, Unlaunched, Uncalled

\* An activity that comes back is neither shown nor about to be.
LEMMA ReturnsUnshown ==
    ASSUME TypeOK, FrontInv, OrderInv, NEW b \in Instances, Returns(b)
    PROVE  NoneIn(main, Shows(b)) /\ front # b
<1>1. PICK t : t = Top
  OBVIOUS
<1>2. t \in Instances /\ Under(stack, b, t) /\ sys # <<>> /\ Head(sys) = FinishOf(t)
  BY <1>1 DEF Returns, Leaving
<1>3. NoneIn(main, {Msg("launch", t)})
  BY <1>2, FinishLaunched
<1>4. ~LastIn(main, {Msg("launch", t)}, Shows(b))
  BY <1>3, LastSome
<1> QED
  BY <1>2, <1>3, <1>4 DEF OrderInv, LaunchFirst

\* An activity that was not launched is not finished.
LEMMA UncalledStays ==
    ASSUME TypeOK, FrontInv, OrderInv, [Next]_vars, NEW x \in Instances,
           ~NoneIn(main, {Msg("launch", x)})
    PROVE  Uncalled(x)'
<1>1. Unseen(x) /\ NoneIn(sys, {FinishOf(x)}) /\ x \notin closing
  BY DEF OrderInv, Unlaunched, Uncalled
<1>2. main \in Seq(Messages) /\ sys \in Seq(Calls)
  BY DEF TypeOK
<1>3. ASSUME main # <<>>, NEW k \in {"loginOk", "registered"} PROVE Head(main) # Msg(k, x)
  <2>1. PICK h : h = Head(main)
    OBVIOUS
  <2>2. h \in Messages /\ h \notin About(x) \ {Msg("launch", x)}
    BY <1>1, <1>3, <2>1, HeadNone DEF Unseen
  <2> QED
    BY <1>3, <2>1, <2>2, KindOf
<1>4. CASE UNCHANGED sys /\ closing' \subseteq closing
  BY <1>1, <1>4 DEF Uncalled
<1>5. ASSUME NEW c \in Calls, Commands(c) PROVE Uncalled(x)'
  <2>1. c # FinishOf(x)
    <3>1. ASSUME c = FinishOf(x) PROVE FALSE
      <4>1. c # Open("Login") /\ c.op = "finish" /\ c.what = x
        BY <3>1, CallNames
      <4>2. front = x
        BY <1>5, <4>1 DEF Commands, Meant
      <4> QED
        BY <1>1, <4>2 DEF Unseen
    <3> QED
      BY <3>1
  <2>2. NoneIn(sys', {FinishOf(x)})
    BY <1>5, <2>1, ShortQueues DEF Commands
  <2> QED
    BY <1>1, <1>5, <2>2 DEF Commands, Uncalled, buttonVars
<1>6. ASSUME NEW a \in Instances, Admits(a) PROVE Uncalled(x)'
  <2>1. a # x
    BY <1>3, <1>6 DEF Admits
  <2>2. PICK s : s = <<Open("FriendList"), FinishOf(a)>>
    OBVIOUS
  <2>3. s \in Seq(Calls) /\ NoneIn(s, {FinishOf(x)})
    BY <2>1, <2>2, CallTypes, CallNames, ShortQueues DEF Activities
  <2>4. NoneIn(sys', {FinishOf(x)})
    BY <1>1, <1>6, <2>2, <2>3, CallsLonger DEF Admits
  <2> QED
    BY <1>1, <1>6, <2>4 DEF Admits, Uncalled
<1>7. ASSUME NEW a \in Instances, Registers(a) PROVE Uncalled(x)'
  <2>1. a # x
    BY <1>3, <1>7 DEF Registers
  <2> QED
    BY <1>1, <1>7, <2>1 DEF Registers, Uncalled
<1>8. ASSUME NEW a \in Instances, DelayedFinish(a) PROVE Uncalled(x)'
  <2>1. a # x /\ closing' = closing \ {a} /\ sys' = Append(sys, FinishOf(a))
    BY <1>1, <1>8 DEF DelayedFinish
  <2>2. <<FinishOf(a)>> \in Seq(Calls) /\ NoneIn(<<FinishOf(a)>>, {FinishOf(x)})
    BY <2>1, CallTypes, CallNames, ShortQueues
  <2>3. sys' = sys \o <<FinishOf(a)>>
    BY <1>2, <2>1, CallTypes, AppendIsConcat
  <2>4. NoneIn(sys', {FinishOf(x)})
    BY <1>1, <2>2, <2>3, CallsLonger
  <2> QED
    BY <1>1, <2>1, <2>4 DEF Uncalled
<1>9. CASE sys # <<>> /\ sys' = Tail(sys) /\ closing' = closing
  BY <1>1, <1>9, CallsShorter DEF Uncalled
<1> QED
  BY <1>4, <1>5, <1>6, <1>7, <1>8, <1>9, CallKinds

\* Only activities that exist are named.
LEMMA CreatedStays ==
    ASSUME TypeOK, FrontInv, [Next]_vars PROVE Created \subseteq Created'
<1>1. ASSUME screens' = screens PROVE Created' = Created
  BY <1>1 DEF Created
<1> QED
  BY <1>1, StepKinds DEF Voice, Turn, Opens, Vanishes, Returns, Leaving, Stops, Renews

LEMMA HeadCreated ==
    ASSUME TypeOK, FrontInv, main # <<>>, NEW k, NEW a \in Instances, Head(main) = Msg(k, a)
    PROVE  a \in Created
<1>1. PICK h : h = Head(main)
  OBVIOUS
<1>2. h \in Messages /\ h \notin Later /\ h.a = a
  BY <1>1, HeadNone, MessageFields DEF FrontInv, Known
<1>3. Len(screens) \in Nat /\ a \in Nat \ {0}
  BY LenProperties, AppAssumption DEF TypeOK, Instances
<1> QED
  BY <1>2, <1>3, KindOf DEF Created

LEMMA ExistingCalls ==
    ASSUME TypeOK, FrontInv, OrderInv, [Next]_vars
    PROVE  NoneIn(sys', Strangers) /\ closing' \subseteq Created
<1>1. NoneIn(sys, Strangers) /\ closing \subseteq Created /\ sys \in Seq(Calls)
  BY DEF OrderInv, Existing, TypeOK
<1>2. \A a \in Created : FinishOf(a) \notin Strangers
  BY CallNames DEF Strangers
<1>3. \A activity : Open(activity) \notin Strangers
  BY CallNames DEF Strangers
<1>4. CASE UNCHANGED sys /\ closing' \subseteq closing
  BY <1>1, <1>4
<1>5. ASSUME NEW c \in Calls, Commands(c) PROVE NoneIn(sys', Strangers) /\ closing' \subseteq Created
  <2>1. c \notin Strangers
    <3>1. ASSUME c \in Strangers PROVE FALSE
      <4>1. c.op = "finish" /\ c.what \notin Created /\ c # Open("Login")
        BY <3>1, CallNames DEF Strangers
      <4>2. c.what = Top /\ stack # <<>>
        BY <1>5, <4>1 DEF Commands, Meant
      <4> QED
        BY <4>1, <4>2, TopType, OnStack DEF FrontInv
    <3> QED
      BY <3>1
  <2> QED
    BY <1>1, <1>5, <2>1, ShortQueues DEF Commands, buttonVars
<1>6. ASSUME NEW a \in Instances, Admits(a) PROVE NoneIn(sys', Strangers) /\ closing' \subseteq Created
  <2>1. PICK s : s = <<Open("FriendList"), FinishOf(a)>>
    OBVIOUS
  <2>2. s \in Seq(Calls) /\ NoneIn(s, Strangers)
    BY <1>2, <1>3, <1>6, <2>1, HeadCreated, CallTypes, ShortQueues DEF Activities, Admits
  <2> QED
    BY <1>1, <1>6, <2>1, <2>2, CallsLonger DEF Admits
<1>7. ASSUME NEW a \in Instances, Registers(a) PROVE NoneIn(sys', Strangers) /\ closing' \subseteq Created
  BY <1>1, <1>7, HeadCreated DEF Registers
<1>8. ASSUME NEW a \in Instances, DelayedFinish(a)
      PROVE  NoneIn(sys', Strangers) /\ closing' \subseteq Created
  <2>1. a \in Created /\ closing' = closing \ {a} /\ sys' = Append(sys, FinishOf(a))
    BY <1>1, <1>8 DEF DelayedFinish
  <2>2. <<FinishOf(a)>> \in Seq(Calls) /\ NoneIn(<<FinishOf(a)>>, Strangers)
    BY <1>2, <2>1, CallTypes, ShortQueues
  <2>3. sys' = sys \o <<FinishOf(a)>>
    BY <1>1, <2>1, CallTypes, AppendIsConcat
  <2>4. NoneIn(sys', Strangers)
    BY <1>1, <2>2, <2>3, CallsLonger
  <2>5. closing' \subseteq Created
    BY <1>1, <2>1
  <2> QED
    BY <2>4, <2>5
<1>9. CASE sys # <<>> /\ sys' = Tail(sys) /\ closing' = closing
  BY <1>1, <1>9, CallsShorter
<1> QED
  BY <1>4, <1>5, <1>6, <1>7, <1>8, <1>9, CallKinds

LEMMA ExistingStep == ASSUME TypeOK, FrontInv, OrderInv, [Next]_vars PROVE Existing'
<1> USE DEF bindingVars
<1>1. Created \subseteq Created'
  BY CreatedStays
<1>2. NoneIn(sys', Strangers')
  <2>1. Strangers' \subseteq Strangers
    BY <1>1 DEF Strangers
  <2> QED
    BY <2>1, ExistingCalls, NoneInLess
<1>3. /\ closing \subseteq Created /\ stopped \subseteq Created /\ served \subseteq Created
      /\ slot \in Created \union {0}
  BY DEF OrderInv, Existing
<1>4. stopped' \subseteq Created /\ served' \subseteq Created /\ slot' \in Created \union {0}
  <2>1. ASSUME NEW s \in Seq(Messages), Voice(s)
        PROVE  stopped' \subseteq Created /\ served' \subseteq Created /\ slot' \in Created \union {0}
    BY <1>3, <2>1 DEF Voice
  <2>2. ASSUME NEW s \in Seq(Messages), Turn(s)
        PROVE  stopped' \subseteq Created /\ served' \subseteq Created /\ slot' \in Created \union {0}
    <3>1. \A a \in Instances : Head(main) = Msg("connected", a) => a \in Created
      BY <2>2, HeadCreated DEF Turn, Runs
    <3>2. served' \subseteq Instances /\ slot' \in Instances \union {0}
      <4>1. TypeOK'
        BY TypeStep
      <4> QED
        BY <4>1 DEF TypeOK
    <3>3. \A a \in Instances : /\ a \in served' => a \in served \/ Head(main) = Msg("connected", a)
                               /\ slot' = a => slot = a \/ Head(main) = Msg("connected", a)
      BY <2>2 DEF Turn
    <3>4. stopped' = stopped
      BY <2>2 DEF Turn
    <3>5. slot' \in Created \union {0}
      BY <1>3, <3>1, <3>2, <3>3
    <3>6. served' \subseteq Created
      BY <1>3, <3>1, <3>2, <3>3
    <3> QED
      BY <1>3, <3>4, <3>5, <3>6
  <2>3. ASSUME NEW b \in Instances, Opens(b) PROVE stopped' = stopped /\ served' = served /\ slot' = slot
    BY <2>3 DEF Opens
  <2>4. ASSUME NEW a \in Instances, Vanishes(a)
        PROVE  stopped' \subseteq stopped /\ served' = served /\ slot' = slot
    BY <2>4 DEF Vanishes, Leaving
  <2>5. ASSUME NEW b \in Instances, Returns(b)
        PROVE  stopped' \subseteq stopped /\ served' = served /\ slot' = slot
    BY <2>5 DEF Returns, Leaving
  <2>6. ASSUME NEW a \in Instances, Stops(a)
        PROVE  stopped' = stopped \union {a} /\ served' = served /\ slot' = slot /\ a \in Created
    BY <2>6, OnStack DEF Stops, FrontInv
  <2>7. ASSUME NEW s \in Seq(Messages), Renews(s)
        PROVE  stopped' = stopped /\ served' \subseteq served /\ slot' = slot
    BY <2>7 DEF Renews
  <2> QED
    BY <1>3, <2>1, <2>2, <2>3, <2>4, <2>5, <2>6, <2>7, StepKinds
<1> QED
  BY <1>1, <1>2, <1>4, ExistingCalls DEF Existing

\* What the order says of the queue and of the stack.
QueueInv == /\ \A x \in Instances : NoneIn(main, {Msg("launch", x)}) \/ Unseen(x)
            /\ LaunchFirst /\ ShownOnce

\* Nothing moves, and nothing new is said of a screen that was not launched.
LEMMA OrderQuiet ==
    ASSUME TypeOK, FrontInv, OrderInv, NEW s \in Seq(Messages), Grows(s),
           \A x \in Instances : /\ NoneIn(s, {Msg("launch", x)}) /\ NoneIn(s, Shows(x))
                                /\ x # slot /\ x # front => NoneIn(s, About(x)),
           served' \subseteq served, UNCHANGED <<stack, front, slot>>
    PROVE  QueueInv'
<1>1. /\ Grows(s) /\ UNCHANGED <<stack, front, slot>>
      /\ \A x \in Instances : NoneIn(s, {Msg("launch", x)}) /\ NoneIn(s, Shows(x))
  OBVIOUS
<1>3. \A x \in Instances : NoneIn(main', {Msg("launch", x)}) <=> NoneIn(main, {Msg("launch", x)})
  BY <1>1, QueueNone
<1>4. \A x \in Instances : NoneIn(main', Shows(x)) <=> NoneIn(main, Shows(x))
  BY <1>1, QueueNone
<1>5. ASSUME NEW x \in Instances, Unseen(x) PROVE Unseen(x)'
  <2>1. x # slot /\ x # front /\ NoneIn(main, About(x) \ {Msg("launch", x)})
    BY <1>5 DEF Unseen
  <2>2. NoneIn(s, About(x) \ {Msg("launch", x)})
    BY <2>1, NoneInLess
  <2>3. NoneIn(main', About(x) \ {Msg("launch", x)})
    BY <1>1, <2>1, <2>2, QueueNone
  <2> QED
    BY <1>1, <1>5, <2>3 DEF Unseen, About
<1>6. LaunchFirst'
  <2>1. \A x, y \in Instances :
            LastIn(main, {Msg("launch", y)}, Shows(x)) => LastIn(main', {Msg("launch", y)}, Shows(x))
    BY <1>1, QueueStep, GrowsOrRuns
  <2> QED
    BY <1>1, <1>3, <1>4, <2>1 DEF OrderInv, LaunchFirst
<1>7. ShownOnce'
  <2>1. \A x \in Instances : Apart(main, Shows(x), Shows(x)) => Apart(main', Shows(x), Shows(x))
    BY <1>1, QueueOrder
  <2> QED
    BY <1>1, <1>4, <2>1 DEF OrderInv, ShownOnce
<1> QED
  BY <1>3, <1>5, <1>6, <1>7 DEF OrderInv, Unlaunched, QueueInv

LEMMA OrderVoice ==
    ASSUME TypeOK, FrontInv, OrderInv, NEW s \in Seq(Messages), Voice(s) PROVE QueueInv'
<1>1. /\ Grows(s) /\ NoneIn(s, Own \union Later) /\ NoneIn(s, Messages \ About(slot))
      /\ UNCHANGED <<stack, front, served, slot>>
  BY DEF Voice
<1>2. \A x \in Instances : NoneIn(s, {Msg("launch", x)}) /\ NoneIn(s, Shows(x))
  <2>1. \A x \in Instances : Msg("launch", x) \in Showing
    BY MessageTypes, MessageFields DEF Showing
  <2> QED
    BY <1>1, <2>1, OwnMessages, NoneInLess DEF Shows
<1>3. ASSUME NEW x \in Instances, x # slot PROVE NoneIn(s, About(x))
  <2>1. About(x) \subseteq Messages \ About(slot)
    BY <1>3 DEF About
  <2> QED
    BY <1>1, <2>1, NoneInLess
<1> QED
  BY <1>1, <1>2, <1>3, OrderQuiet

LEMMA OrderRenews ==
    ASSUME TypeOK, FrontInv, OrderInv, NEW s \in Seq(Messages), Renews(s) PROVE QueueInv'
<1>1. served' \subseteq served /\ UNCHANGED <<stack, front, slot>>
  BY DEF Renews
<1> QED
  BY <1>1, RenewsAdds, OrderQuiet

LEMMA OrderTurn ==
    ASSUME TypeOK, FrontInv, OrderInv, NEW s \in Seq(Messages), Turn(s) PROVE QueueInv'
<1>0. PICK h : h = Head(main)
  OBVIOUS
<1>1. /\ Runs(s) /\ NoneIn(s, Moves \union Later) /\ main # <<>> /\ h \in Messages
      /\ NoneIn(s, Messages \ (About(h.a) \union About(0)))
      /\ UNCHANGED stack
      /\ front' = IF h \in Showing THEN h.a
                  ELSE IF front # 0 /\ h = Msg("destroy", front) THEN 0 ELSE front
      /\ \A a \in Instances : /\ a \in served' => a \in served \/ h = Msg("connected", a)
                              /\ slot' = a => slot = a \/ h = Msg("connected", a)
  BY <1>0, HeadNone DEF Turn, Runs
<1>2. \A x \in Instances : NoneIn(s, {Msg("launch", x)}) /\ NoneIn(s, Shows(x))
  <2>1. \A x \in Instances : Msg("launch", x) \in Moves
    BY MessageTypes, MessageFields DEF Moves
  <2>2. \A x \in Instances : Shows(x) \subseteq Moves
    BY DEF Shows, Showing, Moves
  <2> QED
    BY <1>1, <2>1, <2>2, NoneInLess
<1>3. ASSUME NEW x \in Instances
      PROVE  /\ NoneIn(main, {Msg("launch", x)}) => NoneIn(main', {Msg("launch", x)})
             /\ NoneIn(main, Shows(x)) => NoneIn(main', Shows(x)) /\ h \notin Shows(x)
             /\ h # Msg("launch", x) /\ NoneIn(main', {Msg("launch", x)}) => NoneIn(main, {Msg("launch", x)})
  BY <1>0, <1>1, <1>2, QueueNone
<1>4. \A x \in Instances : Msg("launch", x) \in Shows(x)
  BY MessageTypes, MessageFields DEF Shows, Showing
<1>5. ASSUME NEW x \in Instances, On(stack, x), h \in Shows(x) PROVE NoneIn(main', Shows(x))
  BY <1>0, <1>1, <1>2, <1>5, QueueOrder DEF OrderInv, ShownOnce
<1>6. ASSUME NEW x \in Instances, ~NoneIn(main', {Msg("launch", x)}) PROVE Unseen(x)'
  <2>1. Unseen(x)
    BY <1>3, <1>6 DEF OrderInv, Unlaunched
  <2>2. h # Msg("launch", x)
    <3>1. ~NoneIn(main', Shows(x))
      BY <1>4, <1>6, NoneInLess
    <3> QED
      BY <1>4, <1>5, <2>1, <3>1 DEF Unseen
  <2>3. h.a # x
    <3>1. h \notin About(x) \ {Msg("launch", x)}
      BY <1>0, <1>1, <2>1, HeadNone DEF Unseen
    <3> QED
      BY <1>1, <2>2, <3>1 DEF About
  <2>4. NoneIn(main', About(x) \ {Msg("launch", x)})
    <3>1. x # 0
      BY DEF Instances
    <3>2. About(x) \ {Msg("launch", x)} \subseteq Messages \ (About(h.a) \union About(0))
      BY <2>3, <3>1 DEF About
    <3> QED
      BY <1>1, <2>1, <3>2, NoneInLess, QueueNone DEF Unseen
  <2>5. h # Msg("connected", x)
    BY <2>3, MessageFields
  <2>6. x # 0
    BY DEF Instances
  <2> QED
    BY <1>1, <2>1, <2>3, <2>4, <2>5, <2>6 DEF Unseen
<1>7. LaunchFirst'
  <2> SUFFICES ASSUME NEW x \in Instances, NEW y \in Instances, Under(stack, x, y)
               PROVE  /\ front' = x => ~NoneIn(main', {Msg("launch", y)})
                      /\ NoneIn(main', Shows(x)) \/ LastIn(main', {Msg("launch", y)}, Shows(x))
    BY <1>1 DEF LaunchFirst
  <2>1. /\ front = x => ~NoneIn(main, {Msg("launch", y)})
        /\ NoneIn(main, Shows(x)) \/ LastIn(main, {Msg("launch", y)}, Shows(x))
    BY DEF OrderInv, LaunchFirst
  <2>2. x # y
    BY UnderStack DEF FrontInv
  <2>3. NoneIn(main', Shows(x)) \/ LastIn(main', {Msg("launch", y)}, Shows(x))
    <3>1. ASSUME LastIn(main, {Msg("launch", y)}, Shows(x))
          PROVE  LastIn(main', {Msg("launch", y)}, Shows(x)) \/ NoneIn(main', Shows(x))
      BY <1>1, <1>2, <3>1, QueueRuns
    <3> QED
      BY <1>3, <2>1, <3>1
  <2>4. ASSUME front' = x PROVE ~NoneIn(main', {Msg("launch", y)})
    <3>1. x # 0
      BY DEF Instances
    <3>2. CASE h \in Showing
      <4>1. h.a = x /\ h \in Shows(x)
        BY <1>1, <2>4, <3>2 DEF Shows
      <4>2. ~NoneIn(main, {Msg("launch", y)})
        BY <1>3, <2>1, <4>1, LastSome
      <4>3. h # Msg("launch", y)
        BY <2>2, <4>1, MessageFields
      <4> QED
        BY <1>3, <4>2, <4>3
    <3>3. CASE h \notin Showing
      <4>1. front = x
        BY <1>1, <2>4, <3>1, <3>3
      <4>2. h # Msg("launch", y)
        BY <1>4, <3>3 DEF Shows
      <4> QED
        BY <1>3, <2>1, <4>1, <4>2
    <3> QED
      BY <3>2, <3>3
  <2> QED
    BY <2>3, <2>4
<1>8. ShownOnce'
  <2> SUFFICES ASSUME NEW x \in Instances, On(stack, x)
               PROVE  /\ front' = x => NoneIn(main', Shows(x))
                      /\ Apart(main', Shows(x), Shows(x))
    BY <1>1 DEF ShownOnce
  <2>1. (front = x => NoneIn(main, Shows(x))) /\ Apart(main, Shows(x), Shows(x))
    BY DEF OrderInv, ShownOnce
  <2>2. Apart(main', Shows(x), Shows(x))
    BY <1>1, <1>2, <2>1, QueueOrder
  <2>3. ASSUME front' = x PROVE NoneIn(main', Shows(x))
    <3>1. x # 0
      BY DEF Instances
    <3>2. CASE h \in Showing
      <4>1. h \in Shows(x)
        BY <1>1, <2>3, <3>2 DEF Shows
      <4> QED
        BY <1>5, <4>1
    <3>3. CASE h \notin Showing
      BY <1>1, <1>3, <2>1, <2>3, <3>1, <3>3
    <3> QED
      BY <3>2, <3>3
  <2> QED
    BY <2>2, <2>3
<1> QED
  BY <1>6, <1>7, <1>8 DEF QueueInv

LEMMA OrderOpens ==
    ASSUME TypeOK, FrontInv, OrderInv, NEW b \in Instances, Opens(b) PROVE QueueInv'
<1>0. PICK m, s : m = Msg("launch", b) /\ s = <<m>>
  OBVIOUS
<1>1. /\ s \in Seq(Messages) /\ Grows(s) /\ b \notin Created
      /\ \A x : On(stack, x) => x \in Created
      /\ \A x : On(stack', x) <=> On(stack, x) \/ x = b
      /\ \A x, y : Under(stack', x, y) <=> Under(stack, x, y) \/ (On(stack, x) /\ y = b)
      /\ UNCHANGED <<front, served, slot>>
  BY <1>0 DEF Opens, bindingVars
<1>2. m \in Messages /\ m.m = "launch" /\ m.a = b /\ b # 0
  BY <1>0, MessageTypes, MessageFields DEF Instances
<1>3. \A S : NoneIn(s, S) <=> m \notin S
  BY <1>0, ShortQueues
<1>4. ASSUME NEW x \in Instances, x # b
      PROVE  NoneIn(s, {Msg("launch", x)}) /\ NoneIn(s, Shows(x)) /\ NoneIn(s, About(x))
  BY <1>2, <1>3, <1>4, KindOf
<1>5. NoneIn(main, About(b)) /\ front # b
  <2>1. Len(screens) \in Nat /\ b > Len(screens)
    BY <1>1, LenProperties DEF Created, TypeOK, Instances
  <2>2. About(b) \subseteq Later
    BY <2>1 DEF About, Later
  <2>3. front # b
    BY <2>1 DEF FrontInv, Known
  <2> QED
    BY <2>2, <2>3, NoneInLess DEF FrontInv, Known
<1>6. b \notin served /\ slot # b
  BY <1>1, <1>2 DEF OrderInv, Existing
<1>7. Unseen(b)'
  <2>1. NoneIn(main, About(b) \ {m}) /\ NoneIn(s, About(b) \ {m})
    BY <1>3, <1>5, NoneInLess
  <2>2. NoneIn(main', About(b) \ {m})
    BY <1>1, <2>1, QueueNone
  <2> QED
    BY <1>0, <1>1, <1>5, <1>6, <2>2 DEF Unseen
<1>8. ASSUME NEW x \in Instances, x # b, ~NoneIn(main', {Msg("launch", x)}) PROVE Unseen(x)'
  <2>1. Unseen(x)
    BY <1>1, <1>4, <1>8, QueueNone DEF OrderInv, Unlaunched
  <2>2. NoneIn(s, About(x) \ {Msg("launch", x)})
    BY <1>4, <1>8, NoneInLess
  <2>3. NoneIn(main', About(x) \ {Msg("launch", x)})
    BY <1>1, <2>1, <2>2, QueueNone DEF Unseen
  <2> QED
    BY <1>1, <2>1, <2>3 DEF Unseen
<1>9. LaunchFirst'
  <2> SUFFICES ASSUME NEW x \in Instances, NEW y \in Instances, Under(stack', x, y)
               PROVE  /\ front' = x => ~NoneIn(main', {Msg("launch", y)})
                      /\ NoneIn(main', Shows(x)) \/ LastIn(main', {Msg("launch", y)}, Shows(x))
    BY DEF LaunchFirst
  <2>1. CASE On(stack, x) /\ y = b
    <3>1. LastIn(s, {Msg("launch", y)}, Shows(x))
      BY <1>0, <2>1, ShortQueues
    <3>2. LastIn(main', {Msg("launch", y)}, Shows(x))
      BY <1>1, <3>1, QueueEnd
    <3> QED
      BY <3>2, LastSome
  <2>2. CASE Under(stack, x, y)
    <3>1. /\ front = x => ~NoneIn(main, {Msg("launch", y)})
          /\ NoneIn(main, Shows(x)) \/ LastIn(main, {Msg("launch", y)}, Shows(x))
      BY <2>2 DEF OrderInv, LaunchFirst
    <3>2. x # b
      BY <1>1, <2>2, UnderStack DEF FrontInv
    <3>3. NoneIn(s, Shows(x)) /\ ~Runs(s)
      BY <1>1, <1>4, <3>2, GrowsOrRuns
    <3>4. LastIn(main, {Msg("launch", y)}, Shows(x)) => LastIn(main', {Msg("launch", y)}, Shows(x))
      BY <1>1, <3>3, QueueStep
    <3> QED
      BY <1>1, <3>1, <3>3, <3>4, QueueNone
  <2> QED
    BY <1>1, <2>1, <2>2
<1>10. ShownOnce'
  <2> SUFFICES ASSUME NEW x \in Instances, On(stack', x)
               PROVE  /\ front' = x => NoneIn(main', Shows(x))
                      /\ Apart(main', Shows(x), Shows(x))
    BY DEF ShownOnce
  <2>1. CASE x = b
    <3>1. NoneIn(main, Shows(x))
      <4>1. Shows(x) \subseteq About(x)
        BY DEF Shows, Showing, About
      <4> QED
        BY <1>5, <2>1, <4>1, NoneInLess
    <3>2. Apart(main, Shows(x), Shows(x)) /\ Apart(s, Shows(x), Shows(x))
      BY <1>0, <3>1, NoneApart, ShortOrders
    <3> QED
      BY <1>1, <1>5, <2>1, <3>1, <3>2, QueueOrder
  <2>2. CASE x # b
    <3>1. On(stack, x)
      BY <1>1, <2>2
    <3> QED
      BY <1>1, <1>4, <2>2, <3>1, QueueOrder, QueueNone DEF OrderInv, ShownOnce
  <2> QED
    BY <2>1, <2>2
<1> QED
  BY <1>7, <1>8, <1>9, <1>10 DEF QueueInv

\* A step that leaves the screens in front as they are.
LEMMA OrderLeaves ==
    ASSUME TypeOK, FrontInv, OrderInv, NEW s \in Seq(Messages), Grows(s),
           UNCHANGED <<front, served, slot>>,
           \A x : On(stack', x) => On(stack, x), \A x, y : Under(stack', x, y) => Under(stack, x, y),
           \A x \in Instances : NoneIn(s, {Msg("launch", x)}),
           \A x \in Instances : On(stack', x) =>
               \/ NoneIn(s, Shows(x))
               \/ /\ NoneIn(main, Shows(x)) /\ front # x /\ Apart(s, Shows(x), Shows(x))
                  /\ \A y : ~Under(stack', x, y),
           \A x \in Instances :
               ~NoneIn(main, {Msg("launch", x)}) => On(stack', x) /\ NoneIn(s, About(x))
    PROVE  QueueInv'
<1>1. ~Runs(s)
  BY GrowsOrRuns
<1>2. \A x \in Instances : NoneIn(main', {Msg("launch", x)}) <=> NoneIn(main, {Msg("launch", x)})
  BY QueueNone
<1>3. ASSUME NEW x \in Instances, ~NoneIn(main', {Msg("launch", x)}) PROVE Unseen(x)'
  <2>1. Unseen(x) /\ On(stack', x) /\ NoneIn(s, About(x))
    BY <1>2, <1>3 DEF OrderInv, Unlaunched
  <2>2. NoneIn(s, About(x) \ {Msg("launch", x)})
    BY <2>1, NoneInLess
  <2>3. NoneIn(main', About(x) \ {Msg("launch", x)})
    BY <2>1, <2>2, QueueNone DEF Unseen
  <2> QED
    BY <2>1, <2>3 DEF Unseen
<1>4. LaunchFirst'
  <2> SUFFICES ASSUME NEW x \in Instances, NEW y \in Instances, Under(stack', x, y), On(stack', x)
               PROVE  /\ front' = x => ~NoneIn(main', {Msg("launch", y)})
                      /\ NoneIn(main', Shows(x)) \/ LastIn(main', {Msg("launch", y)}, Shows(x))
    <3>1. \A x, y : Under(stack', x, y) => On(stack', x)
      BY DEF Under, On
    <3> QED
      BY <3>1 DEF LaunchFirst
  <2>1. /\ front = x => ~NoneIn(main, {Msg("launch", y)})
        /\ NoneIn(main, Shows(x)) \/ LastIn(main, {Msg("launch", y)}, Shows(x))
    BY DEF OrderInv, LaunchFirst
  <2>2. NoneIn(s, Shows(x))
    OBVIOUS
  <2>3. LastIn(main, {Msg("launch", y)}, Shows(x)) => LastIn(main', {Msg("launch", y)}, Shows(x))
    BY <1>1, <2>2, QueueStep
  <2> QED
    BY <1>2, <2>1, <2>2, <2>3, QueueNone
<1>5. ShownOnce'
  <2> SUFFICES ASSUME NEW x \in Instances, On(stack', x)
               PROVE  /\ front' = x => NoneIn(main', Shows(x))
                      /\ Apart(main', Shows(x), Shows(x))
    BY DEF ShownOnce
  <2>1. (front = x => NoneIn(main, Shows(x))) /\ Apart(main, Shows(x), Shows(x))
    BY DEF OrderInv, ShownOnce
  <2>2. CASE NoneIn(s, Shows(x))
    BY <2>1, <2>2, QueueOrder, QueueNone
  <2>3. CASE NoneIn(main, Shows(x)) /\ front # x /\ Apart(s, Shows(x), Shows(x))
    BY <2>1, <2>3, QueueOrder
  <2> QED
    BY <2>2, <2>3
<1> QED
  BY <1>3, <1>4, <1>5 DEF QueueInv

LEMMA TopLast == TypeOK /\ FrontInv => \A y : ~Under(stack, Top, y)
BY UnderStack DEF FrontInv

LEMMA OrderVanishes ==
    ASSUME TypeOK, FrontInv, OrderInv, NEW a \in Instances, Vanishes(a) PROVE QueueInv'
<1>0. PICK d, s : d = Msg("destroy", a) /\ s = <<d>>
  OBVIOUS
<1>1. /\ s \in Seq(Messages) /\ Grows(s) /\ sys # <<>> /\ Head(sys) = FinishOf(a)
      /\ UNCHANGED <<front, served, slot>>
      /\ \A x : On(stack', x) <=> On(stack, x) /\ x # a
      /\ \A x, y : Under(stack', x, y) => Under(stack, x, y)
  BY <1>0 DEF Vanishes, Leaving, bindingVars
<1>2. d \in Messages /\ d.m = "destroy" /\ d.a = a
  BY <1>0, MessageTypes, MessageFields
<1>3. \A S : NoneIn(s, S) <=> d \notin S
  BY <1>0, ShortQueues
<1>4. \A x : NoneIn(s, {Msg("launch", x)}) /\ NoneIn(s, Shows(x)) /\ (x # a => NoneIn(s, About(x)))
  BY <1>2, <1>3, KindOf
<1>5. ASSUME NEW x \in Instances, ~NoneIn(main, {Msg("launch", x)})
      PROVE  On(stack', x) /\ NoneIn(s, About(x))
  <2>1. x # a
    BY <1>1, <1>5, FinishLaunched
  <2> QED
    BY <1>1, <1>4, <1>5, <2>1 DEF OrderInv, Unlaunched, Unseen
<1> QED
  BY <1>1, <1>4, <1>5, OrderLeaves

LEMMA OrderReturns ==
    ASSUME TypeOK, FrontInv, OrderInv, NEW b \in Instances, Returns(b), TypeOK', FrontInv'
    PROVE  QueueInv'
<1>0. PICK t, m, d, s : /\ t = Top /\ m = Msg(IF b \in stopped THEN "restart" ELSE "resume", b)
                        /\ d = Msg("destroy", t) /\ s = <<m, d>>
  OBVIOUS
<1>1. /\ s \in Seq(Messages) /\ Grows(s) /\ sys # <<>> /\ Head(sys) = FinishOf(t)
      /\ UNCHANGED <<front, served, slot>> /\ t \in Instances /\ b # t
      /\ \A x : On(stack', x) <=> On(stack, x) /\ x # t
      /\ \A x, y : Under(stack', x, y) => Under(stack, x, y)
      /\ Top' = b
  BY <1>0 DEF Returns, Leaving, bindingVars
<1>2. /\ m \in Messages /\ m.m \in {"restart", "resume"} /\ m.a = b
      /\ d \in Messages /\ d.m = "destroy" /\ d.a = t
  BY <1>0, <1>1, MessageTypes, MessageFields
<1>3. \A S : NoneIn(s, S) <=> m \notin S /\ d \notin S
  BY <1>0, ShortQueues
<1>4. \A x : /\ NoneIn(s, {Msg("launch", x)}) /\ d \notin Shows(x)
             /\ x # b => NoneIn(s, Shows(x))
             /\ x # b /\ x # t => NoneIn(s, About(x))
  BY <1>2, <1>3, KindOf
<1>5. NoneIn(main, Shows(b)) /\ front # b /\ Apart(s, Shows(b), Shows(b))
  BY <1>0, <1>4, ReturnsUnshown, PairApart
<1>6. \A y : ~Under(stack', b, y)
  <2>1. (TypeOK /\ FrontInv => \A y : ~Under(stack, Top, y))'
    BY TopLast, PTL
  <2> QED
    BY <1>1, <2>1
<1>7. ASSUME NEW x \in Instances, ~NoneIn(main, {Msg("launch", x)})
      PROVE  On(stack', x) /\ NoneIn(s, About(x))
  <2>1. x # t
    BY <1>1, <1>7, FinishLaunched
  <2>2. x # b
    <3>1. {Msg("launch", b)} \subseteq Shows(b)
      BY MessageTypes, MessageFields DEF Shows, Showing
    <3> QED
      BY <1>5, <1>7, <3>1, NoneInLess
  <2> QED
    BY <1>1, <1>4, <1>7, <2>1, <2>2 DEF OrderInv, Unlaunched, Unseen
<1>8. \A x \in Instances : On(stack', x) =>
               \/ NoneIn(s, Shows(x))
               \/ /\ NoneIn(main, Shows(x)) /\ front # x /\ Apart(s, Shows(x), Shows(x))
                  /\ \A y : ~Under(stack', x, y)
  BY <1>4, <1>5, <1>6
<1>9. (\A x : On(stack', x) => On(stack, x)) /\ \A x \in Instances : NoneIn(s, {Msg("launch", x)})
  BY <1>1, <1>4
<1> QED
  BY <1>1, <1>7, <1>8, <1>9, OrderLeaves

LEMMA OrderStops ==
    ASSUME TypeOK, FrontInv, OrderInv, NEW a \in Instances, Stops(a) PROVE QueueInv'
<1>0. PICK d, s : d = Msg("stop", a) /\ s = <<d>>
  OBVIOUS
<1>1. /\ s \in Seq(Messages) /\ Grows(s) /\ UNCHANGED <<stack, front, served, slot>>
      /\ front # 0 /\ front = Top
  BY <1>0 DEF Stops, bindingVars
<1>2. d \in Messages /\ d.m = "stop" /\ d.a = a
  BY <1>0, MessageTypes, MessageFields
<1>3. \A S : NoneIn(s, S) <=> d \notin S
  BY <1>0, ShortQueues
<1>4. \A x : NoneIn(s, {Msg("launch", x)}) /\ NoneIn(s, Shows(x))
  BY <1>2, <1>3, KindOf
<1>5. ASSUME NEW x \in Instances PROVE NoneIn(main, {Msg("launch", x)})
  <2>1. {Msg("launch", x)} \subseteq Showing
    BY MessageTypes, MessageFields DEF Showing
  <2> QED
    BY <1>1, <2>1, OrderSettles, NoneInLess DEF NothingShows
<1> QED
  BY <1>1, <1>4, <1>5, OrderLeaves

LEMMA QueueStays == TypeOK /\ FrontInv /\ OrderInv /\ [Next]_vars => QueueInv'
<1> SUFFICES ASSUME TypeOK, FrontInv, OrderInv, [Next]_vars PROVE QueueInv'
  OBVIOUS
<1>1. TypeOK' /\ FrontInv'
  BY TypeStep, FrontStep
<1> QED
  BY <1>1, StepKinds, OrderVoice, OrderTurn, OrderOpens, OrderVanishes, OrderReturns, OrderStops,
     OrderRenews

\* A call to finish an activity is about one that exists.
LEMMA StrangerUncalled ==
    ASSUME TypeOK, OrderInv, NEW b \in Instances \ Created PROVE Uncalled(b)
<1>1. FinishOf(b) \in Strangers
  BY CallTypes, CallNames DEF Strangers
<1>2. NoneIn(sys, {FinishOf(b)})
  BY <1>1, NoneInLess DEF OrderInv, Existing
<1> QED
  BY <1>2 DEF OrderInv, Existing, Uncalled

LEMMA LaunchStep ==
    ASSUME TypeOK, FrontInv, OrderInv, [Next]_vars, NEW x \in Instances,
           ~NoneIn(main', {Msg("launch", x)})
    PROVE  ~NoneIn(main, {Msg("launch", x)}) \/ Opens(x)
<1>1. PICK l : l = Msg("launch", x)
  OBVIOUS
<1>2. l \in Messages /\ l.m = "launch" /\ l.a = x
  BY <1>1, MessageTypes, MessageFields
<1>3. ASSUME NEW s \in Seq(Messages), Grows(s) \/ Runs(s), NoneIn(s, {l})
      PROVE  ~NoneIn(main, {l})
  BY <1>1, <1>3, QueueStep
<1>4. ASSUME NEW k \in {"stop", "destroy", "restart", "resume"}, NEW a PROVE Msg(k, a) # l
  BY <1>2, <1>4, MessageFields
<1>5. ASSUME NEW s \in Seq(Messages), Voice(s) PROVE ~NoneIn(main, {l})
  <2>1. {l} \subseteq Own \union Later
    BY <1>2, EventNames, KindOf
  <2> QED
    BY <1>3, <1>5, <2>1, NoneInLess DEF Voice
<1>6. ASSUME NEW s \in Seq(Messages), Turn(s) PROVE ~NoneIn(main, {l})
  <2>1. {l} \subseteq Moves \union Later
    BY <1>2 DEF Moves
  <2> QED
    BY <1>3, <1>6, <2>1, NoneInLess DEF Turn
<1>7. ASSUME NEW b \in Instances, Opens(b), b # x PROVE ~NoneIn(main, {l})
  <2>1. NoneIn(<<Msg("launch", b)>>, {l})
    BY <1>2, <1>7, MessageFields, ShortQueues
  <2> QED
    BY <1>3, <1>7, <2>1 DEF Opens
<1>8. ASSUME NEW a \in Instances, Vanishes(a) PROVE ~NoneIn(main, {l})
  <2>1. NoneIn(<<Msg("destroy", a)>>, {l})
    BY <1>4, ShortQueues
  <2> QED
    BY <1>3, <1>8, <2>1 DEF Vanishes, Leaving
<1>9. ASSUME NEW b \in Instances, Returns(b) PROVE ~NoneIn(main, {l})
  <2>1. NoneIn(<<Msg(IF b \in stopped THEN "restart" ELSE "resume", b), Msg("destroy", Top)>>, {l})
    BY <1>4, ShortQueues
  <2> QED
    BY <1>3, <1>9, <2>1 DEF Returns, Leaving
<1>10. ASSUME NEW a \in Instances, Stops(a) PROVE ~NoneIn(main, {l})
  <2>1. NoneIn(<<Msg("stop", a)>>, {l})
    BY <1>4, ShortQueues
  <2> QED
    BY <1>3, <1>10, <2>1 DEF Stops
<1>11. ASSUME NEW s \in Seq(Messages), Renews(s) PROVE ~NoneIn(main, {l})
  BY <1>1, <1>3, <1>11, RenewsAdds
<1> QED
  BY <1>1, <1>5, <1>6, <1>7, <1>8, <1>9, <1>10, <1>11, StepKinds

LEMMA OrderStep == TypeOK /\ FrontInv /\ OrderInv /\ [Next]_vars => OrderInv'
<1> SUFFICES ASSUME TypeOK, FrontInv, OrderInv, [Next]_vars PROVE OrderInv'
  OBVIOUS
<1>1. QueueInv' /\ Existing'
  BY QueueStays, ExistingStep
<1>2. ASSUME NEW x \in Instances, ~NoneIn(main', {Msg("launch", x)}) PROVE Uncalled(x)'
  <2>1. CASE Opens(x)
    <3>1. Uncalled(x)
      BY <2>1, StrangerUncalled DEF Opens
    <3>2. sys # <<>> /\ sys' = Tail(sys) /\ closing' = closing
      BY <2>1 DEF Opens, buttonVars
    <3> QED
      BY <3>1, <3>2, CallsShorter DEF Uncalled
  <2> QED
    BY <1>2, <2>1, LaunchStep, UncalledStays
<1>3. Unlaunched'
  BY <1>1, <1>2 DEF QueueInv, Unlaunched
<1> QED
  BY <1>1, <1>3 DEF QueueInv, OrderInv

LEMMA InitOrder == Init => OrderInv
<1> SUFFICES ASSUME Init PROVE OrderInv
  OBVIOUS
<1>1. /\ main = <<>> /\ stack = <<>> /\ sys = <<>> /\ screens = <<>> /\ closing = {} /\ stopped = {}
      /\ served = {} /\ slot = 0
  BY DEF Init
<1>2. /\ Len(stack) = 0 /\ (\A S : NoneIn(main, S) /\ NoneIn(sys, S)) /\ \A x, y : ~Under(stack, x, y)
      /\ \A x : ~On(stack, x)
  BY <1>1, EmptySeq, ShortQueues DEF Under, On
<1>3. Existing
  BY <1>1, <1>2 DEF Existing
<1> QED
  BY <1>2, <1>3 DEF OrderInv, Unlaunched, LaunchFirst, ShownOnce

LEMMA FrontAndOrder == Spec => [](FrontInv /\ OrderInv)
<1>1. Init => FrontInv /\ OrderInv
  BY InitFront, InitOrder
<1>2. TypeOK /\ FrontInv /\ OrderInv /\ [Next]_vars => FrontInv' /\ OrderInv'
  BY FrontStep, OrderStep
<1> QED
  BY <1>1, <1>2, AppTyped, PTL DEF Spec

\* Screens appear in the order of the stack: a covered one is not shown before the
\* one above it, and each is shown once.
THEOREM ScreensAppearInOrder == Spec => []OrderInv
BY FrontAndOrder, PTL

\* The activity that is at the top of the stack is in front, or the last that
\* main shows.
THEOREM TopIsShown == Spec => []FrontInv
BY FrontAndOrder, PTL

\* When nothing is under way the screen in front is the listener, unless it came
\* back before it was stopped.
THEOREM FrontIsTheListener == Spec => []FrontHasTheSlot
BY TopIsShown, AppTyped, FrontInvSuffices, PTL

-----------------------------------------------------------------------------
(* What the user and the answers ask of the system *)

\* The calls that only a touch of the screen in front makes.
ByUser == {c \in Calls : c # Open("FriendList") /\ ~(c.op = "finish" /\ Entrance(c.what))}

\* The user waits for one call before the next; an answer may come behind it.
OneCommand == Apart(sys, Calls, ByUser) /\ \A c \in ByUser : NoneIn(sys, {c}) \/ Meant(c)

\* A login is at the bottom of the stack and a registration right above one, a
\* screen about the program over the friend list; the screen at the top runs.
Layers ==
    /\ \A x, y \in Instances :
           Under(stack, x, y) /\ Entrance(y) => Is(x, "Login") /\ Is(y, "Register")
    /\ \A y \in Instances :
           On(stack, y) /\ Is(y, "About") =>
               \E x \in Instances : Under(stack, x, y) /\ Is(x, "FriendList")
    /\ stack # <<>> => Top \notin stopped

\* Only screens that asked hear that they were accepted.
Answered ==
    /\ \A a \in closing : Is(a, "Register")
    /\ \A a \in Instances : ~Is(a, "Register") => NoneIn(main, {Msg("registered", a)})
    /\ \A a \in Instances : ~Is(a, "Login") => NoneIn(main, {Msg("loginOk", a)})

\* A friend list or a chat that was closed is not shown again.
Closed == \A x \in Instances : Inside(x) /\ ~On(stack, x) => NoneIn(main, Shows(x))

StackInv == OneCommand /\ Layers /\ Answered /\ Closed

LEMMA KindsOf ==
    TypeOK => /\ \A x, one, other : Is(x, one) /\ Is(x, other) => one = other
              /\ \A x, activity : Is(x, activity) => x \in Created /\ x \in Instances
              /\ \A x \in Created : \E activity \in Activities : Is(x, activity)
<1> SUFFICES ASSUME TypeOK
             PROVE  /\ \A x, one, other : Is(x, one) /\ Is(x, other) => one = other
                    /\ \A x, activity : Is(x, activity) => x \in Created /\ x \in Instances
                    /\ \A x \in Created : \E activity \in Activities : Is(x, activity)
  OBVIOUS
<1>1. Created \subseteq Instances
  BY LenProperties, AppAssumption DEF Created, Instances, TypeOK
<1>2. \A x \in Created : screens[x] \in Activities
  BY ElementOfSeq DEF Created, TypeOK
<1> QED
  BY <1>1, <1>2 DEF Is, Created

LEMMA KindStays ==
    ASSUME TypeOK, FrontInv, [Next]_vars
    PROVE  /\ \A x \in Created : \A activity : Is(x, activity)' <=> Is(x, activity)
           /\ \A x, activity : Is(x, activity) => Is(x, activity)'
           /\ \A x, activity : Is(x, activity)' => Is(x, activity) \/ Opens(x)
<1>1. \A x, activity : Is(x, activity) => x \in Created
  BY KindsOf
<1>2. ASSUME UNCHANGED screens PROVE \A x, activity : Is(x, activity)' <=> Is(x, activity)
  BY <1>2 DEF Is
<1>3. CASE UNCHANGED screens
  BY <1>2, <1>3
<1>4. ASSUME NEW b \in Instances, Opens(b)
      PROVE  /\ \A x \in Created : \A activity : Is(x, activity)' <=> Is(x, activity)
             /\ \A x, activity : Is(x, activity)' => x \in Created \/ x = b
  <2>1. TypeOK'
    BY TypeStep
  <2>2. (TypeOK => /\ \A x, one, other : Is(x, one) /\ Is(x, other) => one = other
                   /\ \A x, activity : Is(x, activity) => x \in Created /\ x \in Instances
                   /\ \A x \in Created : \E activity \in Activities : Is(x, activity))'
    BY KindsOf, PTL
  <2>3. Created' = Created \union {b}
    BY <1>4 DEF Opens
  <2> QED
    BY <1>4, <2>1, <2>2, <2>3 DEF Opens
<1> QED
  BY <1>1, <1>3, <1>4, StepKinds DEF Voice, Turn, Vanishes, Returns, Leaving, Stops, Renews

\* The screen at the top that is in front stays there until the system moves it.
LEMMA FrontStays ==
    ASSUME TypeOK, FrontInv, OrderInv, NEW s \in Seq(Messages), Turn(s), front # 0, front = Top
    PROVE  front' = front
<1>1. PICK h : h = Head(main)
  OBVIOUS
<1>2. main # <<>> /\ h \in Messages
  BY <1>1, HeadNone DEF Turn, Runs
<1>3. h \notin Showing
  BY <1>1, <1>2, OrderSettles, HeadNone DEF NothingShows
<1>4. On(stack, front) /\ front \in Instances
  BY FrontTop, TopType
<1>5. h # Msg("destroy", front)
  BY <1>1, <1>2, <1>4, HeadNone DEF FrontInv, Gone
<1> QED
  BY <1>1, <1>3, <1>5 DEF Turn

LEMMA MeantStays ==
    ASSUME TypeOK, FrontInv, OrderInv, [Next]_vars, ~(sys # <<>> /\ sys' = Tail(sys)), NEW c, Meant(c)
    PROVE  Meant(c)'
<1>1. stack # <<>> => Top # 0
  BY TopType DEF Instances
<1>2. ASSUME UNCHANGED <<screens, stack>>, front' = front \/ stack = <<>> PROVE Meant(c)'
  BY <1>2 DEF Meant, Top, Is
<1>3. ASSUME NEW s \in Seq(Messages), Turn(s) PROVE Meant(c)'
  <2>1. front = Top /\ stack # <<>> => front' = front
    BY <1>1, <1>3, FrontStays
  <2>2. UNCHANGED <<screens, stack>>
    BY <1>3 DEF Turn
  <2>3. stack = <<>> \/ front = Top
    BY DEF Meant
  <2> QED
    BY <1>2, <2>1, <2>2, <2>3
<1>4. ASSUME NEW s \in Seq(Messages), Voice(s) PROVE Meant(c)'
  BY <1>2, <1>4 DEF Voice
<1>5. ASSUME NEW a \in Instances, Stops(a) PROVE Meant(c)'
  BY <1>2, <1>5 DEF Stops
<1>6. ASSUME NEW s \in Seq(Messages), Renews(s) PROVE Meant(c)'
  BY <1>2, <1>6 DEF Renews
<1> QED
  BY <1>3, <1>4, <1>5, <1>6, StepKinds DEF Opens, Vanishes, Returns, Leaving

LEMMA ByUserLess ==
    ASSUME TypeOK, FrontInv, [Next]_vars PROVE ByUser' \subseteq ByUser
BY KindStays DEF ByUser, Entrance

LEMMA CallsStep ==
    ASSUME TypeOK, FrontInv, OrderInv, OneCommand, Answered, [Next]_vars PROVE OneCommand'
<1>0. ByUser' \subseteq ByUser /\ ByUser \subseteq Calls /\ sys \in Seq(Calls)
  BY ByUserLess DEF ByUser, TypeOK
<1>1. Apart(sys, Calls, ByUser) /\ \A c \in ByUser : NoneIn(sys, {c}) \/ Meant(c)
  BY DEF OneCommand
<1>2. CASE sys # <<>> /\ sys' = Tail(sys)
  <2>1. Head(sys) \in Calls /\ NoneIn(Tail(sys), ByUser)
    BY <1>0, <1>1, <1>2, OrderShorter
  <2>2. NoneIn(sys', ByUser') /\ \A c \in ByUser' : NoneIn(sys', {c})
    BY <1>0, <1>2, <2>1, NoneInLess
  <2> QED
    BY <2>2, NoneApart DEF OneCommand
<1>4. ASSUME ~(sys # <<>> /\ sys' = Tail(sys)), NEW s \in Seq(Calls), sys' = sys \o s, NoneIn(s, ByUser)
      PROVE  OneCommand'
  <2>1. Apart(s, Calls, ByUser)
    BY <1>4, NoneApart
  <2>2. Apart(sys', Calls, ByUser)
    BY <1>0, <1>1, <1>4, <2>1, OrderLonger
  <2>3. Apart(sys', Calls, ByUser')
    BY <1>0, <2>2, ApartLess
  <2>4. ASSUME NEW c \in ByUser' PROVE NoneIn(sys', {c}) \/ Meant(c)'
    <3>1. c \in ByUser /\ NoneIn(s, {c})
      BY <1>0, <1>4, <2>4, NoneInLess
    <3>2. NoneIn(sys, {c}) => NoneIn(sys', {c})
      BY <1>4, <3>1, CallsLonger
    <3> QED
      BY <1>1, <1>4, <3>1, <3>2, MeantStays
  <2> QED
    BY <2>3, <2>4 DEF OneCommand
<1>5. CASE UNCHANGED sys
  <2>1. <<>> \in Seq(Calls) /\ sys' = sys \o <<>> /\ NoneIn(<<>>, ByUser)
    BY <1>0, <1>5, EmptySeq, ConcatEmptySeq, ShortQueues
  <2> QED
    BY <1>2, <1>4, <2>1
<1>6. ASSUME NEW c \in Calls, Commands(c) PROVE OneCommand'
  <2>1. sys = <<>> /\ sys' = <<c>> /\ Meant(c)
    BY <1>6 DEF Commands
  <2>2. Meant(c)'
    BY <2>1, MeantStays
  <2>3. Apart(<<c>>, Calls, ByUser') /\ \A d \in ByUser' : d = c \/ NoneIn(<<c>>, {d})
    BY ShortOrders, ShortQueues
  <2> QED
    BY <2>1, <2>2, <2>3 DEF OneCommand
<1>7. ASSUME NEW a \in Instances, Admits(a) PROVE OneCommand'
  <2>1. PICK s : s = <<Open("FriendList"), FinishOf(a)>>
    OBVIOUS
  <2>2. Is(a, "Login")
    BY <1>7, HeadNone DEF Admits, Answered
  <2>3. s \in Seq(Calls) /\ NoneIn(s, ByUser)
    <3>1. Open("FriendList") \notin ByUser /\ FinishOf(a) \notin ByUser
      BY <2>2, CallNames DEF ByUser, Entrance
    <3> QED
      BY <2>1, <3>1, CallTypes, ShortQueues DEF Activities
  <2>4. sys' = sys \o s
    BY <1>7, <2>1 DEF Admits
  <2> QED
    BY <1>2, <1>4, <2>3, <2>4
<1>8. ASSUME NEW a \in Instances, Registers(a) PROVE OneCommand'
  BY <1>5, <1>8 DEF Registers
<1>9. ASSUME NEW a \in Instances, DelayedFinish(a) PROVE OneCommand'
  <2>1. Is(a, "Register") /\ sys' = Append(sys, FinishOf(a))
    BY <1>9 DEF DelayedFinish, Answered
  <2>2. FinishOf(a) \notin ByUser
    BY <2>1, CallNames DEF ByUser, Entrance
  <2>3. <<FinishOf(a)>> \in Seq(Calls) /\ NoneIn(<<FinishOf(a)>>, ByUser)
    BY <2>2, CallTypes, ShortQueues
  <2>4. sys' = sys \o <<FinishOf(a)>>
    BY <1>0, <2>1, CallTypes, AppendIsConcat
  <2> QED
    BY <1>2, <1>4, <2>3, <2>4
<1> QED
  BY <1>2, <1>5, <1>6, <1>7, <1>8, <1>9, CallKinds

\* A friend list, a chat or a screen about the program is closed by its user.
LEMMA UserFinish ==
    ASSUME TypeOK, OneCommand, NEW a \in Instances, sys # <<>>, Head(sys) = FinishOf(a), ~Entrance(a)
    PROVE  stack # <<>> /\ front = Top /\ a = Top
<1>1. PICK c : c = FinishOf(a)
  OBVIOUS
<1>2. /\ c \in ByUser /\ c # Open("Login") /\ c.op = "finish" /\ c.what = a
  BY <1>1, CallTypes, CallNames DEF ByUser
<1>3. ~NoneIn(sys, {c})
  BY <1>1, CallsShorter
<1>4. Meant(c)
  BY <1>2, <1>3 DEF OneCommand
<1> QED
  BY <1>2, <1>4 DEF Meant

LEMMA UserOpens ==
    ASSUME TypeOK, OneCommand, sys # <<>>, NEW activity \in Activities \ {"FriendList"},
           Head(sys) = Open(activity)
    PROVE  Meant(Open(activity))
<1>1. PICK c : c = Open(activity)
  OBVIOUS
<1>2. c \in ByUser
  BY <1>1, CallTypes, CallNames DEF ByUser
<1>3. ~NoneIn(sys, {c})
  BY <1>1, CallsShorter
<1> QED
  BY <1>1, <1>2, <1>3 DEF OneCommand

LEMMA LayersOpens ==
    ASSUME TypeOK, FrontInv, OrderInv, OneCommand, Layers, [Next]_vars, NEW b \in Instances, Opens(b)
    PROVE  Layers'
<1>1. /\ sys # <<>> /\ stack' # <<>> /\ Top' = b /\ stopped' = stopped /\ b \notin Created
      /\ \A x : On(stack, x) => x \in Created
      /\ \A x : On(stack', x) <=> On(stack, x) \/ x = b
      /\ \A x, y : Under(stack', x, y) <=> Under(stack, x, y) \/ (On(stack, x) /\ y = b)
      /\ \A activity : Is(b, activity)' <=> Head(sys) = Open(activity)
  BY DEF Opens
<1>2. \A x \in Created : \A activity : Is(x, activity)' <=> Is(x, activity)
  BY KindStays
<1>3. ASSUME NEW activity \in Activities \ {"FriendList"}, Is(b, activity)'
      PROVE  Meant(Open(activity))
  BY <1>1, <1>3, UserOpens
<1>4. {"Login", "Register", "About"} \subseteq Activities \ {"FriendList"}
  BY DEF Activities
<1>5. \A x, y : Under(stack, x, y) => On(stack, x) /\ On(stack, y)
  BY UnderStack DEF FrontInv
<1>6. ASSUME NEW x \in Instances, NEW y \in Instances, Under(stack', x, y), Entrance(y)'
      PROVE  Is(x, "Login")' /\ Is(y, "Register")'
  <2>1. CASE Under(stack, x, y)
    <3>1. x \in Created /\ y \in Created
      BY <1>1, <1>5, <2>1
    <3> QED
      BY <1>2, <1>6, <2>1, <3>1 DEF Layers, Entrance
  <2>2. CASE On(stack, x) /\ y = b
    <3>1. stack # <<>> /\ (x = Top \/ Under(stack, x, Top)) /\ x \in Created
      BY <2>2, OnStack DEF FrontInv
    <3>2. ~Is(b, "Login")'
      <4>1. Is(b, "Login")' => Meant(Open("Login"))
        BY <1>3, <1>4
      <4> QED
        BY <3>1, <4>1 DEF Meant
    <3>3. Is(b, "Register")'
      BY <1>6, <2>2, <3>2 DEF Entrance
    <3>4. Is(Top, "Login")
      <4>1. Meant(Open("Register"))
        BY <1>3, <1>4, <3>3
      <4>2. Open("Register") # Open("Login")
        BY CallNames
      <4> QED
        BY <4>1, <4>2 DEF Meant
    <3>5. ~Under(stack, x, Top)
      <4>1. ~Is(Top, "Register")
        BY <3>4, KindsOf
      <4> QED
        BY <3>1, <3>4, <4>1, TopType DEF Layers, Entrance
    <3> QED
      BY <1>2, <2>2, <3>1, <3>3, <3>4, <3>5
  <2> QED
    BY <1>1, <1>6, <2>1, <2>2
<1>7. ASSUME NEW y \in Instances, On(stack', y), Is(y, "About")'
      PROVE  \E x \in Instances : Under(stack', x, y) /\ Is(x, "FriendList")'
  <2>1. CASE On(stack, y)
    <3>1. y \in Created
      BY <1>1, <2>1
    <3>2. PICK x \in Instances : Under(stack, x, y) /\ Is(x, "FriendList")
      BY <1>2, <1>7, <2>1, <3>1 DEF Layers
    <3> QED
      BY <1>1, <1>2, <1>5, <3>2
  <2>2. CASE y = b
    <3>1. Meant(Open("About"))
      BY <1>3, <1>4, <1>7, <2>2
    <3>2. Open("About") # Open("Login")
      BY CallNames
    <3>3. stack # <<>> /\ Is(Top, "FriendList")
      BY <3>1, <3>2 DEF Meant
    <3>4. Top \in Instances /\ On(stack, Top) /\ Top \in Created
      BY <1>1, <3>3, TopType
    <3>5. \A x : x = Top => Is(x, "FriendList")' /\ Under(stack', x, b)
      BY <1>1, <1>2, <3>3, <3>4
    <3> QED
      BY <2>2, <3>4, <3>5
  <2> QED
    BY <1>1, <1>7, <2>1, <2>2
<1>8. Top' \notin stopped'
  BY <1>1 DEF OrderInv, Existing
<1> QED
  BY <1>6, <1>7, <1>8 DEF Layers

LEMMA LayersLeave ==
    ASSUME TypeOK, FrontInv, OneCommand, Layers, NEW a \in Instances, NEW s, Leaving(a, s),
           stack' # <<>> => Top' \notin stopped'
    PROVE  Layers'
<1>1. /\ sys # <<>> /\ Head(sys) = FinishOf(a)
      /\ \A x : On(stack', x) <=> On(stack, x) /\ x # a
      /\ \A x, y : Under(stack', x, y) <=> Under(stack, x, y) /\ x # a /\ y # a
      /\ screens' = screens
  BY DEF Leaving
<1>2. \A x, activity : Is(x, activity)' <=> Is(x, activity)
  BY <1>1 DEF Is
<1>3. ASSUME NEW x, NEW y, Under(stack, x, y), Is(x, "FriendList") PROVE x # a
  <2>1. ~Entrance(x)
    BY <1>3, KindsOf DEF Entrance
  <2>2. x # Top
    BY <1>3, UnderStack DEF FrontInv
  <2> QED
    BY <1>1, <2>1, <2>2, UserFinish
<1>4. \A y \in Instances : On(stack', y) /\ Is(y, "About")' =>
               \E x \in Instances : Under(stack', x, y) /\ Is(x, "FriendList")'
  BY <1>1, <1>2, <1>3 DEF Layers
<1>5. \A x, y \in Instances : Under(stack', x, y) /\ Entrance(y)' => Is(x, "Login")' /\ Is(y, "Register")'
  BY <1>1, <1>2 DEF Layers, Entrance
<1> QED
  BY <1>4, <1>5 DEF Layers

LEMMA LayersStep ==
    ASSUME TypeOK, FrontInv, OrderInv, OneCommand, Layers, [Next]_vars PROVE Layers'
<1>1. ASSUME UNCHANGED <<screens, stack>>, stack # <<>> => Top \notin stopped' PROVE Layers'
  BY <1>1 DEF Layers, Top, Is, Entrance
<1>2. ASSUME NEW s \in Seq(Messages), Voice(s) \/ Turn(s) \/ Renews(s) PROVE Layers'
  BY <1>1, <1>2 DEF Layers, Voice, Turn, Renews
<1>3. ASSUME NEW a \in Instances, Stops(a) PROVE Layers'
  BY <1>1, <1>3 DEF Layers, Stops
<1>4. ASSUME NEW a \in Instances, Vanishes(a) PROVE Layers'
  BY <1>4, LayersLeave DEF Layers, Vanishes, Leaving
<1>5. ASSUME NEW b \in Instances, Returns(b) PROVE Layers'
  <2>1. PICK t : t = Top
    OBVIOUS
  <2>2. Leaving(t, <<Msg(IF b \in stopped THEN "restart" ELSE "resume", b), Msg("destroy", t)>>)
    BY <1>5, <2>1 DEF Returns
  <2>3. t \in Instances /\ Top' \notin stopped'
    BY <1>5, <2>2 DEF Returns, Leaving
  <2> QED
    BY <2>2, <2>3, LayersLeave
<1> QED
  BY <1>2, <1>3, <1>4, <1>5, LayersOpens, StepKinds

LEMMA EventMessages == ASSUME NEW a \in Instances, NEW e \in Events PROVE Msg(e, a) \in Messages
BY DEF Msg, Messages

\* What is added to the queue by any step.
LEMMA Added ==
    ASSUME TypeOK, FrontInv, [Next]_vars
    PROVE  \E s \in Seq(Messages) :
               /\ Grows(s) \/ Runs(s)
               /\ Voice(s) \/ NoneIn(s, Oks \union Registrations)
               /\ \A x \in Instances : NoneIn(s, Shows(x)) \/ On(stack', x)
<1>1. ASSUME NEW a, NEW k \in {"launch", "resume", "restart", "stop", "destroy"}
      PROVE  /\ Msg(k, a) \notin Oks \union Registrations
             /\ \A x : x # a => Msg(k, a) \notin Shows(x)
             /\ k \in {"stop", "destroy"} => \A x : Msg(k, a) \notin Shows(x)
  BY MessageFields DEF Oks, Registrations, Shows, Showing
<1>2. ASSUME NEW s \in Seq(Messages), Voice(s)
      PROVE  Grows(s) /\ \A x : NoneIn(s, Shows(x))
  <2>1. \A x : Shows(x) \subseteq Own \union Later
    BY OwnMessages DEF Shows
  <2> QED
    BY <1>2, <2>1, NoneInLess DEF Voice
<1>3. ASSUME NEW s \in Seq(Messages), Turn(s)
      PROVE  Runs(s) /\ NoneIn(s, Oks \union Registrations) /\ \A x : NoneIn(s, Shows(x))
  <2>1. \A x : Shows(x) \subseteq Moves \union Later
    BY DEF Shows, Showing, Moves
  <2> QED
    BY <1>3, <2>1, NoneInLess DEF Turn
<1>4. ASSUME NEW b \in Instances, Opens(b)
      PROVE  \E s \in Seq(Messages) :
                 /\ Grows(s) /\ NoneIn(s, Oks \union Registrations)
                 /\ \A x \in Instances : NoneIn(s, Shows(x)) \/ On(stack', x)
  <2>1. PICK s : s = <<Msg("launch", b)>>
    OBVIOUS
  <2>2. NoneIn(s, Oks \union Registrations) /\ \A x : x # b => NoneIn(s, Shows(x))
    BY <1>1, <2>1, ShortQueues
  <2> QED
    BY <1>4, <2>1, <2>2 DEF Opens
<1>5. ASSUME NEW a \in Instances, Vanishes(a)
      PROVE  \E s \in Seq(Messages) :
                 /\ Grows(s) /\ NoneIn(s, Oks \union Registrations)
                 /\ \A x \in Instances : NoneIn(s, Shows(x)) \/ On(stack', x)
  <2>1. PICK s : s = <<Msg("destroy", a)>>
    OBVIOUS
  <2>2. NoneIn(s, Oks \union Registrations) /\ \A x : NoneIn(s, Shows(x))
    BY <1>1, <2>1, ShortQueues
  <2> QED
    BY <1>5, <2>1, <2>2 DEF Vanishes, Leaving
<1>6. ASSUME NEW b \in Instances, Returns(b)
      PROVE  \E s \in Seq(Messages) :
                 /\ Grows(s) /\ NoneIn(s, Oks \union Registrations)
                 /\ \A x \in Instances : NoneIn(s, Shows(x)) \/ On(stack', x)
  <2>1. PICK k, t, s : /\ k = (IF b \in stopped THEN "restart" ELSE "resume") /\ t = Top
                       /\ s = <<Msg(k, b), Msg("destroy", t)>>
    OBVIOUS
  <2>2. NoneIn(s, Oks \union Registrations) /\ \A x : x # b => NoneIn(s, Shows(x))
    BY <1>1, <2>1, ShortQueues
  <2>3. s \in Seq(Messages) /\ Grows(s) /\ On(stack', b)
    BY <1>6, <2>1, UnderStack DEF Returns, Leaving, FrontInv
  <2> QED
    BY <2>2, <2>3
<1>7. ASSUME NEW a \in Instances, Stops(a)
      PROVE  \E s \in Seq(Messages) :
                 /\ Grows(s) /\ NoneIn(s, Oks \union Registrations)
                 /\ \A x \in Instances : NoneIn(s, Shows(x)) \/ On(stack', x)
  <2>1. PICK s : s = <<Msg("stop", a)>>
    OBVIOUS
  <2>2. NoneIn(s, Oks \union Registrations) /\ \A x : NoneIn(s, Shows(x))
    BY <1>1, <2>1, ShortQueues
  <2> QED
    BY <1>7, <2>1, <2>2 DEF Stops
<1>8. ASSUME NEW s \in Seq(Messages), Renews(s)
      PROVE  Grows(s) /\ NoneIn(s, Oks \union Registrations) /\ \A x \in Instances : NoneIn(s, Shows(x))
  BY <1>8, RenewsAdds DEF Renews
<1> QED
  BY <1>2, <1>3, <1>4, <1>5, <1>6, <1>7, <1>8, StepKinds

LEMMA AnsweredStep ==
    ASSUME TypeOK, FrontInv, Answered, [Next]_vars PROVE Answered'
<1>1. PICK s \in Seq(Messages) :
          (Grows(s) \/ Runs(s)) /\ (Voice(s) \/ NoneIn(s, Oks \union Registrations))
  BY Added
<1>2. \A x, activity : Is(x, activity) => Is(x, activity)'
  BY KindStays
<1>3. ASSUME NEW a \in Instances
      PROVE  /\ Is(a, "Register") \/ NoneIn(s, {Msg("registered", a)})
             /\ Is(a, "Login") \/ NoneIn(s, {Msg("loginOk", a)})
  <2>1. /\ Msg("registered", a) \in Registrations /\ Msg("loginOk", a) \in Oks
        /\ slot # a => /\ Msg("registered", a) \in Messages \ About(slot)
                       /\ Msg("loginOk", a) \in Messages \ About(slot)
    BY EventMessages, EventNames, MessageFields DEF Registrations, Oks, About
  <2>2. NoneIn(s, Registrations) => NoneIn(s, {Msg("registered", a)})
    BY <2>1, NoneInLess
  <2>3. NoneIn(s, Oks) => NoneIn(s, {Msg("loginOk", a)})
    BY <2>1, NoneInLess
  <2>4. CASE NoneIn(s, Oks \union Registrations)
    BY <2>2, <2>3, <2>4, NoneInLess
  <2>5. CASE Voice(s) /\ slot # a
    <3>1. NoneIn(s, Messages \ About(slot))
      BY <2>5 DEF Voice
    <3> QED
      BY <2>1, <2>5, <3>1, NoneInLess
  <2>6. CASE Voice(s) /\ slot = a
    <3>1. Fit(s)
      BY <2>6 DEF Voice
    <3> QED
      BY <2>2, <2>3, <2>4, <2>6, <3>1 DEF Fit
  <2> QED
    BY <1>1, <2>4, <2>5, <2>6
<1>4. ASSUME NEW a \in Instances
      PROVE  /\ ~Is(a, "Register")' => NoneIn(main', {Msg("registered", a)})
             /\ ~Is(a, "Login")' => NoneIn(main', {Msg("loginOk", a)})
  BY <1>1, <1>2, <1>3, QueueNone DEF Answered
<1>5. \A a \in closing' : Is(a, "Register")'
  <2>1. ASSUME NEW a \in Instances, Registers(a) PROVE Is(a, "Register")
    BY <2>1, HeadNone DEF Registers, Answered
  <2>2. \A a \in closing' : Is(a, "Register")
    BY <2>1, CallKinds DEF Answered, Commands, Admits, Registers, DelayedFinish, buttonVars
  <2> QED
    BY <1>2, <2>2
<1> QED
  BY <1>4, <1>5 DEF Answered

LEMMA ClosedStep ==
    ASSUME TypeOK, FrontInv, OrderInv, OneCommand, Closed, [Next]_vars PROVE Closed'
<1>1. PICK s \in Seq(Messages) :
          (Grows(s) \/ Runs(s)) /\ \A x \in Instances : NoneIn(s, Shows(x)) \/ On(stack', x)
  BY Added
<1> SUFFICES ASSUME NEW x \in Instances, Inside(x)', ~On(stack', x) PROVE NoneIn(main', Shows(x))
  BY DEF Closed
<1>2. Inside(x)
  <2>1. ~Opens(x)
    BY DEF Opens
  <2> QED
    BY <2>1, KindStays DEF Inside
<1>3. ~Entrance(x)
  BY <1>2, KindsOf DEF Inside, Entrance
<1>4. ASSUME On(stack, x) PROVE NoneIn(main, Shows(x))
  <2>1. sys # <<>> /\ Head(sys) = FinishOf(x)
    <3>1. ASSUME NEW a \in Instances, NEW q, Leaving(a, q) PROVE sys # <<>> /\ Head(sys) = FinishOf(x)
      BY <1>4, <3>1 DEF Leaving
    <3>2. ASSUME NEW b \in Instances, Returns(b) PROVE sys # <<>> /\ Head(sys) = FinishOf(x)
      <4>1. PICK t : t = Top
        OBVIOUS
      <4>2. Leaving(t, <<Msg(IF b \in stopped THEN "restart" ELSE "resume", b), Msg("destroy", t)>>)
        BY <3>2, <4>1 DEF Returns
      <4>3. t \in Instances
        BY <4>2 DEF Leaving
      <4> QED
        BY <3>1, <4>2, <4>3
    <3> QED
      BY <1>4, <3>1, <3>2, StepKinds DEF Voice, Turn, Opens, Vanishes, Stops, Renews
  <2>2. front = x
    BY <1>3, <2>1, UserFinish
  <2> QED
    BY <1>4, <2>2 DEF OrderInv, ShownOnce
<1>5. NoneIn(main, Shows(x))
  BY <1>2, <1>4 DEF Closed
<1> QED
  BY <1>1, <1>5, QueueNone

LEMMA StackStep == TypeOK /\ FrontInv /\ OrderInv /\ StackInv /\ [Next]_vars => StackInv'
BY CallsStep, LayersStep, AnsweredStep, ClosedStep DEF StackInv

LEMMA InitStack == Init => StackInv
<1> SUFFICES ASSUME Init PROVE StackInv
  OBVIOUS
<1>1. main = <<>> /\ stack = <<>> /\ sys = <<>> /\ closing = {}
  BY DEF Init
<1>2. /\ \A S : NoneIn(main, S) /\ NoneIn(sys, S) /\ \A A : Apart(sys, A, S)
      /\ (\A x : ~On(stack, x)) /\ \A x, y : ~Under(stack, x, y)
  BY <1>1, EmptySeq, ShortQueues, ShortOrders DEF On, Under
<1> QED
  BY <1>1, <1>2 DEF StackInv, OneCommand, Layers, Answered, Closed

\* A touch makes one call, which meets the stack that it was meant for; a login is
\* the lowest screen and a registration is right above one; answers reach the kind
\* of screen that asked, and only a registration closes itself.
THEOREM StackIsKept == Spec => []StackInv
BY InitStack, StackStep, AppTyped, TopIsShown, ScreensAppearInOrder, PTL DEF Spec

-----------------------------------------------------------------------------
(* Who is bound to the service *)

\* Activity x is bound when main has been run, if nothing is put there before.
AtEnd(x) == (x \in clients /\ NoneIn(main, Frees(x))) \/ LastIn(main, Takes(x), Frees(x))

\* A screen that the system lets run is bound in the end.
Running == \A x \in Instances : On(stack, x) /\ x \notin stopped /\ Binds(x) => AtEnd(x)

\* The screen in front is bound.
FrontBound == front # 0 /\ Binds(front) => front \in clients

\* A screen that comes back without its onStart has kept its binding.
Resumed ==
    \A x \in Instances :
        Binds(x) => /\ NoneIn(main, {Msg("resume", x)}) \/ x \in clients
                    /\ Apart(main, Frees(x), {Msg("resume", x)})

\* A screen is not stopped after it is shown, unless it was covered since.
Unstopped ==
    \A x \in Instances : /\ front = x => NoneIn(main, {Msg("stop", x)})
                         /\ Apart(main, Shows(x), {Msg("stop", x)})

ClientsInv == Running /\ FrontBound /\ Resumed /\ Unstopped

LEMMA Binding ==
    ASSUME TypeOK, FrontInv, [Next]_vars
    PROVE  /\ \A x : Binds(x)' => Binds(x)
           /\ \A x \in Created : Binds(x)' <=> Binds(x)
           /\ (\A b \in Instances : ~Opens(b)) => \A x : Binds(x)' <=> Binds(x)
BY KindStays, KindsOf DEF Binds, Opens

\* The queue grows by messages that take nothing from activity x.
LEMMA AtEndGrows ==
    ASSUME TypeOK, NEW s \in Seq(Messages), Grows(s), NEW x, NoneIn(s, Frees(x)), AtEnd(x),
           x \in clients => x \in clients'
    PROVE  AtEnd(x)'
<1>1. ~Runs(s)
  BY GrowsOrRuns
<1> QED
  BY <1>1, QueueStep DEF AtEnd

\* A step that tells no activity to appear or to stop.
LEMMA ClientsQuiet ==
    ASSUME TypeOK, ClientsInv, NEW s \in Seq(Messages), Grows(s), NoneIn(s, Moves),
           UNCHANGED <<stack, stopped, front, clients>>, \A x : Binds(x)' <=> Binds(x)
    PROVE  ClientsInv'
<1>1. \A x \in Instances : /\ NoneIn(s, Frees(x)) /\ NoneIn(s, {Msg("resume", x)})
                           /\ NoneIn(s, {Msg("stop", x)})
  <2>1. \A x \in Instances : /\ Frees(x) \subseteq Moves /\ Msg("resume", x) \in Moves
                             /\ Msg("stop", x) \in Moves
    BY MessageTypes, MessageFields DEF Moves, Frees
  <2> QED
    BY <2>1, NoneInLess
<1>2. Running'
  BY <1>1, AtEndGrows DEF ClientsInv, Running
<1>3. FrontBound'
  BY DEF ClientsInv, FrontBound
<1>4. Resumed'
  BY <1>1, QueueNone, QueueOrder DEF ClientsInv, Resumed
<1>5. Unstopped'
  BY <1>1, QueueNone, QueueOrder DEF ClientsInv, Unstopped
<1> QED
  BY <1>2, <1>3, <1>4, <1>5 DEF ClientsInv

LEMMA ClientsVoice ==
    ASSUME TypeOK, ClientsInv, NEW s \in Seq(Messages), Voice(s), \A x : Binds(x)' <=> Binds(x)
    PROVE  ClientsInv'
<1>1. Moves \subseteq Own \union Later
  BY EventNames DEF Moves, Own
<1> QED
  BY <1>1, ClientsQuiet, NoneInLess DEF Voice

LEMMA ClientsTurn ==
    ASSUME TypeOK, FrontInv, ClientsInv, NEW s \in Seq(Messages), Turn(s), TypeOK',
           \A x : Binds(x)' <=> Binds(x)
    PROVE  ClientsInv'
<1>0. PICK h : h = Head(main)
  OBVIOUS
<1>1. /\ Runs(s) /\ NoneIn(s, Moves \union Later) /\ main # <<>> /\ h \in Messages
      /\ UNCHANGED <<stack, stopped>>
      /\ front' = IF h \in Showing THEN h.a
                  ELSE IF front # 0 /\ h = Msg("destroy", front) THEN 0 ELSE front
      /\ \A a \in Instances : /\ a \in clients /\ h \notin Frees(a) => a \in clients'
                              /\ h \in Takes(a) /\ Binds(a) => a \in clients'
  BY <1>0, HeadNone DEF Turn, Runs
<1>2. \A x \in Instances : /\ NoneIn(s, Frees(x)) /\ NoneIn(s, {Msg("resume", x)})
                           /\ NoneIn(s, {Msg("stop", x)})
  <2>1. \A x \in Instances : /\ Frees(x) \subseteq Moves \union Later
                             /\ Msg("resume", x) \in Moves /\ Msg("stop", x) \in Moves
    BY MessageTypes, MessageFields DEF Moves, Frees
  <2> QED
    BY <1>1, <2>1, NoneInLess
<1>3. Running'
  <2> SUFFICES ASSUME NEW x \in Instances, On(stack, x), x \notin stopped, Binds(x) PROVE AtEnd(x)'
    BY <1>1 DEF Running
  <2>1. AtEnd(x)
    BY DEF ClientsInv, Running
  <2>2. CASE x \in clients /\ NoneIn(main, Frees(x))
    <3>1. NoneIn(main', Frees(x)) /\ h \notin Frees(x)
      BY <1>0, <1>1, <1>2, <2>2, QueueNone
    <3> QED
      BY <1>1, <2>2, <3>1 DEF AtEnd
  <2>3. CASE LastIn(main, Takes(x), Frees(x))
    <3>1. LastIn(main', Takes(x), Frees(x)) \/ (h \in Takes(x) /\ NoneIn(main', Frees(x)))
      BY <1>0, <1>1, <1>2, <2>3, QueueRuns
    <3> QED
      BY <1>1, <3>1 DEF AtEnd
  <2> QED
    BY <2>1, <2>2, <2>3 DEF AtEnd
<1>4. FrontBound'
  <2> SUFFICES ASSUME front' # 0, Binds(front') PROVE front' \in clients'
    BY DEF FrontBound
  <2>0. PICK x : x = front'
    OBVIOUS
  <2>1. x \in Instances /\ x # 0 /\ Binds(x)
    BY <2>0 DEF TypeOK
  <2>2. CASE h \in Showing
    <3>1. h.a = x
      BY <1>1, <2>0, <2>2
    <3>2. CASE h \in Takes(x)
      BY <1>1, <2>0, <2>1, <3>2
    <3>3. CASE h \notin Takes(x)
      <4>1. h = Msg("resume", x) /\ h \notin Frees(x)
        BY <1>1, <2>2, <3>1, <3>3, KindOf
      <4>2. x \in clients
        BY <1>0, <1>1, <2>1, <4>1, HeadNone DEF ClientsInv, Resumed
      <4> QED
        BY <1>1, <2>0, <2>1, <4>1, <4>2
    <3> QED
      BY <3>2, <3>3
  <2>3. CASE h \notin Showing
    <3>1. front = x /\ h # Msg("destroy", x)
      BY <1>1, <2>0, <2>1, <2>3
    <3>2. h # Msg("stop", x)
      BY <1>0, <1>1, <2>1, <3>1, HeadNone DEF ClientsInv, Unstopped
    <3>3. x \in clients
      BY <2>1, <3>1 DEF ClientsInv, FrontBound
    <3> QED
      BY <1>1, <2>0, <2>1, <3>1, <3>2, <3>3 DEF Frees
  <2> QED
    BY <2>2, <2>3
<1>5. Resumed'
  <2> SUFFICES ASSUME NEW x \in Instances, Binds(x)
               PROVE  /\ NoneIn(main', {Msg("resume", x)}) \/ x \in clients'
                      /\ Apart(main', Frees(x), {Msg("resume", x)})
    BY DEF Resumed
  <2>1. /\ NoneIn(main, {Msg("resume", x)}) \/ x \in clients
        /\ Apart(main, Frees(x), {Msg("resume", x)})
    BY DEF ClientsInv, Resumed
  <2>2. Apart(main', Frees(x), {Msg("resume", x)})
    BY <1>1, <1>2, <2>1, QueueOrder
  <2>3. CASE h \in Frees(x)
    <3>1. NoneIn(main', {Msg("resume", x)})
      BY <1>0, <1>1, <1>2, <2>1, <2>3, QueueOrder
    <3> QED
      BY <2>2, <3>1
  <2>4. CASE h \notin Frees(x)
    <3>1. NoneIn(main, {Msg("resume", x)}) => NoneIn(main', {Msg("resume", x)})
      BY <1>1, <1>2, QueueNone
    <3> QED
      BY <1>1, <2>1, <2>2, <2>4, <3>1
  <2> QED
    BY <2>3, <2>4
<1>6. Unstopped'
  <2> SUFFICES ASSUME NEW x \in Instances
               PROVE  /\ front' = x => NoneIn(main', {Msg("stop", x)})
                      /\ Apart(main', Shows(x), {Msg("stop", x)})
    BY DEF Unstopped
  <2>1. /\ front = x => NoneIn(main, {Msg("stop", x)})
        /\ Apart(main, Shows(x), {Msg("stop", x)})
    BY DEF ClientsInv, Unstopped
  <2>2. Apart(main', Shows(x), {Msg("stop", x)})
    BY <1>1, <1>2, <2>1, QueueOrder
  <2>3. CASE front' = x /\ h \in Showing
    <3>1. h \in Shows(x)
      BY <1>1, <2>3 DEF Shows
    <3>2. NoneIn(main', {Msg("stop", x)})
      BY <1>0, <1>1, <1>2, <2>1, <3>1, QueueOrder
    <3> QED
      BY <2>2, <3>2
  <2>4. CASE front' = x /\ h \notin Showing
    <3>1. front = x
      <4>1. x # 0
        BY DEF Instances
      <4> QED
        BY <1>1, <2>4, <4>1
    <3>2. NoneIn(main', {Msg("stop", x)})
      BY <1>1, <1>2, <2>1, <3>1, QueueNone
    <3> QED
      BY <2>2, <3>2
  <2> QED
    BY <2>2, <2>3, <2>4
<1> QED
  BY <1>3, <1>4, <1>5, <1>6 DEF ClientsInv

\* A step that adds to the queue and leaves the screen in front where it is.
LEMMA ClientsGrow ==
    ASSUME TypeOK, ClientsInv, NEW s \in Seq(Messages), Grows(s), UNCHANGED <<front, clients>>,
           \A x : Binds(x)' => Binds(x), Running',
           \A x \in Instances : Binds(x) =>
               \/ NoneIn(s, {Msg("resume", x)})
               \/ /\ x \in clients /\ NoneIn(main, Frees(x))
                  /\ Apart(s, Frees(x), {Msg("resume", x)}),
           \A x \in Instances :
               \/ NoneIn(s, {Msg("stop", x)})
               \/ front # x /\ NoneIn(main, Shows(x)) /\ Apart(s, Shows(x), {Msg("stop", x)})
    PROVE  ClientsInv'
<1>1. FrontBound'
  BY DEF ClientsInv, FrontBound
<1>2. Resumed'
  <2> SUFFICES ASSUME NEW x \in Instances, Binds(x)
               PROVE  /\ NoneIn(main', {Msg("resume", x)}) \/ x \in clients
                      /\ Apart(main', Frees(x), {Msg("resume", x)})
    BY DEF Resumed
  <2>1. /\ NoneIn(main, {Msg("resume", x)}) \/ x \in clients
        /\ Apart(main, Frees(x), {Msg("resume", x)})
    BY DEF ClientsInv, Resumed
  <2>2. CASE NoneIn(s, {Msg("resume", x)})
    BY <2>1, <2>2, QueueNone, QueueOrder
  <2>3. CASE x \in clients /\ NoneIn(main, Frees(x)) /\ Apart(s, Frees(x), {Msg("resume", x)})
    BY <2>1, <2>3, QueueOrder
  <2> QED
    BY <2>2, <2>3
<1>3. Unstopped'
  <2> SUFFICES ASSUME NEW x \in Instances
               PROVE  /\ front = x => NoneIn(main', {Msg("stop", x)})
                      /\ Apart(main', Shows(x), {Msg("stop", x)})
    BY DEF Unstopped
  <2>1. /\ front = x => NoneIn(main, {Msg("stop", x)})
        /\ Apart(main, Shows(x), {Msg("stop", x)})
    BY DEF ClientsInv, Unstopped
  <2>2. CASE NoneIn(s, {Msg("stop", x)})
    BY <2>1, <2>2, QueueNone, QueueOrder
  <2>3. CASE front # x /\ NoneIn(main, Shows(x)) /\ Apart(s, Shows(x), {Msg("stop", x)})
    BY <2>1, <2>3, QueueOrder
  <2> QED
    BY <2>2, <2>3
<1> QED
  BY <1>1, <1>2, <1>3 DEF ClientsInv

LEMMA ClientsOpens ==
    ASSUME TypeOK, FrontInv, ClientsInv, [Next]_vars, NEW b \in Instances, Opens(b)
    PROVE  ClientsInv'
<1>0. PICK m, s : m = Msg("launch", b) /\ s = <<m>>
  OBVIOUS
<1>1. /\ s \in Seq(Messages) /\ Grows(s) /\ UNCHANGED <<front, clients, stopped>>
      /\ \A x : On(stack', x) <=> On(stack, x) \/ x = b
  BY <1>0 DEF Opens, bindingVars
<1>2. /\ m \in Takes(b) /\ \A x : m \notin Frees(x) /\ m # Msg("resume", x) /\ m # Msg("stop", x)
  BY <1>0, MessageFields DEF Takes, Frees
<1>3. \A S : m \notin S => NoneIn(s, S)
  BY <1>0, ShortQueues
<1>4. Running'
  <2> SUFFICES ASSUME NEW x \in Instances, On(stack', x), x \notin stopped', Binds(x)' PROVE AtEnd(x)'
    BY DEF Running
  <2>1. CASE x = b
    <3>1. LastIn(s, Takes(x), Frees(x))
      BY <1>0, <1>2, <2>1, ShortQueues
    <3> QED
      BY <1>1, <3>1, QueueEnd DEF AtEnd
  <2>2. CASE On(stack, x)
    <3>1. AtEnd(x)
      BY <1>1, <2>2, Binding DEF ClientsInv, Running
    <3> QED
      BY <1>1, <1>2, <1>3, <3>1, AtEndGrows
  <2> QED
    BY <1>1, <2>1, <2>2
<1> QED
  BY <1>1, <1>2, <1>3, <1>4, Binding, ClientsGrow

LEMMA ClientsVanishes ==
    ASSUME TypeOK, FrontInv, ClientsInv, [Next]_vars, NEW a \in Instances, Vanishes(a)
    PROVE  ClientsInv'
<1>0. PICK m, s : m = Msg("destroy", a) /\ s = <<m>>
  OBVIOUS
<1>1. /\ s \in Seq(Messages) /\ Grows(s) /\ UNCHANGED <<front, clients>> /\ stopped' = stopped \ {a}
      /\ \A x : On(stack', x) <=> On(stack, x) /\ x # a
  BY <1>0 DEF Vanishes, Leaving, bindingVars
<1>2. /\ \A x : x # a => m \notin Frees(x)
      /\ \A x : m # Msg("resume", x) /\ m # Msg("stop", x)
  BY <1>0, MessageFields DEF Frees
<1>3. \A S : m \notin S => NoneIn(s, S)
  BY <1>0, ShortQueues
<1>4. Running'
  <2> SUFFICES ASSUME NEW x \in Instances, On(stack', x), x \notin stopped', Binds(x)' PROVE AtEnd(x)'
    BY DEF Running
  <2>1. x # a /\ AtEnd(x)
    BY <1>1, Binding DEF ClientsInv, Running
  <2> QED
    BY <1>1, <1>2, <1>3, <2>1, AtEndGrows
<1> QED
  BY <1>1, <1>2, <1>3, <1>4, Binding, ClientsGrow

LEMMA ClientsReturns ==
    ASSUME TypeOK, FrontInv, OrderInv, ClientsInv, [Next]_vars, NEW b \in Instances, Returns(b)
    PROVE  ClientsInv'
<1>0. PICK t, m, d, s : /\ t = Top /\ m = Msg(IF b \in stopped THEN "restart" ELSE "resume", b)
                        /\ d = Msg("destroy", t) /\ s = <<m, d>>
  OBVIOUS
<1>1. /\ s \in Seq(Messages) /\ Grows(s) /\ UNCHANGED <<front, clients>>
      /\ stopped' = stopped \ {t, b} /\ b # t /\ On(stack, b)
      /\ \A x : On(stack', x) <=> On(stack, x) /\ x # t
  BY <1>0, UnderStack DEF Returns, Leaving, bindingVars, FrontInv
<1>2. /\ \A x : m \notin Frees(x) /\ m # Msg("stop", x) /\ (x # b => m # Msg("resume", x))
      /\ b \in stopped => m \in Takes(b) /\ m # Msg("resume", b)
      /\ \A x : x # t => d \notin Frees(x)
      /\ \A x : d # Msg("resume", x) /\ d # Msg("stop", x)
  BY <1>0, MessageFields DEF Frees, Takes
<1>3. \A S : m \notin S /\ d \notin S => NoneIn(s, S)
  BY <1>0, ShortQueues
<1>4. ASSUME b \notin stopped, Binds(b) PROVE AtEnd(b)
  BY <1>1, <1>4 DEF ClientsInv, Running
<1>5. Running'
  <2> SUFFICES ASSUME NEW x \in Instances, On(stack', x), x \notin stopped', Binds(x)' PROVE AtEnd(x)'
    BY DEF Running
  <2>1. x # t /\ Binds(x)
    BY <1>1, Binding
  <2>2. CASE x = b /\ b \in stopped
    <3>1. LastIn(s, Takes(x), Frees(x))
      BY <1>0, <1>2, <2>1, <2>2, ShortQueues
    <3> QED
      BY <1>1, <3>1, QueueEnd DEF AtEnd
  <2>3. CASE ~(x = b /\ b \in stopped)
    <3>1. AtEnd(x)
      BY <1>1, <1>4, <2>1, <2>3 DEF ClientsInv, Running
    <3> QED
      BY <1>1, <1>2, <1>3, <2>1, <3>1, AtEndGrows
  <2> QED
    BY <2>2, <2>3
<1>6. ASSUME NEW x \in Instances, ~NoneIn(s, {Msg("resume", x)}), Binds(x)
      PROVE  x \in clients /\ NoneIn(main, Frees(x)) /\ Apart(s, Frees(x), {Msg("resume", x)})
  <2>1. x = b /\ b \notin stopped
    BY <1>2, <1>3, <1>6
  <2>2. ~LastIn(main, Takes(b), Frees(b))
    <3>1. Takes(b) \subseteq Shows(b)
      BY MessageTypes, MessageFields DEF Takes, Shows, Showing
    <3> QED
      BY <3>1, ReturnsUnshown, NoneInLess, LastSome
  <2>3. Apart(s, Frees(x), {Msg("resume", x)})
    BY <1>0, <1>2, PairApart
  <2> QED
    BY <1>4, <1>6, <2>1, <2>2, <2>3 DEF AtEnd
<1> QED
  BY <1>1, <1>2, <1>3, <1>5, <1>6, Binding, ClientsGrow

LEMMA ClientsStops ==
    ASSUME TypeOK, FrontInv, OrderInv, ClientsInv, [Next]_vars, NEW a \in Instances, Stops(a)
    PROVE  ClientsInv'
<1>0. PICK m, s : m = Msg("stop", a) /\ s = <<m>>
  OBVIOUS
<1>1. /\ s \in Seq(Messages) /\ Grows(s) /\ UNCHANGED <<front, clients, stack>>
      /\ stopped' = stopped \union {a} /\ front = Top /\ a # Top /\ front # 0
  BY <1>0 DEF Stops, bindingVars
<1>2. /\ \A x : x # a => m \notin Frees(x) /\ m # Msg("stop", x)
      /\ \A x : m # Msg("resume", x)
  BY <1>0, MessageFields DEF Frees
<1>3. \A S : m \notin S => NoneIn(s, S)
  BY <1>0, ShortQueues
<1>4. Running'
  <2> SUFFICES ASSUME NEW x \in Instances, On(stack', x), x \notin stopped', Binds(x)' PROVE AtEnd(x)'
    BY DEF Running
  <2>1. x # a /\ AtEnd(x)
    BY <1>1, Binding DEF ClientsInv, Running
  <2> QED
    BY <1>1, <1>2, <1>3, <2>1, AtEndGrows
<1>5. NoneIn(main, Shows(a)) /\ Apart(s, Shows(a), {Msg("stop", a)})
  <2>1. Shows(a) \subseteq Showing
    BY DEF Shows
  <2> QED
    BY <1>0, <1>1, <2>1, OrderSettles, NoneInLess, ShortOrders DEF NothingShows
<1> QED
  BY <1>1, <1>2, <1>3, <1>4, <1>5, Binding, ClientsGrow

LEMMA ClientsStep == TypeOK /\ FrontInv /\ OrderInv /\ ClientsInv /\ [Next]_vars => ClientsInv'
<1> SUFFICES ASSUME TypeOK, FrontInv, OrderInv, ClientsInv, [Next]_vars PROVE ClientsInv'
  OBVIOUS
<1>1. TypeOK'
  BY TypeStep
<1>2. ASSUME UNCHANGED screens PROVE \A x : Binds(x)' <=> Binds(x)
  BY <1>2 DEF Binds, Is
<1>3. ASSUME NEW s \in Seq(Messages), Voice(s) PROVE ClientsInv'
  BY <1>2, <1>3, ClientsVoice DEF Voice
<1>4. ASSUME NEW s \in Seq(Messages), Turn(s) PROVE ClientsInv'
  BY <1>1, <1>2, <1>4, ClientsTurn DEF Turn
<1>5. ASSUME NEW s \in Seq(Messages), Renews(s) PROVE ClientsInv'
  <2>1. NoneIn(s, Moves)
    BY <1>5, NoneInLess DEF Renews
  <2> QED
    BY <1>2, <1>5, <2>1, ClientsQuiet DEF Renews
<1> QED
  BY <1>3, <1>4, <1>5, StepKinds, ClientsOpens, ClientsVanishes, ClientsReturns, ClientsStops

LEMMA InitClients == Init => ClientsInv
<1> SUFFICES ASSUME Init PROVE ClientsInv
  OBVIOUS
<1>1. main = <<>> /\ stack = <<>> /\ front = 0
  BY DEF Init
<1>2. (\A S : NoneIn(main, S) /\ \A A : Apart(main, A, S)) /\ \A x : ~On(stack, x)
  BY <1>1, EmptySeq, ShortQueues, ShortOrders DEF On
<1> QED
  BY <1>1, <1>2 DEF ClientsInv, Running, FrontBound, Resumed, Unstopped

\* The screen in front, if it binds at all, is bound.
THEOREM ScreensAreBound == Spec => []ClientsInv
BY InitClients, ClientsStep, AppTyped, TopIsShown, ScreensAppearInOrder, PTL DEF Spec

-----------------------------------------------------------------------------
(* The binding is handed over without a gap *)

\* Activity a is bound when the first k messages of q have been run, if those of
\* c are now; somebody of X is, however many have been run.
Held(c, q, a, k) ==
    \/ a \in c /\ \A j \in 1 .. k : q[j] \notin Frees(a)
    \/ \E i \in 1 .. k : q[i] \in Takes(a) /\ \A j \in i + 1 .. k : q[j] \notin Frees(a)
Covered(X, c, q) == \A k \in 0 .. Len(q) : \E a \in X : Held(c, q, a, k)

Binders == {a \in Created : Binds(a)}
NoGap == Covered(Binders, clients, main)

LEMMA HeldStays ==
    ASSUME NEW c, NEW q, NEW a, NEW k \in Nat, NEW l \in Nat, k <= l, Held(c, q, a, k),
           \A j \in k + 1 .. l : q[j] \notin Frees(a)
    PROVE  Held(c, q, a, l)
<1>1. \A j \in 1 .. l : j \in 1 .. k \/ j \in k + 1 .. l
  OBVIOUS
<1>2. CASE a \in c /\ \A j \in 1 .. k : q[j] \notin Frees(a)
  BY <1>1, <1>2 DEF Held
<1>3. ASSUME NEW i \in 1 .. k, q[i] \in Takes(a), \A j \in i + 1 .. k : q[j] \notin Frees(a)
      PROVE  Held(c, q, a, l)
  <2>1. i \in 1 .. l /\ \A j \in i + 1 .. l : j \in i + 1 .. k \/ j \in k + 1 .. l
    OBVIOUS
  <2> QED
    BY <1>3, <2>1 DEF Held
<1> QED
  BY <1>2, <1>3 DEF Held

LEMMA CoveredLonger ==
    ASSUME NEW q \in Seq(Messages), NEW s \in Seq(Messages), NEW X, NEW c, Covered(X, c, q),
           \A k \in Len(q) + 1 .. Len(q) + Len(s) : \E a \in X : Held(c, q \o s, a, k)
    PROVE  Covered(X, c, q \o s)
<1>1. /\ Len(q \o s) = Len(q) + Len(s) /\ Len(q) \in Nat /\ Len(s) \in Nat
      /\ \A i \in 1 .. Len(q) : (q \o s)[i] = q[i]
  <2>1. /\ Len(q \o s) = Len(q) + Len(s) /\ Len(q) \in Nat /\ Len(s) \in Nat
        /\ \A i \in 1 .. Len(q) + Len(s) : (q \o s)[i] = IF i <= Len(q) THEN q[i] ELSE s[i - Len(q)]
    BY ConcatProperties, LenProperties
  <2> QED
    BY <2>1
<1>2. ASSUME NEW k \in 0 .. Len(q), NEW a, Held(c, q, a, k) PROVE Held(c, q \o s, a, k)
  <2>1. \A j \in 1 .. k : (q \o s)[j] = q[j]
    BY <1>1
  <2>2. \A i \in 1 .. k : \A j \in i + 1 .. k : j \in 1 .. k
    BY <1>1
  <2> QED
    BY <1>2, <2>1, <2>2 DEF Held
<1>3. \A k \in 0 .. Len(q \o s) : k \in 0 .. Len(q) \/ k \in Len(q) + 1 .. Len(q) + Len(s)
  BY <1>1
<1> QED
  BY <1>2, <1>3 DEF Covered

\* Nobody of X is told to stop or destroyed.
LEMMA CoveredQuiet ==
    ASSUME NEW q \in Seq(Messages), NEW s \in Seq(Messages), NEW X, NEW c, Covered(X, c, q),
           \A a \in X : NoneIn(s, Frees(a))
    PROVE  Covered(X, c, q \o s)
<1>1. /\ Len(q) \in Nat /\ Len(s) \in Nat
      /\ \A i \in 1 .. Len(q) + Len(s) : (q \o s)[i] = IF i <= Len(q) THEN q[i] ELSE s[i - Len(q)]
  BY ConcatProperties, LenProperties
<1>2. ASSUME NEW i \in Len(q) + 1 .. Len(q) + Len(s)
      PROVE  i - Len(q) \in 1 .. Len(s) /\ (q \o s)[i] = s[i - Len(q)]
  BY <1>1
<1>3. PICK a \in X : Held(c, q, a, Len(q))
  BY <1>1 DEF Covered
<1>4. Held(c, q \o s, a, Len(q))
  <2>1. \A j \in 1 .. Len(q) : (q \o s)[j] = q[j]
    BY <1>1
  <2>2. \A i \in 1 .. Len(q) : \A j \in i + 1 .. Len(q) : j \in 1 .. Len(q)
    BY <1>1
  <2> QED
    BY <1>3, <2>1, <2>2 DEF Held
<1>5. ASSUME NEW k \in Len(q) + 1 .. Len(q) + Len(s) PROVE Held(c, q \o s, a, k)
  <2>1. k \in Nat /\ Len(q) <= k /\ \A j \in Len(q) + 1 .. k : j \in Len(q) + 1 .. Len(q) + Len(s)
    BY <1>1
  <2>2. \A j \in Len(q) + 1 .. k : (q \o s)[j] \notin Frees(a)
    BY <1>2, <2>1 DEF NoneIn
  <2> QED
    BY <1>1, <1>4, <2>1, <2>2, HeldStays
<1> QED
  BY <1>5, CoveredLonger

\* The head of the queue is run.
LEMMA CoveredShorter ==
    ASSUME NEW q \in Seq(Messages), q # <<>>, NEW X, NEW c, NEW d, Covered(X, c, q),
           \A a \in X : /\ a \in c /\ Head(q) \notin Frees(a) => a \in d
                        /\ Head(q) \in Takes(a) => a \in d
    PROVE  Covered(X, d, Tail(q)) /\ \E a \in X : a \in d
<1>1. /\ Len(q) \in Nat \ {0} /\ Head(q) = q[1] /\ Len(Tail(q)) = Len(q) - 1
      /\ \A i \in 1 .. Len(q) - 1 : Tail(q)[i] = q[i + 1]
  BY EmptySeq, HeadTailProperties
<1>2. ASSUME NEW k \in 0 .. Len(q) - 1, NEW a \in X, Held(c, q, a, k + 1)
      PROVE  Held(d, Tail(q), a, k)
  <2>1. 1 \in 1 .. k + 1 /\ \A j \in 1 .. k : j + 1 \in 1 .. k + 1 /\ j \in 1 .. Len(q) - 1
    BY <1>1
  <2>2. \A j \in 1 .. k : Tail(q)[j] = q[j + 1]
    BY <1>1, <2>1
  <2>3. CASE a \in c /\ \A j \in 1 .. k + 1 : q[j] \notin Frees(a)
    BY <1>1, <2>1, <2>2, <2>3 DEF Held
  <2>4. ASSUME NEW i \in 1 .. k + 1, q[i] \in Takes(a), \A j \in i + 1 .. k + 1 : q[j] \notin Frees(a)
        PROVE  Held(d, Tail(q), a, k)
    <3>1. CASE i = 1
      <4>1. a \in d
        BY <1>1, <2>4, <3>1
      <4>2. \A j \in 1 .. k : j + 1 \in 2 .. k + 1
        OBVIOUS
      <4> QED
        BY <2>2, <2>4, <3>1, <4>1, <4>2 DEF Held
    <3>2. CASE i # 1
      <4> DEFINE l == i - 1
      <4>1. l \in 1 .. k /\ l + 1 = i /\ \A j \in l + 1 .. k : j \in 1 .. k /\ j + 1 \in i + 1 .. k + 1
        BY <3>2
      <4> HIDE DEF l
      <4>2. Tail(q)[l] \in Takes(a) /\ \A j \in l + 1 .. k : Tail(q)[j] \notin Frees(a)
        BY <2>2, <2>4, <4>1
      <4> QED
        BY <4>1, <4>2 DEF Held
    <3> QED
      BY <3>1, <3>2
  <2> QED
    BY <1>2, <2>3, <2>4 DEF Held
<1>3. ASSUME NEW k \in 0 .. Len(q) - 1 PROVE \E a \in X : Held(d, Tail(q), a, k)
  <2>1. k + 1 \in 0 .. Len(q)
    BY <1>1
  <2>2. PICK a \in X : Held(c, q, a, k + 1)
    BY <2>1 DEF Covered
  <2> QED
    BY <1>2, <2>2
<1>4. \E a \in X : a \in d
  <2>1. 0 \in 0 .. Len(q) - 1 /\ \A i \in 1 .. 0 : FALSE
    BY <1>1
  <2>2. PICK a \in X : Held(d, Tail(q), a, 0)
    BY <1>3, <2>1
  <2> QED
    BY <2>1, <2>2 DEF Held
<1> QED
  BY <1>1, <1>3, <1>4 DEF Covered

LEMMA CoveredMore ==
    ASSUME NEW q, NEW X, NEW Y, NEW c, X \subseteq Y, Covered(X, c, q) PROVE Covered(Y, c, q)
BY DEF Covered

LEMMA CoveredLast ==
    ASSUME NEW q \in Seq(Messages), NEW m \in Messages, NEW X, NEW c, Covered(X, c, q),
           NEW a \in X, Held(c, q \o <<m>>, a, Len(q \o <<m>>))
    PROVE  Covered(X, c, q \o <<m>>)
<1>1. /\ <<m>> \in Seq(Messages) /\ Len(<<m>>) = 1 /\ Len(q) \in Nat
      /\ Len(q \o <<m>>) = Len(q) + Len(<<m>>)
  BY ConcatProperties, LenProperties
<1>2. \A k \in Len(q) + 1 .. Len(q) + Len(<<m>>) : k = Len(q \o <<m>>)
  BY <1>1
<1> QED
  BY <1>1, <1>2, CoveredLonger

\* Who is bound for good leaves no gap.
LEMMA HeldThroughout ==
    TypeOK => \A a \in Binders : a \in clients /\ NoneIn(main, Frees(a)) => NoGap
<1> SUFFICES ASSUME TypeOK, NEW a \in Binders, a \in clients, NoneIn(main, Frees(a)) PROVE NoGap
  OBVIOUS
<1>1. Len(main) \in Nat
  BY LenProperties DEF TypeOK
<1>2. \A k \in 0 .. Len(main) : \A j \in 1 .. k : j \in 1 .. Len(main)
  BY <1>1
<1> QED
  BY <1>2 DEF NoGap, Covered, Held, NoneIn

\* The screen in front, if it binds, is such a one.
LEMMA Settled ==
    ASSUME TypeOK, FrontInv, ClientsInv, front # 0, front = Top, Binds(front) PROVE NoGap
<1>1. On(stack, front) /\ front \in Instances /\ front \in Binders
  BY FrontTop, TopType, OnStack DEF FrontInv, Binders
<1>2. front \in clients /\ NoneIn(main, {Msg("stop", front)})
  BY <1>1 DEF ClientsInv, FrontBound, Unstopped
<1>3. NoneIn(main, {Msg("destroy", front)})
  BY <1>1 DEF FrontInv, Gone
<1>4. NoneIn(main, Frees(front))
  BY <1>2, <1>3 DEF NoneIn, Frees
<1> QED
  BY <1>1, <1>2, <1>4, HeldThroughout

LEMMA TopEnds ==
    TypeOK /\ FrontInv /\ StackInv /\ ClientsInv =>
        (stack # <<>> /\ Binds(Top) => Top \in Binders /\ Held(clients, main, Top, Len(main)))
<1> SUFFICES ASSUME TypeOK, FrontInv, StackInv, ClientsInv, stack # <<>>, Binds(Top)
             PROVE  Top \in Binders /\ Held(clients, main, Top, Len(main))
  OBVIOUS
<1>0. PICK t : t = Top
  OBVIOUS
<1>1. t \in Instances /\ On(stack, t) /\ t \notin stopped
  BY <1>0, TopType DEF StackInv, Layers
<1>2. AtEnd(t)
  BY <1>0, <1>1 DEF ClientsInv, Running
<1>3. Held(clients, main, t, Len(main))
  BY <1>2 DEF AtEnd, Held, NoneIn, LastIn
<1>4. t \in Binders
  BY <1>0, <1>1, OnStack DEF FrontInv, Binders
<1> QED
  BY <1>0, <1>3, <1>4

LEMMA BindersStay ==
    ASSUME TypeOK, FrontInv, [Next]_vars
    PROVE  Binders \subseteq Binders' /\ Binders \subseteq Instances
<1>1. Created \subseteq Instances
  BY LenProperties, AppAssumption DEF Created, TypeOK, Instances
<1>2. Created \subseteq Created' /\ \A x \in Created : Binds(x)' <=> Binds(x)
  BY CreatedStays, Binding
<1> QED
  BY <1>1, <1>2 DEF Binders

\* The main thread leaves somebody bound.
LEMMA TurnCovered ==
    ASSUME TypeOK, FrontInv, NoGap, [Next]_vars, NEW s \in Seq(Messages), Turn(s)
    PROVE  NoGap' /\ (\E a \in Binders : a \in clients') /\ NoneIn(s, Services)
<1>1. main \in Seq(Messages) /\ main # <<>> /\ main' = Tail(main) \o s /\ Tail(main) \in Seq(Messages)
  BY HeadTailProperties DEF Turn, Runs, TypeOK
<1>2. Binders \subseteq Binders' /\ Binders \subseteq Instances /\ \A a \in Binders : Binds(a)
  BY BindersStay DEF Binders
<1>3. \A a \in Binders : /\ a \in clients /\ Head(main) \notin Frees(a) => a \in clients'
                         /\ Head(main) \in Takes(a) => a \in clients'
  BY <1>2 DEF Turn
<1>4. Covered(Binders, clients', Tail(main)) /\ \E a \in Binders : a \in clients'
  BY <1>1, <1>3, CoveredShorter DEF NoGap
<1>5. \A a \in Binders : NoneIn(s, Frees(a))
  <2>1. \A a \in Instances : Frees(a) \subseteq Moves \union Later
    BY MessageTypes, MessageFields DEF Frees, Moves
  <2> QED
    BY <1>2, <2>1, NoneInLess DEF Turn
<1>6. Covered(Binders, clients', main')
  BY <1>1, <1>4, <1>5, CoveredQuiet
<1>7. NoGap'
  BY <1>2, <1>6, CoveredMore DEF NoGap
<1>8. NoneIn(s, Services)
  BY <1>4 DEF Turn
<1> QED
  BY <1>4, <1>7, <1>8

LEMMA GrowsCovered ==
    ASSUME TypeOK, FrontInv, NoGap, [Next]_vars, NEW s \in Seq(Messages), Grows(s),
           UNCHANGED clients, \A a \in Binders : NoneIn(s, Frees(a))
    PROVE  NoGap'
<1>1. main \in Seq(Messages)
  BY DEF TypeOK
<1>2. Covered(Binders, clients, main')
  BY <1>1, CoveredQuiet DEF NoGap, Grows
<1> QED
  BY <1>2, BindersStay, CoveredMore DEF NoGap

\* The gap comes when the last screen, or one over which nobody binds, goes.
LEMMA GapStep ==
    ASSUME TypeOK, FrontInv, OrderInv, StackInv, ClientsInv, NoGap, [Next]_vars
    PROVE  \/ NoGap'
           \/ /\ stack' = <<>> \/ ~Binds(Top)'
              /\ \/ \E a \in Instances : Vanishes(a)
                 \/ \E b \in Instances : Returns(b)
                 \/ \E a \in Instances : Stops(a)
<1>1. TypeOK' /\ FrontInv' /\ StackInv' /\ ClientsInv'
  BY TypeStep, FrontStep, StackStep, ClientsStep
<1>2. ASSUME stack' # <<>>, Binds(Top)'
      PROVE  \E t : t \in Binders' /\ Held(clients', main', t, Len(main'))
  <2>1. (TypeOK /\ FrontInv /\ StackInv /\ ClientsInv =>
            (stack # <<>> /\ Binds(Top) => Top \in Binders /\ Held(clients, main, Top, Len(main))))'
    BY TopEnds, PTL
  <2>2. (Top \in Binders /\ Held(clients, main, Top, Len(main)))'
    BY <1>1, <1>2, <2>1
  <2>3. PICK t : t = Top'
    OBVIOUS
  <2>4. t \in Binders' /\ Held(clients', main', t, Len(main'))
    BY <2>2, <2>3 DEF Held
  <2> QED
    BY <2>4
<1>3. main \in Seq(Messages) /\ Binders \subseteq Binders' /\ Binders \subseteq Instances
  BY BindersStay DEF TypeOK
<1>4. ASSUME NEW q \in Seq(Messages), Covered(Binders, clients, q), NEW m \in Messages,
             main' = q \o <<m>>, UNCHANGED clients, stack' # <<>>, Binds(Top)'
      PROVE  NoGap'
  <2>1. PICK t : t \in Binders' /\ Held(clients', main', t, Len(main'))
    BY <1>2, <1>4
  <2>2. Covered(Binders', clients, q)
    BY <1>3, <1>4, CoveredMore
  <2>3. Covered(Binders', clients, q \o <<m>>)
    BY <1>4, <2>1, <2>2, CoveredLast
  <2> QED
    BY <1>4, <2>3 DEF NoGap
<1>5. ASSUME NEW s \in Seq(Messages), Voice(s) PROVE NoGap'
  <2>1. \A a \in Instances : Frees(a) \subseteq Own \union Later
    BY OwnMessages DEF Frees
  <2> QED
    BY <1>3, <1>5, <2>1, NoneInLess, GrowsCovered DEF Voice
<1>6. ASSUME NEW b \in Instances, Opens(b) PROVE NoGap'
  <2>1. \A a : Msg("launch", b) \notin Frees(a)
    BY MessageFields DEF Frees
  <2>2. \A a : NoneIn(<<Msg("launch", b)>>, Frees(a))
    BY <2>1, ShortQueues
  <2> QED
    BY <1>6, <2>2, GrowsCovered DEF Opens, bindingVars
<1>7. ASSUME NEW a \in Instances, NEW k \in {"stop", "destroy"}, Grows(<<Msg(k, a)>>),
             UNCHANGED clients, stack' # <<>>, Binds(Top)'
      PROVE  NoGap'
  BY <1>3, <1>4, <1>7, MessageTypes DEF NoGap, Grows
<1>8. ASSUME NEW b \in Instances, Returns(b), stack' # <<>>, Binds(Top)' PROVE NoGap'
  <2>1. PICK t, m, d : /\ t = Top /\ m = Msg(IF b \in stopped THEN "restart" ELSE "resume", b)
                       /\ d = Msg("destroy", t)
    OBVIOUS
  <2>2. /\ m \in Messages /\ d \in Messages /\ \A a : m \notin Frees(a)
        /\ Grows(<<m, d>>) /\ UNCHANGED clients
    BY <1>8, <2>1, MessageTypes, MessageFields DEF Returns, Leaving, bindingVars, Frees
  <2>3. /\ <<m>> \in Seq(Messages) /\ <<d>> \in Seq(Messages) /\ <<m, d>> = <<m>> \o <<d>>
        /\ \A a : NoneIn(<<m>>, Frees(a))
    <3>1. <<m>> \in Seq(Messages) /\ <<d>> \in Seq(Messages)
      BY <2>2
    <3>2. <<m, d>> = <<m>> \o <<d>>
      BY <2>2, TwoMessages
    <3>3. \A a : NoneIn(<<m>>, Frees(a))
      BY <2>2, ShortQueues
    <3> QED
      BY <3>1, <3>2, <3>3
  <2>4. main \o <<m>> \in Seq(Messages) /\ main' = (main \o <<m>>) \o <<d>>
    <3>1. main \o (<<m>> \o <<d>>) = (main \o <<m>>) \o <<d>>
      BY <1>3, <2>3, ConcatAssociative
    <3> QED
      BY <1>3, <2>2, <2>3, <3>1, ConcatProperties DEF Grows
  <2>5. Covered(Binders, clients, main \o <<m>>)
    BY <1>3, <2>3, CoveredQuiet DEF NoGap
  <2> QED
    BY <1>4, <1>8, <2>2, <2>4, <2>5
<1>9. ASSUME NEW s \in Seq(Messages), Renews(s) PROVE NoGap'
  BY <1>3, <1>9, RenewsAdds, GrowsCovered DEF Renews
<1> QED
  BY <1>5, <1>6, <1>7, <1>8, <1>9, TurnCovered, StepKinds DEF Vanishes, Leaving, Stops, bindingVars

\* Behind a registration the login screen stays bound, and behind a login the
\* screen that was there before, unless the login has yet to appear.
Entered ==
    stack # <<>> =>
        /\ Is(Top, "Register") => NoGap
        /\ Is(Top, "Login") => ~NoneIn(main, {Msg("launch", Top)}) \/ NoGap

\* The service that a login screen on top has been given is there to stay; one
\* that it has yet to be given does not go after that.
Welcomed ==
    stack # <<>> /\ Is(Top, "Login") =>
        \/ LastIn(main, Shows(Top), Services)
        \/ IF Top \in served THEN NoneIn(main, Services)
           ELSE Apart(main, {Msg("connected", Top)}, Services)

GapInv == Entered /\ Welcomed

LEMMA EnteredStays ==
    ASSUME TypeOK, FrontInv, OrderInv, StackInv, ClientsInv, GapInv, [Next]_vars,
           UNCHANGED screens, stack' # <<>> => stack # <<>> /\ Top' = Top
    PROVE  Entered'
<1> SUFFICES ASSUME stack' # <<>>, stack # <<>>, Top' = Top
             PROVE  /\ Is(Top, "Register") => NoGap'
                    /\ Is(Top, "Login") => ~NoneIn(main', {Msg("launch", Top)}) \/ NoGap'
  BY DEF Entered, Is
<1>0. PICK t : t = Top
  OBVIOUS
<1>1. t \in Instances /\ On(stack, t) /\ Top' = t
  BY <1>0, TopType
<1>2. \A activity : Is(t, activity)' <=> Is(t, activity)
  BY DEF Is
<1>3. ASSUME NoGap, Entrance(t) PROVE NoGap'
  <2>1. Binds(t)'
    BY <1>2, <1>3, KindsOf DEF Binds, Entrance
  <2>2. stack' # <<>> /\ Binds(Top)'
    BY <1>1, <2>1 DEF Binds, Is
  <2> QED
    BY <1>3, <2>2, GapStep
<1>4. ASSUME Is(t, "Login"), ~NoneIn(main, {Msg("launch", t)})
      PROVE  ~NoneIn(main', {Msg("launch", t)}) \/ NoGap'
  <2>1. ASSUME NEW s \in Seq(Messages), Grows(s) PROVE ~NoneIn(main', {Msg("launch", t)})
    BY <1>4, <2>1, QueueNone
  <2>2. ASSUME NEW s \in Seq(Messages), Turn(s), NoneIn(main', {Msg("launch", t)}) PROVE NoGap'
    <3>1. Runs(s) /\ Head(main) = Msg("launch", t)
      BY <1>4, <2>2, QueueNone DEF Turn
    <3>2. t \in clients' /\ t \in Binders'
      <4>1. Binds(t) /\ t \in Created
        BY <1>4, KindsOf DEF Binds
      <4>2. t \in clients'
        BY <1>1, <2>2, <3>1, <4>1 DEF Turn, Takes
      <4> QED
        BY <1>2, <4>1, <4>2, CreatedStays DEF Binders, Binds
    <3>3. NoneIn(main', Frees(t))
      <4>1. Frees(t) \subseteq About(t) \ {Msg("launch", t)}
        BY <1>1, MessageTypes, MessageFields DEF Frees, About
      <4>2. NoneIn(main, Frees(t))
        BY <1>1, <1>4, <4>1, NoneInLess DEF OrderInv, Unlaunched, Unseen
      <4>3. NoneIn(s, Frees(t))
        <5>1. Frees(t) \subseteq Moves \union Later
          BY <1>1, MessageTypes, MessageFields DEF Frees, Moves
        <5> QED
          BY <2>2, <5>1, NoneInLess DEF Turn
      <4> QED
        BY <3>1, <4>2, <4>3, QueueNone
    <3>4. TypeOK'
      BY TypeStep
    <3>5. (TypeOK => \A a \in Binders : a \in clients /\ NoneIn(main, Frees(a)) => NoGap)'
      BY HeldThroughout, PTL
    <3> QED
      BY <3>2, <3>3, <3>4, <3>5 DEF NoneIn
  <2> QED
    BY <2>1, <2>2, StepKinds DEF Voice, Renews, Stops, Opens, Vanishes, Returns, Leaving
<1> QED
  BY <1>0, <1>3, <1>4 DEF GapInv, Entered, Entrance

LEMMA EnteredOpens ==
    ASSUME TypeOK, FrontInv, OrderInv, StackInv, ClientsInv, [Next]_vars, NEW b \in Instances, Opens(b)
    PROVE  Entered'
<1>1. /\ sys # <<>> /\ Top' = b /\ stack' # <<>> /\ Grows(<<Msg("launch", b)>>)
      /\ <<Msg("launch", b)>> \in Seq(Messages)
      /\ \A activity : Is(b, activity)' <=> Head(sys) = Open(activity)
  BY DEF Opens
<1>2. ~NoneIn(main', {Msg("launch", b)})
  <2>1. ~NoneIn(<<Msg("launch", b)>>, {Msg("launch", b)})
    BY ShortQueues
  <2> QED
    BY <1>1, <2>1, QueueNone
<1>3. ASSUME Is(b, "Register")' PROVE NoGap'
  <2>1. Meant(Open("Register")) /\ Open("Register") # Open("Login")
    BY <1>1, <1>3, UserOpens, CallNames DEF StackInv, Activities
  <2>2. stack # <<>> /\ front = Top /\ Is(Top, "Login")
    BY <2>1 DEF Meant
  <2>3. front # 0 /\ Binds(front)
    BY <2>2, TopType, KindsOf DEF Instances, Binds
  <2>4. Binds(b)'
    <3>1. Open("Register") # Open("About")
      BY CallNames
    <3> QED
      BY <1>1, <1>3, <3>1 DEF Binds
  <2>5. Binds(Top)'
    BY <1>1, <2>4 DEF Binds, Is
  <2> QED
    BY <1>1, <2>2, <2>3, <2>5, Settled, GapStep
<1> QED
  BY <1>1, <1>2, <1>3 DEF Entered, Is

LEMMA EnteredReturns ==
    ASSUME TypeOK, FrontInv, OrderInv, StackInv, ClientsInv, GapInv, [Next]_vars,
           NEW b \in Instances, Returns(b)
    PROVE  Entered'
<1>0. PICK t : t = Top
  OBVIOUS
<1>1. /\ Top' = b /\ stack # <<>> /\ stack' # <<>> /\ t \in Instances /\ On(stack, t)
      /\ sys # <<>> /\ Head(sys) = FinishOf(t) /\ Under(stack, b, t)
      /\ \A x : Under(stack, x, t) => x = b \/ Under(stack, x, b)
      /\ \A activity : Is(b, activity)' <=> Is(b, activity)
  BY <1>0 DEF Returns, Leaving, Is
<1>2. ASSUME Entrance(b) PROVE NoGap
  <2>1. CASE Entrance(t)
    <3>1. Is(t, "Register")
      BY <1>1, <2>1 DEF StackInv, Layers
    <3> QED
      BY <1>0, <1>1, <3>1 DEF GapInv, Entered
  <2>2. CASE ~Entrance(t)
    <3>1. front = t
      BY <1>0, <1>1, <2>2, UserFinish DEF StackInv
    <3>2. ~Is(t, "About")
      <4> SUFFICES ASSUME Is(t, "About") PROVE FALSE
        OBVIOUS
      <4>1. PICK x \in Instances : Under(stack, x, t) /\ Is(x, "FriendList")
        BY <1>1 DEF StackInv, Layers
      <4>2. ~Is(x, "Login") /\ ~Is(x, "Register")
        BY <4>1, KindsOf
      <4>3. x # b
        BY <1>2, <4>2 DEF Entrance
      <4>4. Under(stack, x, b)
        BY <1>1, <4>1, <4>3
      <4> QED
        BY <1>2, <4>2, <4>4 DEF StackInv, Layers
    <3>3. front # 0
      BY <1>1, <3>1 DEF Instances
    <3> QED
      BY <1>0, <3>1, <3>2, <3>3, Settled DEF Binds
  <2> QED
    BY <2>1, <2>2
<1>3. ASSUME Entrance(b) PROVE NoGap'
  <2>1. Binds(b)'
    BY <1>1, <1>3, KindsOf DEF Binds, Entrance
  <2>2. Binds(Top)'
    BY <1>1, <2>1 DEF Binds, Is
  <2> QED
    BY <1>1, <1>2, <1>3, <2>2, GapStep
<1> QED
  BY <1>1, <1>3 DEF Entered, Entrance, Is

LEMMA EnteredStep ==
    ASSUME TypeOK, FrontInv, OrderInv, StackInv, ClientsInv, GapInv, [Next]_vars PROVE Entered'
<1>1. ASSUME UNCHANGED <<screens, stack>> PROVE Entered'
  BY <1>1, EnteredStays DEF Top
<1>2. ASSUME NEW a \in Instances, Vanishes(a) PROVE Entered'
  BY <1>2, EnteredStays DEF Vanishes, Leaving
<1> QED
  BY <1>1, <1>2, EnteredOpens, EnteredReturns, StepKinds DEF Voice, Turn, Renews, Stops

LEMMA ServiceKinds ==
    /\ \A k, a : k # "destroyService" => Msg(k, a) \notin Services
    /\ Services \subseteq Own /\ \A x : Shows(x) \intersect Services = {}
<1>1. \A k, a : k # "destroyService" => Msg(k, a) \notin Services
  BY MessageFields DEF Services
<1>2. Services \subseteq Own
  BY ServiceMessage, MessageFields, EventNames DEF Services, Own
<1>3. \A x : Shows(x) \intersect Services = {}
  BY MessageFields DEF Services, Shows, Showing
<1> QED
  BY <1>1, <1>2, <1>3

\* The step adds nothing about the service.
LEMMA WelcomedGrows ==
    ASSUME TypeOK, GapInv, NEW s \in Seq(Messages), Grows(s), NoneIn(s, Services),
           UNCHANGED <<screens, served>>, stack' # <<>> => stack # <<>> /\ Top' = Top
    PROVE  Welcomed'
<1>0. PICK t : t = Top
  OBVIOUS
<1> SUFFICES ASSUME stack' # <<>>, stack # <<>>, Top' = t, Is(t, "Login")
             PROVE  \/ LastIn(main', Shows(t), Services)
                    \/ IF t \in served THEN NoneIn(main', Services)
                       ELSE Apart(main', {Msg("connected", t)}, Services)
  BY <1>0 DEF Welcomed, Is, Shows
<1>1. \/ LastIn(main, Shows(t), Services)
      \/ IF t \in served THEN NoneIn(main, Services)
         ELSE Apart(main, {Msg("connected", t)}, Services)
  BY <1>0 DEF GapInv, Welcomed
<1>2. LastIn(main, Shows(t), Services) => LastIn(main', Shows(t), Services)
  BY GrowsOrRuns, QueueStep
<1> QED
  BY <1>1, <1>2, QueueNone, QueueOrder

\* The top of the stack is shown last.
LEMMA WelcomedShows ==
    ASSUME TypeOK, NEW s \in Seq(Messages), Grows(s), stack' # <<>> => LastIn(s, Shows(Top'), Services)
    PROVE  Welcomed'
<1> SUFFICES ASSUME stack' # <<>> PROVE LastIn(main', Shows(Top'), Services)
  BY DEF Welcomed, Shows
<1> QED
  BY QueueEnd

\* A login screen that is made anew gets the service after the old one is gone.
LEMMA WelcomedRenews ==
    ASSUME TypeOK, GapInv, NEW s \in Seq(Messages), Renews(s) PROVE Welcomed'
<1>0. PICK t : t = Top
  OBVIOUS
<1>1. /\ front = t /\ Grows(s) /\ served' = served \ {t} /\ UNCHANGED <<screens, stack>>
      /\ Binds(t) => /\ NoneIn(main, {Msg("connected", t)})
                     /\ Apart(s, {Msg("connected", t)}, Services)
  BY <1>0 DEF Renews
<1> SUFFICES ASSUME Is(t, "Login") PROVE Apart(main', {Msg("connected", t)}, Services)
  BY <1>0, <1>1 DEF Welcomed, Top, Is
<1>2. Binds(t)
  BY KindsOf DEF Binds
<1>3. Apart(main, {Msg("connected", t)}, Services)
  BY <1>1, <1>2, NoneApart
<1> QED
  BY <1>1, <1>2, <1>3, QueueOrder

\* The main thread runs a message: the service goes only where nobody is bound.
LEMMA WelcomedTurn ==
    ASSUME TypeOK, FrontInv, OrderInv, GapInv, [Next]_vars, NEW s \in Seq(Messages), Turn(s)
    PROVE  Welcomed'
<1>0. PICK h, t : h = Head(main) /\ t = Top
  OBVIOUS
<1>1. /\ Runs(s) /\ main # <<>> /\ h \in Messages /\ UNCHANGED <<screens, stack>> /\ Top' = t
      /\ \A a \in Instances : /\ a \in served' => a \in served \/ h = Msg("connected", a)
                              /\ h \in Takes(a) \/ NoneIn(s, {Msg("connected", a)})
      /\ NoneIn(s, Services) \/ \E a \in Instances : h \in Frees(a)
  BY <1>0, HeadNone DEF Turn, Runs, Top
<1> SUFFICES ASSUME stack # <<>>, Is(t, "Login")
             PROVE  \/ LastIn(main', Shows(t), Services)
                    \/ IF t \in served' THEN NoneIn(main', Services)
                       ELSE Apart(main', {Msg("connected", t)}, Services)
  BY <1>0, <1>1 DEF Welcomed, Is, Shows
<1>2. /\ t \in Instances
      /\ \/ LastIn(main, Shows(t), Services)
         \/ IF t \in served THEN NoneIn(main, Services)
            ELSE Apart(main, {Msg("connected", t)}, Services)
  BY <1>0, TopType DEF GapInv, Welcomed
<1>3. NoneIn(main', Services) => Apart(main', {Msg("connected", t)}, Services)
  BY NoneApart
<1>4. CASE NoneIn(s, Services)
  <2>1. CASE LastIn(main, Shows(t), Services)
    BY <1>1, <1>3, <1>4, <2>1, QueueRuns
  <2>2. CASE t \in served /\ NoneIn(main, Services)
    BY <1>1, <1>3, <1>4, <2>2, QueueNone
  <2>3. CASE t \notin served /\ Apart(main, {Msg("connected", t)}, Services)
    <3>1. h = Msg("connected", t) => NoneIn(main', Services)
      BY <1>0, <1>1, <1>4, <2>3, QueueOrder
    <3>2. Apart(main', {Msg("connected", t)}, Services)
      BY <1>1, <1>4, <2>3, QueueOrder
    <3> QED
      BY <1>1, <1>2, <2>3, <3>1, <3>2
  <2> QED
    BY <1>2, <2>1, <2>2, <2>3
<1>5. CASE ~NoneIn(s, Services)
  <2>1. PICK a \in Instances : h \in Frees(a)
    BY <1>1, <1>5
  <2>2. h \notin Takes(t) /\ h # Msg("connected", t)
    BY <1>1, <1>2, <2>1, KindOf
  <2>3. ~NoGap
    BY <1>5, TurnCovered
  <2>4. ~NoneIn(main, {Msg("launch", t)})
    BY <1>0, <2>3 DEF GapInv, Entered
  <2>5. Unseen(t)
    BY <1>2, <2>4 DEF OrderInv, Unlaunched
  <2>6. NoneIn(main, {Msg("connected", t)}) /\ t \notin served
    <3>1. {Msg("connected", t)} \subseteq About(t) \ {Msg("launch", t)}
      BY <1>2, MessageTypes, MessageFields DEF About
    <3> QED
      BY <2>5, <3>1, NoneInLess DEF Unseen
  <2>7. NoneIn(main', {Msg("connected", t)}) /\ t \notin served'
    BY <1>1, <1>2, <2>2, <2>6, QueueNone
  <2> QED
    BY <2>7, NoneApart
<1> QED
  BY <1>4, <1>5

LEMMA WelcomedStep ==
    ASSUME TypeOK, FrontInv, OrderInv, GapInv, [Next]_vars PROVE Welcomed'
<1> USE DEF bindingVars
<1>1. ASSUME NEW s \in Seq(Messages), Voice(s) PROVE Welcomed'
  <2>1. Services \subseteq Own \union Later
    BY ServiceKinds
  <2>2. NoneIn(s, Services) /\ Grows(s) /\ UNCHANGED <<screens, stack, served>>
    BY <1>1, <2>1, NoneInLess DEF Voice
  <2>3. Top' = Top
    BY <2>2 DEF Top
  <2> QED
    BY <2>2, <2>3, WelcomedGrows
<1>2. ASSUME NEW a \in Instances, Vanishes(a) PROVE Welcomed'
  <2>1. NoneIn(<<Msg("destroy", a)>>, Services)
    BY ServiceKinds, ShortQueues
  <2> QED
    BY <1>2, <2>1, WelcomedGrows DEF Vanishes, Leaving
<1>3. ASSUME NEW a \in Instances, Stops(a) PROVE Welcomed'
  <2>1. NoneIn(<<Msg("stop", a)>>, Services)
    BY ServiceKinds, ShortQueues
  <2>2. Top' = Top
    BY <1>3 DEF Stops, Top
  <2> QED
    BY <1>3, <2>1, <2>2, WelcomedGrows DEF Stops
<1>4. ASSUME NEW b \in Instances, Opens(b) PROVE Welcomed'
  <2>1. Msg("launch", b) \in Shows(b)
    BY MessageTypes, MessageFields DEF Shows, Showing
  <2>2. LastIn(<<Msg("launch", b)>>, Shows(b), Services)
    BY <2>1, ShortQueues
  <2>3. Shows(b)' = Shows(b) /\ Top' = b
    BY <1>4 DEF Shows, Opens
  <2> QED
    BY <1>4, <2>2, <2>3, WelcomedShows DEF Opens
<1>5. ASSUME NEW b \in Instances, Returns(b) PROVE Welcomed'
  <2>0. PICK m, d, s : /\ m = Msg(IF b \in stopped THEN "restart" ELSE "resume", b)
                       /\ d = Msg("destroy", Top) /\ s = <<m, d>>
    OBVIOUS
  <2>1. m \in Shows(b)
    BY <2>0, MessageTypes, MessageFields DEF Shows, Showing
  <2>2. d \notin Services
    BY <2>0, ServiceKinds
  <2>3. LastIn(s, Shows(b), Services)
    BY <2>0, <2>1, <2>2, ShortQueues
  <2>4. s \in Seq(Messages) /\ Grows(s) /\ Top' = b
    BY <1>5, <2>0 DEF Returns, Leaving
  <2> QED
    BY <2>3, <2>4, WelcomedShows
<1> QED
  BY <1>1, <1>2, <1>3, <1>4, <1>5, WelcomedTurn, WelcomedRenews, StepKinds

LEMMA GapInvStep ==
    TypeOK /\ FrontInv /\ OrderInv /\ StackInv /\ ClientsInv /\ GapInv /\ [Next]_vars => GapInv'
BY EnteredStep, WelcomedStep DEF GapInv

LEMMA InitGap == Init => GapInv
BY EmptySeq DEF Init, GapInv, Entered, Welcomed

\* With a registration at the top, or a login that has been launched, somebody is
\* bound to ChatService after whatever the main thread has run: its onStart binds
\* before the onStop or onDestroy of the other one unbinds.  When that screen has
\* been shown, the service that a login screen got is not destroyed any more.
THEOREM EntranceKeepsTheService == Spec => []GapInv
BY InitGap, GapInvStep, AppTyped, TopIsShown, ScreensAppearInOrder, StackIsKept, ScreensAreBound, PTL
   DEF Spec

-----------------------------------------------------------------------------
(* What keeps the session *)

\* The server has logged the connection in, or is asked to.
Session == loggedIn \/ LoginAsked

\* Neither a friend list nor a chat is there or about to be.
NobodyInside ==
    /\ NoneIn(main, Oks) /\ NoneIn(sys, {Open("FriendList"), Open("Chat")})
    /\ \A x \in Instances : On(stack, x) => ~Inside(x)

\* The friend list may come.
Opening ==
    \/ ~NoneIn(main, Oks) \/ ~NoneIn(sys, {Open("FriendList")})
    \/ Is(slot, "Login") /\ LoginAsked
Over == NobodyInside /\ ~(Is(slot, "Login") /\ LoginAsked)

\* A step that the session outlives.
Continues ==
    /\ parting # "no" => parting' # "no"
    /\ LoginAsked' => LoginAsked
    /\ loggedIn' => Session
    /\ slot' = slot \/ ~Is(slot, "Login")'

LEMMA ConnectedSession == ASSUME TypeOK, OnServiceConnected PROVE ~Session' \/ Continues
<1> USE DEF connectionVars, systemVars
<1>0. PICK a : a = Head(main).a
  OBVIOUS
<1>1. CASE a \in clients /\ Is(a, "Login")
  <2>1. asked' = <<>> /\ loggedIn' = FALSE
    BY <1>0, <1>1 DEF OnServiceConnected
  <2> QED
    BY <2>1 DEF Session, LoginAsked
<1>2. CASE ~(a \in clients /\ Is(a, "Login"))
  <2>1. UNCHANGED <<screens, asked, loggedIn, parting>>
    BY <1>0, <1>2 DEF OnServiceConnected
  <2>2. slot' = slot \/ (slot' = a /\ a \in clients)
    BY <1>0 DEF OnServiceConnected
  <2> QED
    BY <1>2, <2>1, <2>2 DEF Continues, Session, LoginAsked, Is
<1> QED
  BY <1>1, <1>2

LEMMA UserSession ==
    ASSUME TypeOK, User PROVE ~Session' \/ Ask("Login", "login") \/ Continues
<1> USE DEF connectionVars, Continues, Session
<1>1. CASE Start
  BY <1>1 DEF Start, LoginAsked
<1>2. CASE Back
  BY <1>2 DEF Back, LoginAsked
<1>3. CASE Logout
  BY <1>3 DEF Logout, LoginAsked
<1>4. ASSUME NEW from, NEW to, OpenScreen(from, to) PROVE Continues
  BY <1>4 DEF OpenScreen, LoginAsked
<1>5. CASE Ask("Register", "register")
  <2>1. /\ asked' = Append(asked, "register") /\ asked \in Seq({"login", "register"})
        /\ UNCHANGED <<slot, parting, loggedIn>>
    BY <1>5 DEF Ask, TypeOK
  <2>2. \A i \in 1 .. Len(asked') : (i \in 1 .. Len(asked) /\ asked'[i] = asked[i]) \/ asked'[i] = "register"
    BY <2>1, AppendProperties
  <2> QED
    BY <2>1, <2>2 DEF LoginAsked
<1> QED
  BY <1>1, <1>2, <1>3, <1>4, <1>5 DEF User

LEMMA WorkerSession == ASSUME TypeOK, Worker PROVE ~Session' \/ Continues
<1> USE DEF Continues, Session
<1>1. CASE ConnectEnds
  BY <1>1 DEF ConnectEnds, LoginAsked
<1>2. CASE TellUp
  BY <1>2 DEF TellUp, LoginAsked
<1>3. CASE TellDown
  BY <1>3 DEF TellDown, LoginAsked
<1>4. CASE Lose
  BY <1>4 DEF Lose, LoginAsked
<1>5. ASSUME NEW ok \in BOOLEAN, Answer(ok) PROVE Continues
  <2>1. /\ asked # <<>> /\ asked' = Tail(asked) /\ asked \in Seq({"login", "register"})
        /\ UNCHANGED <<slot, parting>>
        /\ loggedIn' => loggedIn \/ Head(asked) = "login"
    BY <1>5 DEF Answer, TypeOK
  <2>2. /\ Head(asked) = asked[1] /\ 1 \in 1 .. Len(asked)
        /\ \A i \in 1 .. Len(asked') : i + 1 \in 1 .. Len(asked) /\ asked'[i] = asked[i + 1]
    <3>1. /\ Len(asked) \in Nat \ {0} /\ Head(asked) = asked[1] /\ Len(Tail(asked)) = Len(asked) - 1
          /\ \A i \in 1 .. Len(Tail(asked)) : Tail(asked)[i] = asked[i + 1]
      BY <2>1, HeadTailProperties, EmptySeq, LenProperties
    <3> QED
      BY <2>1, <3>1
  <2> QED
    BY <2>1, <2>2 DEF LoginAsked
<1> QED
  BY <1>1, <1>2, <1>3, <1>4, <1>5 DEF Worker

LEMMA SessionKinds ==
    ASSUME TypeOK, [Next]_vars PROVE ~Session' \/ Ask("Login", "login") \/ Continues
<1>1. ASSUME UNCHANGED <<asked, loggedIn, parting, slot>> PROVE Continues
  BY <1>1 DEF Continues, Session, LoginAsked
<1> USE DEF connectionVars
<1>2. CASE UNCHANGED vars
  BY <1>1, <1>2 DEF vars
<1>3. CASE System
  BY <1>1, <1>3 DEF System, SystemOpens, SystemFinishes, SystemStops
<1>4. ASSUME MainThread PROVE ~Session' \/ Continues
  <2>1. CASE OnDestroyService
    BY <2>1 DEF OnDestroyService, Session, LoginAsked
  <2>2. CASE Appear
    BY <1>1, <2>2 DEF Appear
  <2>3. CASE Resume
    BY <1>1, <2>3 DEF Resume
  <2>4. CASE OnStop
    BY <1>1, <2>4 DEF OnStop
  <2>5. CASE OnDestroy
    BY <1>1, <2>5 DEF OnDestroy
  <2>6. CASE RunStatus \/ RunLoginResult \/ RunRegisterResult
    BY <1>1, <2>6 DEF RunStatus, RunLoginResult, RunRegisterResult
  <2>7. ASSUME NEW a \in Instances, DelayedFinish(a) PROVE Continues
    BY <1>1, <2>7 DEF DelayedFinish
  <2> QED
    BY <1>4, <2>1, <2>2, <2>3, <2>4, <2>5, <2>6, <2>7, ConnectedSession DEF MainThread
<1>5. CASE Recreate
  BY <1>5 DEF Recreate, Continues, Session, LoginAsked, Is
<1> QED
  BY <1>2, <1>3, <1>4, <1>5, UserSession, WorkerSession DEF Next

\* How the login of a connection ends.
Explained == ended \in {"lost", "logout", "left", "recreated", "reconnect"}

LEMMA EndedKinds ==
    ASSUME TypeOK, [Next]_vars
    PROVE  \/ loggedIn' \/ Explained'
           \/ loggedIn /\ parting = "no" /\ OnDestroyService
           \/ ~loggedIn /\ ended' = ended
<1>0. loggedIn \in BOOLEAN
  BY DEF TypeOK
<1>1. ASSUME UNCHANGED <<loggedIn, ended>> PROVE loggedIn' \/ (~loggedIn /\ ended' = ended)
  BY <1>0, <1>1
<1> USE DEF connectionVars
<1>2. CASE UNCHANGED vars
  BY <1>1, <1>2 DEF vars
<1>3. CASE System
  BY <1>1, <1>3 DEF System, SystemOpens, SystemFinishes, SystemStops
<1>4. CASE User
  <2>1. CASE Logout
    BY <2>1 DEF Logout, Ended, Explained
  <2>2. CASE Start \/ Back
    BY <1>1, <2>2 DEF Start, Back
  <2>3. ASSUME NEW from, NEW to, OpenScreen(from, to) PROVE UNCHANGED <<loggedIn, ended>>
    BY <2>3 DEF OpenScreen
  <2>4. ASSUME NEW activity, NEW request, Ask(activity, request) PROVE UNCHANGED <<loggedIn, ended>>
    BY <2>4 DEF Ask
  <2> QED
    BY <1>1, <1>4, <2>1, <2>2, <2>3, <2>4 DEF User
<1>5. CASE Worker
  <2>1. CASE ConnectEnds \/ TellUp \/ TellDown
    BY <1>1, <2>1 DEF ConnectEnds, TellUp, TellDown
  <2>2. CASE Lose
    BY <2>2 DEF Lose, Ended, Explained
  <2>3. ASSUME NEW ok \in BOOLEAN, Answer(ok) PROVE loggedIn' \/ (~loggedIn /\ ended' = ended)
    BY <1>0, <2>3 DEF Answer
  <2> QED
    BY <1>5, <2>1, <2>2, <2>3 DEF Worker
<1>6. CASE MainThread
  <2>1. CASE OnDestroyService
    <3>1. parting \in {"no", "left", "recreated"}
      BY DEF TypeOK
    <3>2. ~loggedIn' /\ ended' = Ended(IF parting = "no" THEN "dropped" ELSE parting)
      BY <2>1 DEF OnDestroyService
    <3>3. CASE ~loggedIn
      BY <3>2, <3>3 DEF Ended
    <3>4. CASE loggedIn /\ parting # "no"
      <4>1. ended' = parting
        BY <3>2, <3>4 DEF Ended
      <4> QED
        BY <3>1, <3>4, <4>1 DEF Explained
    <3> QED
      BY <1>0, <2>1, <3>3, <3>4
  <2>2. CASE OnServiceConnected
    <3>1. \/ UNCHANGED <<loggedIn, ended>>
          \/ loggedIn' = FALSE /\ ended' = Ended("reconnect")
      BY <2>2 DEF OnServiceConnected
    <3> QED
      BY <1>1, <3>1 DEF Ended, Explained
  <2>3. CASE Appear \/ Resume \/ OnStop \/ OnDestroy
    BY <1>1, <2>3 DEF Appear, Resume, OnStop, OnDestroy
  <2>4. CASE RunStatus \/ RunLoginResult \/ RunRegisterResult
    BY <1>1, <2>4 DEF RunStatus, RunLoginResult, RunRegisterResult
  <2>5. ASSUME NEW a \in Instances, DelayedFinish(a) PROVE UNCHANGED <<loggedIn, ended>>
    BY <2>5 DEF DelayedFinish
  <2> QED
    BY <1>1, <1>6, <2>1, <2>2, <2>3, <2>4, <2>5 DEF MainThread
<1>7. CASE Recreate
  BY <1>1, <1>7 DEF Recreate
<1> QED
  BY <1>2, <1>3, <1>4, <1>5, <1>6, <1>7 DEF Next

\* What a step puts behind the messages comes from an answer at most.
LEMMA Answers ==
    ASSUME TypeOK, FrontInv, [Next]_vars
    PROVE  \E s \in Seq(Messages) : (Grows(s) \/ Runs(s)) /\ Fit(s)
BY Added DEF Voice, Fit

\* No new friend list or chat but one that was called for.
LEMMA InsideStays ==
    ASSUME TypeOK, FrontInv, OrderInv, [Next]_vars
    PROVE  /\ \A x : Inside(x)' => Inside(x) \/ Opens(x)
           /\ \A x \in Created \union {0} : Inside(x)' => Inside(x)
           /\ \A x : On(stack', x) => On(stack, x) \/ Opens(x)
           /\ \A x : Inside(x) => x \in Instances /\ x # 0
<1>1. \A x : Inside(x)' => Inside(x) \/ Opens(x)
  BY KindStays DEF Inside
<1>2. \A x : Opens(x) => x \notin Created \union {0}
  BY DEF Opens, Instances
<1>3. \A x : On(stack', x) => On(stack, x) \/ Opens(x)
  BY StepKinds DEF Voice, Turn, Renews, Opens, Vanishes, Returns, Leaving, Stops
<1>4. \A x : Inside(x) => x \in Instances /\ x # 0
  BY KindsOf DEF Inside, Instances
<1> QED
  BY <1>1, <1>2, <1>3, <1>4

LEMMA OkHead ==
    ASSUME TypeOK, NEW a \in Instances, Admits(a) PROVE ~NoneIn(main, Oks)
<1>1. PICK h : h = Head(main)
  OBVIOUS
<1>2. main # <<>> /\ h.m = "loginOk" /\ h \in Messages
  BY <1>1, HeadNone, MessageFields DEF Admits
<1> QED
  BY <1>1, <1>2, HeadNone DEF Oks

\* Nobody comes inside but through a login.
LEMMA NobodyStays ==
    ASSUME TypeOK, FrontInv, OrderInv, StackInv, [Next]_vars, NobodyInside
    PROVE  NobodyInside' \/ (Is(slot, "Login") /\ LoginAsked /\ loggedIn')
<1> SUFFICES ASSUME ~(Is(slot, "Login") /\ LoginAsked /\ loggedIn') PROVE NobodyInside'
  OBVIOUS
<1>0. PICK S : S = {Open("FriendList"), Open("Chat")}
  OBVIOUS
<1>1. NoneIn(main, Oks) /\ NoneIn(sys, S) /\ \A x \in Instances : On(stack, x) => ~Inside(x)
  BY <1>0 DEF NobodyInside
<1>2. NoneIn(main', Oks)
  <2>1. PICK s \in Seq(Messages) : (Grows(s) \/ Runs(s)) /\ Fit(s)
    BY Answers
  <2>2. NoneIn(s, Oks)
    BY <2>1, NoneInLess DEF Fit
  <2> QED
    BY <1>1, <2>1, <2>2, QueueStep
<1>3. \A a : FinishOf(a) \notin S
  BY <1>0, CallNames
<1>4. NoneIn(sys', S)
  <2>1. ASSUME NEW c \in Calls, Commands(c) PROVE NoneIn(sys', S)
    <3>1. c # Open("Chat")
      <4>1. ASSUME c = Open("Chat") PROVE FALSE
        <5>1. stack # <<>> /\ Is(Top, "FriendList")
          BY <2>1, <4>1, CallNames DEF Commands, Meant
        <5> QED
          BY <1>1, <5>1, TopType DEF Inside
      <4> QED
        BY <4>1
    <3>2. c \notin S /\ sys' = <<c>>
      BY <1>0, <2>1, <3>1 DEF Commands
    <3> QED
      BY <3>2, ShortQueues
  <2>2. ASSUME NEW a \in Instances, DelayedFinish(a) PROVE NoneIn(sys', S)
    <3>1. sys' = sys \o <<FinishOf(a)>> /\ <<FinishOf(a)>> \in Seq(Calls)
      BY <2>2, CallTypes, AppendIsConcat DEF DelayedFinish, TypeOK
    <3> QED
      BY <1>1, <1>3, <3>1, CallsLonger, ShortQueues
  <2>3. ASSUME sys # <<>>, sys' = Tail(sys) PROVE NoneIn(sys', S)
    BY <1>1, <2>3, CallsShorter
  <2>4. ASSUME NEW a \in Instances, Registers(a) PROVE NoneIn(sys', S)
    BY <1>1, <2>4 DEF Registers
  <2> QED
    BY <1>1, <2>1, <2>2, <2>3, <2>4, OkHead, CallKinds
<1>5. ASSUME NEW x \in Instances, On(stack', x), Inside(x)' PROVE FALSE
  <2>1. Opens(x)
    BY <1>1, <1>5, InsideStays, OnStack, KindStays DEF Inside, FrontInv
  <2>2. Head(sys) \in S
    BY <1>0, <1>5, <2>1 DEF Opens, Inside
  <2> QED
    BY <1>1, <2>1, <2>2, CallsShorter DEF Opens
<1> QED
  BY <1>0, <1>2, <1>4, <1>5 DEF NobodyInside

\* Who is outside does not come to the front of the inside.
LEMMA OutsideStays ==
    ASSUME TypeOK, FrontInv, OrderInv, StackInv, [Next]_vars, NobodyInside, ~Inside(front)
    PROVE  ~Inside(front)'
<1>0. PICK f : f = front'
  OBVIOUS
<1>1. Inside(front)' <=> Inside(f)'
  BY <1>0 DEF Inside, Is
<1>2. ASSUME f = front PROVE ~Inside(f)'
  <2>1. f \in Created \union {0}
    <3>1. front \in 0 .. Len(screens)
      BY DEF FrontInv, Known
    <3>2. Len(screens) \in Nat
      BY LenProperties DEF TypeOK
    <3> QED
      BY <1>2, <3>1, <3>2 DEF Created
  <2> QED
    BY <1>2, <2>1, InsideStays
<1>3. ASSUME NEW s \in Seq(Messages), Turn(s) PROVE ~Inside(f)'
  <2>1. PICK h : h = Head(main)
    OBVIOUS
  <2>2. /\ main # <<>> /\ h \in Messages /\ UNCHANGED screens
        /\ f = front \/ f = 0 \/ (h \in Showing /\ f = h.a)
    BY <1>0, <1>3, <2>1, HeadNone DEF Turn, Runs
  <2>3. Inside(f)' <=> Inside(f)
    BY <2>2 DEF Inside, Is
  <2>4. ASSUME h \in Showing, f = h.a, Inside(f) PROVE FALSE
    <3>1. f \in Instances /\ h \in Shows(f)
      BY <2>4, InsideStays DEF Shows
    <3>2. ~On(stack, f)
      BY <2>4, <3>1 DEF NobodyInside
    <3>3. NoneIn(main, Shows(f))
      BY <2>4, <3>1, <3>2 DEF StackInv, Closed
    <3> QED
      BY <2>1, <2>2, <3>1, <3>3, HeadNone
  <2> QED
    BY <2>2, <2>3, <2>4, InsideStays
<1>4. f = front \/ \E s \in Seq(Messages) : Turn(s)
  BY <1>0, StepKinds DEF Voice, Renews, Opens, Vanishes, Returns, Leaving, Stops
<1> QED
  BY <1>1, <1>2, <1>3, <1>4

\* While the session lasts the user is on screens that bind,
OnBinding ==
    Session /\ parting = "no" =>
        NoneIn(sys, {Open("About")}) /\ \A x \in Instances : On(stack, x) => Binds(x)

\* a registration that was accepted closes its screen before or after a login,
\* but not in the midst of one,
Enrolled ==
    Session => \A x \in Instances : On(stack, x) /\ Is(x, "Register") =>
        /\ Is(slot, "Login") => x \notin closing /\ NoneIn(main, {Msg("registered", x)})
        /\ x \in closing => NoneIn(main, Oks)
        /\ Apart(main, {Msg("registered", x)}, Oks)

\* some screen is there until the friend list has come,
Awaited ==
    Session /\ parting = "no" /\ Opening =>
        \E x \in Instances : On(stack, x) /\ Unless(sys, {Open("FriendList")}, {FinishOf(x)})

\* somebody is bound, unless the login has led nowhere,
Attended == Session /\ parting = "no" => NoGap \/ Over
Kept == Session /\ parting = "no" => NoneIn(main, Services) \/ (Over /\ ~Inside(front))

\* and when it is over there is a reason or the user sees nothing of it.
Accounted == loggedIn \/ Explained \/ (NobodyInside /\ ~Inside(front))

SessionInv == OnBinding /\ Enrolled /\ Awaited /\ Attended /\ Kept /\ Accounted

\* The login screen is alone when the user sends its fields.
LEMMA AskAlone ==
    ASSUME TypeOK, FrontInv, StackInv, Ask("Login", "login")
    PROVE  /\ \A x : On(stack, x) => x = Top
           /\ front = Top /\ front # 0 /\ front \in served /\ sys = <<>> /\ Is(Top, "Login")
           /\ Top \in Instances /\ On(stack, Top)
<1>1. front = Top /\ front # 0 /\ front \in served /\ sys = <<>> /\ Is(Top, "Login")
  BY DEF Ask, UserSees
<1>2. Top \in Instances /\ On(stack, Top) /\ ~Is(Top, "Register")
  BY <1>1, FrontTop, TopType, KindsOf
<1>3. ASSUME NEW x, On(stack, x) PROVE x = Top
  <2>1. x \in Instances /\ (x = Top \/ Under(stack, x, Top))
    BY <1>3, OnStack DEF FrontInv
  <2> QED
    BY <1>1, <1>2, <2>1 DEF StackInv, Layers, Entrance
<1> QED
  BY <1>1, <1>2, <1>3

LEMMA OnBindingStep ==
    ASSUME TypeOK, FrontInv, OrderInv, StackInv, OnBinding, [Next]_vars PROVE OnBinding'
<1> SUFFICES ASSUME Session', parting' = "no"
             PROVE  /\ NoneIn(sys', {Open("About")})
                    /\ \A x \in Instances : On(stack', x) => Binds(x)'
  BY DEF OnBinding
<1>1. CASE Ask("Login", "login")
  <2>1. UNCHANGED <<sys, stack, screens>>
    BY <1>1 DEF Ask, systemVars
  <2>2. sys = <<>> /\ Is(Top, "Login") /\ \A x : On(stack, x) => x = Top
    BY <1>1, AskAlone
  <2>3. ~Is(Top, "About")
    BY <2>2, KindsOf
  <2> QED
    BY <2>1, <2>2, <2>3, ShortQueues DEF Binds, Is
<1>2. CASE Continues
  <2>0. PICK o : o = Open("About")
    OBVIOUS
  <2>1. NoneIn(sys, {o}) /\ \A x \in Instances : On(stack, x) => Binds(x)
    BY <1>2, <2>0 DEF Continues, OnBinding, Session
  <2>2. o # Open("FriendList") /\ \A a : o # FinishOf(a)
    BY <2>0, CallNames
  <2>3. NoneIn(sys', {o})
    <3>1. ASSUME NEW c \in Calls, Commands(c) PROVE NoneIn(sys', {o})
      <4>1. c # o /\ sys' = <<c>>
        BY <2>0, <3>1 DEF Commands
      <4> QED
        BY <4>1, ShortQueues
    <3>2. ASSUME NEW a \in Instances, Admits(a) PROVE NoneIn(sys', {o})
      <4>1. PICK s : s = <<Open("FriendList"), FinishOf(a)>>
        OBVIOUS
      <4>2. sys' = sys \o s /\ s \in Seq(Calls)
        BY <3>2, <4>1, CallTypes DEF Admits, Activities
      <4>3. NoneIn(s, {o})
        BY <2>2, <4>1, ShortQueues
      <4> QED
        BY <2>1, <4>2, <4>3, CallsLonger
    <3>3. ASSUME NEW a \in Instances, DelayedFinish(a) PROVE NoneIn(sys', {o})
      <4>1. sys' = sys \o <<FinishOf(a)>> /\ <<FinishOf(a)>> \in Seq(Calls)
        BY <3>3, CallTypes, AppendIsConcat DEF DelayedFinish, TypeOK
      <4>2. NoneIn(<<FinishOf(a)>>, {o})
        BY <2>2, ShortQueues
      <4> QED
        BY <2>1, <4>1, <4>2, CallsLonger
    <3>4. ASSUME sys # <<>>, sys' = Tail(sys) PROVE NoneIn(sys', {o})
      BY <2>1, <3>4, CallsShorter
    <3>5. ASSUME NEW a \in Instances, Registers(a) PROVE NoneIn(sys', {o})
      BY <2>1, <3>5 DEF Registers
    <3> QED
      BY <2>1, <3>1, <3>2, <3>3, <3>4, <3>5, CallKinds
  <2>4. ASSUME NEW x \in Instances, On(stack', x) PROVE Binds(x)'
    <3>1. CASE Opens(x)
      <4>1. Head(sys) # o
        BY <2>1, <3>1, CallsShorter DEF Opens
      <4> QED
        BY <2>0, <3>1, <4>1 DEF Opens, Binds
    <3>2. CASE ~Opens(x)
      <4>1. On(stack, x)
        BY <2>4, <3>2, InsideStays
      <4> QED
        BY <2>1, <4>1, Binding, OnStack DEF FrontInv
    <3> QED
      BY <3>1, <3>2
  <2> QED
    BY <2>0, <2>3, <2>4
<1> QED
  BY <1>1, <1>2, SessionKinds

LEMMA SlotStays ==
    ASSUME TypeOK, FrontInv, OrderInv, [Next]_vars, Continues
    PROVE  Is(slot, "Login")' => Is(slot, "Login")
<1> SUFFICES ASSUME slot' = slot, Is(slot, "Login")' PROVE Is(slot, "Login")
  BY DEF Continues
<1>1. PICK l : l = slot
  OBVIOUS
<1>2. Is(l, "Login")'
  BY <1>1 DEF Is
<1>3. ~Opens(l)
  BY <1>1 DEF OrderInv, Existing, Opens, Instances
<1> QED
  BY <1>1, <1>2, <1>3, KindStays

LEMMA EnrolledStep ==
    ASSUME TypeOK, FrontInv, OrderInv, StackInv, Enrolled, [Next]_vars PROVE Enrolled'
<1> SUFFICES ASSUME Session', NEW x \in Instances, On(stack', x), Is(x, "Register")'
             PROVE  /\ Is(slot, "Login")' => x \notin closing' /\ NoneIn(main', {Msg("registered", x)})
                    /\ x \in closing' => NoneIn(main', Oks')
                    /\ Apart(main', {Msg("registered", x)}, Oks')
  BY DEF Enrolled
<1>0. Oks' = Oks
  BY DEF Oks, Messages, Events, Instances
<1>1. PICK s \in Seq(Messages) : (Grows(s) \/ Runs(s)) /\ Fit(s)
  BY Answers
<1>2. PICK r : r = Msg("registered", x)
  OBVIOUS
<1>3. r \in Registrations /\ r \notin Oks
  BY <1>2, EventMessages, MessageFields DEF Registrations, Oks, Events
<1>4. CASE Ask("Login", "login")
  <2>1. UNCHANGED <<stack, screens>>
    BY <1>4 DEF Ask, systemVars
  <2>2. x = Top /\ Is(Top, "Login") /\ Is(x, "Register")
    BY <1>4, <2>1, AskAlone DEF Is
  <2> QED
    BY <2>2, KindsOf
<1>5. CASE Opens(x)
  <2>1. x \notin Created /\ UNCHANGED closing
    BY <1>5 DEF Opens, buttonVars
  <2>2. x \notin closing
    BY <2>1 DEF OrderInv, Existing
  <2>3. NoneIn(main, {r})
    <3>1. r \in Later
      <4>1. r \in Messages /\ r.a = x
        BY <1>2, <1>3, MessageFields DEF Registrations
      <4>2. Len(screens) \in Nat /\ x \in Nat \ {0}
        BY LenProperties, AppAssumption DEF TypeOK, Instances
      <4> QED
        BY <2>1, <4>1, <4>2 DEF Created, Later
    <3> QED
      BY <3>1, NoneInLess DEF FrontInv, Known
  <2>4. NoneIn(main', {r})
    <3>0. PICK n : n = <<Msg("launch", x)>>
      OBVIOUS
    <3>1. NoneIn(n, {r})
      <4>1. r # Msg("launch", x)
        BY <1>2, MessageFields
      <4> QED
        BY <3>0, <4>1, ShortQueues
    <3>2. n \in Seq(Messages) /\ Grows(n)
      BY <1>5, <3>0 DEF Opens
    <3> QED
      BY <2>3, <3>1, <3>2, QueueNone
  <2> QED
    BY <1>2, <2>1, <2>2, <2>4, NoneApart
<1>6. CASE Continues /\ ~Opens(x)
  <2>1. Session /\ On(stack, x) /\ Is(x, "Register")
    BY <1>6, InsideStays, KindStays DEF Continues, Session
  <2>2. /\ Is(slot, "Login") => x \notin closing /\ NoneIn(main, {r})
        /\ x \in closing => NoneIn(main, Oks)
        /\ Apart(main, {r}, Oks)
    BY <1>2, <2>1 DEF Enrolled
  <2>3. x \in closing' => x \in closing \/ Registers(x)
    <3>1. ASSUME NEW a \in Instances, Admits(a) PROVE closing' = closing
      BY <3>1 DEF Admits
    <3>2. ASSUME NEW a \in Instances, Registers(a) PROVE x \in closing' => x \in closing \/ Registers(x)
      BY <3>2 DEF Registers
    <3>3. ASSUME NEW a \in Instances, DelayedFinish(a) PROVE closing' \subseteq closing
      BY <3>3 DEF DelayedFinish
    <3>4. ASSUME NEW c \in Calls, Commands(c) PROVE closing' = closing
      BY <3>4 DEF Commands, buttonVars
    <3> QED
      BY <3>1, <3>2, <3>3, <3>4, CallKinds
  <2>4. ASSUME Is(slot, "Login") PROVE NoneIn(main', {r}) /\ x \notin closing'
    <3>1. ~Is(slot, "Register")
      BY <2>4, KindsOf
    <3>2. NoneIn(s, {r})
      <4>1. NoneIn(s, Registrations)
        BY <1>1, <3>1, NoneInLess DEF Fit
      <4> QED
        BY <1>3, <4>1, NoneInLess
    <3>3. ~Registers(x)
      BY <1>2, <2>2, <2>4, HeadNone DEF Registers
    <3> QED
      BY <1>1, <2>2, <2>3, <2>4, <3>2, <3>3, QueueStep
  <2>5. Is(slot, "Login")' => Is(slot, "Login")
    BY <1>6, SlotStays
  <2>6. NoneIn(s, Oks) \/ Is(slot, "Login")
    BY <1>1, NoneInLess DEF Fit
  <2>7. ASSUME x \in closing' PROVE NoneIn(main', Oks)
    <3>1. ~Is(slot, "Login")
      BY <2>4, <2>7
    <3>2. NoneIn(s, Oks)
      BY <2>6, <3>1
    <3>3. CASE x \in closing
      BY <1>1, <2>2, <3>2, <3>3, QueueStep
    <3>4. CASE Registers(x)
      <4>1. <<>> \in Seq(Messages) /\ Runs(<<>>) /\ NoneIn(<<>>, Oks) /\ Head(main) \in {r}
        BY <1>2, <3>4, NothingGrows DEF Registers
      <4> QED
        BY <2>2, <4>1, QueueOrder
    <3> QED
      BY <2>3, <2>7, <3>3, <3>4
  <2>8. Apart(main', {r}, Oks)
    <3>1. CASE NoneIn(s, Oks)
      BY <1>1, <2>2, <3>1, QueueOrder
    <3>2. CASE Is(slot, "Login")
      BY <2>4, <3>2, NoneApart
    <3> QED
      BY <2>6, <3>1, <3>2
  <2> QED
    BY <1>0, <1>2, <2>4, <2>5, <2>7, <2>8
<1> QED
  BY <1>4, <1>5, <1>6, SessionKinds

\* The calls to finish screen x wait until the friend list was opened.
Spared(x) == Unless(sys, {Open("FriendList")}, {FinishOf(x)})

LEMMA SparedLonger ==
    ASSUME TypeOK, NEW x, NEW s \in Seq(Calls), sys' = sys \o s, Spared(x),
           \/ ~NoneIn(sys, {Open("FriendList")})
           \/ Unless(s, {Open("FriendList")}, {FinishOf(x)})
    PROVE  Spared(x)'
<1>1. sys \in Seq(Calls)
  BY DEF TypeOK
<1>2. \A A, S : Unless(sys, A, S) /\ (~NoneIn(sys, A) \/ Unless(s, A, S)) => Unless(sys \o s, A, S)
  BY <1>1, OrderLonger
<1>3. PICK A, S : A = {Open("FriendList")} /\ S = {FinishOf(x)}
  OBVIOUS
<1>4. Unless(sys', A, S)
  BY <1>2, <1>3 DEF Spared
<1> QED
  BY <1>3, <1>4 DEF Spared

LEMMA SparedShorter ==
    ASSUME TypeOK, NEW x, sys # <<>>, sys' = Tail(sys), Spared(x), Head(sys) # Open("FriendList")
    PROVE  Spared(x)' /\ Head(sys) # FinishOf(x)
<1>1. sys \in Seq(Calls)
  BY DEF TypeOK
<1>2. \A A, S : Unless(sys, A, S) /\ Head(sys) \notin A => Head(sys) \notin S /\ Unless(Tail(sys), A, S)
  BY <1>1, OrderShorter
<1>3. PICK A, S : A = {Open("FriendList")} /\ S = {FinishOf(x)}
  OBVIOUS
<1>4. Unless(sys', A, S) /\ Head(sys) \notin S
  BY <1>2, <1>3 DEF Spared
<1> QED
  BY <1>3, <1>4 DEF Spared

\* Only what the system carries out moves the stack.
LEMMA StackStays ==
    ASSUME TypeOK, FrontInv, [Next]_vars, UNCHANGED sys \/ \E s \in Seq(Calls) : sys' = sys \o s
    PROVE  UNCHANGED <<screens, stack>>
<1>1. ASSUME sys # <<>>, sys' = Tail(sys) PROVE FALSE
  <2>1. sys \in Seq(Calls) /\ Len(sys) \in Nat \ {0} /\ Len(Tail(sys)) = Len(sys) - 1
    BY <1>1, HeadTailProperties, LenProperties, EmptySeq DEF TypeOK
  <2>2. ASSUME NEW s \in Seq(Calls), sys' = sys \o s PROVE FALSE
    <3>1. Len(sys') = Len(sys) + Len(s) /\ Len(s) \in Nat
      BY <2>1, <2>2, ConcatProperties, LenProperties
    <3>2. Len(sys') = Len(sys) - 1
      BY <1>1, <2>1
    <3> QED
      BY <2>1, <3>1, <3>2
  <2>3. sys' # sys
    <3>1. ASSUME sys = Tail(sys) PROVE FALSE
      <4>1. Len(sys) = Len(Tail(sys))
        BY <3>1
      <4> QED
        BY <2>1, <4>1
    <3> QED
      BY <1>1, <3>1
  <2> QED
    BY <2>2, <2>3
<1> QED
  BY <1>1, StepKinds DEF Voice, Turn, Renews, Opens, Vanishes, Returns, Leaving, Stops

LEMMA OpeningStays ==
    ASSUME TypeOK, FrontInv, OrderInv, [Next]_vars, Continues, Opening' PROVE Opening
<1>0. PICK o : o = Open("FriendList")
  OBVIOUS
<1>1. ASSUME NoneIn(main, Oks), ~NoneIn(main', Oks) PROVE Is(slot, "Login") /\ LoginAsked
  <2>1. PICK s \in Seq(Messages) : (Grows(s) \/ Runs(s)) /\ Fit(s)
    BY Answers
  <2>2. ~NoneIn(s, Oks)
    BY <1>1, <2>1, QueueStep
  <2> QED
    BY <2>1, <2>2, NoneInLess DEF Fit
<1>2. ASSUME NoneIn(main, Oks), NoneIn(sys, {o}) PROVE NoneIn(sys', {o})
  <2>1. \A a : FinishOf(a) # o
    BY <1>0, CallNames
  <2>2. ASSUME NEW c \in Calls, Commands(c) PROVE NoneIn(sys', {o})
    <3>1. c # o /\ sys' = <<c>>
      BY <1>0, <2>2 DEF Commands
    <3> QED
      BY <3>1, ShortQueues
  <2>3. ASSUME NEW a \in Instances, DelayedFinish(a) PROVE NoneIn(sys', {o})
    <3>1. sys' = sys \o <<FinishOf(a)>> /\ <<FinishOf(a)>> \in Seq(Calls)
      BY <2>3, CallTypes, AppendIsConcat DEF DelayedFinish, TypeOK
    <3> QED
      BY <1>2, <2>1, <3>1, CallsLonger, ShortQueues
  <2>4. ASSUME sys # <<>>, sys' = Tail(sys) PROVE NoneIn(sys', {o})
    BY <1>2, <2>4, CallsShorter
  <2>5. ASSUME NEW a \in Instances, Registers(a) PROVE NoneIn(sys', {o})
    BY <1>2, <2>5 DEF Registers
  <2> QED
    BY <1>2, <2>2, <2>3, <2>4, <2>5, OkHead, CallKinds
<1>3. Is(slot, "Login")' /\ LoginAsked' => Is(slot, "Login") /\ LoginAsked
  BY SlotStays DEF Continues
<1>4. Oks' = Oks
  BY DEF Oks, Messages, Events, Instances
<1> QED
  BY <1>0, <1>1, <1>2, <1>3, <1>4 DEF Opening

\* There is another screen than the one that the user closes.
LEMMA OtherScreen ==
    ASSUME TypeOK, FrontInv, stack # <<>>, Len(stack) # 1
    PROVE  \E y \in Instances : On(stack, y) /\ y # Top
<1>1. stack \in Seq(Instances) /\ Len(stack) \in Nat \ {0, 1}
  BY LenProperties, EmptySeq DEF TypeOK
<1>2. 1 \in 1 .. Len(stack) /\ Len(stack) \in 1 .. Len(stack) /\ Top = stack[Len(stack)]
  BY <1>1 DEF Top
<1>3. stack[1] \in Instances /\ On(stack, stack[1]) /\ stack[1] # stack[Len(stack)]
  BY <1>1, <1>2, ElementOfSeq DEF On, FrontInv, Known
<1> QED
  BY <1>2, <1>3

LEMMA AwaitedStep ==
    ASSUME TypeOK, FrontInv, OrderInv, StackInv, Enrolled, Awaited, [Next]_vars PROVE Awaited'
<1> SUFFICES ASSUME Session', parting' = "no", Opening'
             PROVE  \E x \in Instances : On(stack', x) /\ Spared(x)'
  BY DEF Awaited, Spared
<1>1. CASE Ask("Login", "login")
  <2>1. PICK t : t = Top
    OBVIOUS
  <2>2. t \in Instances /\ On(stack, t) /\ sys' = <<>> /\ UNCHANGED stack
    BY <1>1, <2>1, AskAlone DEF Ask, systemVars
  <2>3. Spared(t)'
    BY <2>2, ShortOrders DEF Spared
  <2> QED
    BY <2>2, <2>3
<1>2. CASE Continues
  <2>1. Session /\ parting = "no" /\ Opening
    BY <1>2, OpeningStays DEF Continues, Session
  <2>2. PICK x \in Instances : On(stack, x) /\ Spared(x)
    BY <2>1 DEF Awaited, Spared
  <2>3. ASSUME UNCHANGED sys PROVE On(stack', x) /\ Spared(x)'
    BY <2>2, <2>3, StackStays DEF Spared
  <2>4. ASSUME NEW c \in Calls, Commands(c) PROVE \E y \in Instances : On(stack', y) /\ Spared(y)'
    <3>1. /\ sys = <<>> /\ sys' = <<c>> /\ UNCHANGED stack /\ Meant(c) /\ stack # <<>>
          /\ ~(c.op = "finish" /\ Len(stack) = 1)
      <4>1. stack # <<>>
        BY <2>2, OnStack DEF FrontInv
      <4> QED
        BY <2>4, <4>1 DEF Commands
    <3>2. ASSUME NEW y \in Instances, On(stack, y), c # FinishOf(y)
          PROVE  On(stack', y) /\ Spared(y)'
      BY <3>1, <3>2, ShortOrders DEF Spared
    <3>3. CASE c # FinishOf(x)
      BY <2>2, <3>2, <3>3
    <3>4. CASE c = FinishOf(x)
      <4>1. x = Top /\ Len(stack) # 1
        BY <3>1, <3>4, CallNames DEF Meant
      <4>2. PICK y \in Instances : On(stack, y) /\ y # Top
        BY <3>1, <4>1, OtherScreen
      <4>3. c # FinishOf(y)
        BY <3>4, <4>1, <4>2, CallNames
      <4> QED
        BY <3>2, <4>2, <4>3
    <3> QED
      BY <3>3, <3>4
  <2>5. ASSUME NEW a \in Instances, Admits(a) PROVE On(stack', x) /\ Spared(x)'
    <3>1. PICK s : s = <<Open("FriendList"), FinishOf(a)>>
      OBVIOUS
    <3>2. sys' = sys \o s /\ s \in Seq(Calls)
      BY <2>5, <3>1, CallTypes DEF Admits, Activities
    <3>3. Unless(s, {Open("FriendList")}, {FinishOf(x)})
      BY <3>1, CallNames, ShortOrders
    <3> QED
      BY <2>2, <3>2, <3>3, SparedLonger, StackStays
  <2>6. ASSUME NEW a \in Instances, DelayedFinish(a) PROVE On(stack', x) /\ Spared(x)'
    <3>1. PICK s : s = <<FinishOf(a)>>
      OBVIOUS
    <3>2. sys' = sys \o s /\ s \in Seq(Calls) /\ a \in closing
      BY <2>6, <3>1, CallTypes, AppendIsConcat DEF DelayedFinish, TypeOK
    <3>3. a # x => Unless(s, {Open("FriendList")}, {FinishOf(x)})
      BY <3>1, CallNames, ShortOrders
    <3>4. a = x => ~NoneIn(sys, {Open("FriendList")})
      <4>1. ASSUME a = x PROVE NoneIn(main, Oks) /\ ~Is(slot, "Login")
        BY <2>1, <2>2, <3>2, <4>1 DEF StackInv, Answered, Enrolled
      <4> QED
        BY <2>1, <4>1 DEF Opening
    <3> QED
      BY <2>2, <3>2, <3>3, <3>4, SparedLonger, StackStays
  <2>7. ASSUME NEW b \in Instances, Opens(b) PROVE \E y \in Instances : On(stack', y) /\ Spared(y)'
    <3>1. CASE Head(sys) = Open("FriendList")
      <4>1. NoneIn(sys, {FinishOf(b)})
        BY <2>7, StrangerUncalled DEF Opens, Uncalled
      <4>2. NoneIn(sys', {FinishOf(b)})
        BY <2>7, <4>1, CallsShorter DEF Opens
      <4> QED
        BY <2>7, <4>2 DEF Opens, Spared, Unless
    <3>2. CASE Head(sys) # Open("FriendList")
      <4>1. sys # <<>> /\ sys' = Tail(sys) /\ On(stack', x)
        BY <2>2, <2>7 DEF Opens
      <4> QED
        BY <2>2, <3>2, <4>1, SparedShorter
    <3> QED
      BY <3>1, <3>2
  <2>8. ASSUME sys # <<>>, sys' = Tail(sys), Head(sys).op = "finish",
               \A b \in Instances : ~Opens(b)
        PROVE  On(stack', x) /\ Spared(x)'
    <3>1. Head(sys) # Open("FriendList")
      BY <2>8, CallNames
    <3>2. Spared(x)' /\ Head(sys) # FinishOf(x)
      BY <2>2, <2>8, <3>1, SparedShorter
    <3>3. ASSUME NEW a, NEW s, Leaving(a, s) PROVE On(stack', x)
      BY <2>2, <3>2, <3>3 DEF Leaving
    <3>4. ASSUME UNCHANGED stack PROVE On(stack', x)
      BY <2>2, <3>4
    <3>5. On(stack', x)
      BY <2>8, <3>3, <3>4, StepKinds DEF Voice, Turn, Renews, Vanishes, Returns, Stops
    <3> QED
      BY <3>2, <3>5
  <2>9. ASSUME NEW a \in Instances, Registers(a) PROVE On(stack', x) /\ Spared(x)'
    BY <2>3, <2>9 DEF Registers
  <2> QED
    BY <2>2, <2>3, <2>4, <2>5, <2>6, <2>7, <2>8, <2>9, OpensEffect, CallKinds
<1> QED
  BY <1>1, <1>2, SessionKinds

\* A login that led nowhere leads nowhere later.
LEMMA OverStays ==
    ASSUME TypeOK, FrontInv, OrderInv, StackInv, [Next]_vars, Continues, Over PROVE Over'
<1>1. NobodyInside'
  BY NobodyStays DEF Over
<1>2. Is(slot, "Login")' /\ LoginAsked' => Is(slot, "Login") /\ LoginAsked
  BY SlotStays DEF Continues
<1> QED
  BY <1>1, <1>2 DEF Over

\* The last screen goes: no friend list is to come.
LEMMA LastGoes ==
    ASSUME TypeOK, FrontInv, OrderInv, StackInv, Awaited', [Next]_vars, Session', parting' = "no",
           NEW a \in Instances, Vanishes(a), stack' = <<>>
    PROVE  Over'
<1>1. \A x : ~On(stack', x)
  BY EmptySeq DEF On
<1>2. ~Opening'
  BY <1>1 DEF Awaited
<1>3. NoneIn(sys', {Open("Chat")})
  <2>1. sys # <<>> /\ sys' = Tail(sys) /\ sys \in Seq(Calls)
    BY DEF Vanishes, Leaving, TypeOK
  <2>2. NoneIn(sys', ByUser)
    BY <2>1, OrderShorter DEF StackInv, OneCommand
  <2>3. Open("Chat") \in ByUser
    BY CallTypes, CallNames DEF ByUser, Activities
  <2> QED
    BY <2>2, <2>3, NoneInLess
<1>4. NoneIn(sys', {Open("FriendList"), Open("Chat")})
  BY <1>2, <1>3 DEF Opening, NoneIn
<1>5. NoneIn(main', Oks)
  <2>1. Oks' = Oks
    BY DEF Oks, Messages, Events, Instances
  <2> QED
    BY <1>2, <2>1 DEF Opening
<1> QED
  BY <1>1, <1>2, <1>4, <1>5 DEF Over, NobodyInside, Opening, Oks

LEMMA AttendedStep ==
    ASSUME TypeOK, FrontInv, OrderInv, StackInv, ClientsInv, OnBinding', Awaited', Attended,
           [Next]_vars
    PROVE  Attended'
<1> SUFFICES ASSUME Session', parting' = "no" PROVE NoGap' \/ Over'
  BY DEF Attended
<1>1. CASE Ask("Login", "login")
  <2>1. front # 0 /\ front = Top /\ Is(Top, "Login")
    BY <1>1, AskAlone
  <2>2. NoGap
    BY <2>1, Settled, KindsOf DEF Binds
  <2>3. UNCHANGED <<screens, clients, main>>
    BY <1>1 DEF Ask, systemVars, bindingVars
  <2> QED
    BY <2>2, <2>3 DEF NoGap, Binders, Created, Binds, Is
<1>2. CASE Continues
  <2>1. NoGap \/ Over
    BY <1>2 DEF Attended, Continues, Session
  <2>2. ASSUME NoGap, ~NoGap' PROVE Over'
    <3>1. stack' # <<>> => Binds(Top)'
      <4>1. ASSUME stack' # <<>> PROVE Binds(Top)'
        <5>1. TypeOK'
          BY TypeStep
        <5>2. PICK t : t = Top'
          OBVIOUS
        <5>3. t \in Instances /\ On(stack', t)
          <6>1. stack' \in Seq(Instances) /\ t = stack'[Len(stack')] /\ Len(stack') \in 1 .. Len(stack')
            BY <4>1, <5>1, <5>2, LenProperties, EmptySeq DEF TypeOK, Top
          <6> QED
            BY <6>1, ElementOfSeq DEF On
        <5>4. Binds(t)'
          BY <5>3 DEF OnBinding
        <5> QED
          BY <5>2, <5>4 DEF Binds, Is
      <4> QED
        BY <4>1
    <3>2. /\ stack' = <<>>
          /\ (\E a \in Instances : Vanishes(a)) \/ (\E b \in Instances : Returns(b))
             \/ (\E a \in Instances : Stops(a))
      BY <2>2, <3>1, GapStep
    <3>3. PICK a \in Instances : Vanishes(a)
      BY <3>2 DEF Returns, Stops
    <3> QED
      BY <3>2, <3>3, LastGoes
  <2> QED
    BY <1>2, <2>1, <2>2, OverStays
<1> QED
  BY <1>1, <1>2, SessionKinds

\* Where the service goes nobody is bound, nobody inside either.
LEMMA KeptTurn ==
    ASSUME TypeOK, FrontInv, OrderInv, ClientsInv, [Next]_vars, NEW s \in Seq(Messages), Turn(s),
           ~NoneIn(s, Services)
    PROVE  ~NoGap /\ ~Inside(front)'
<1>1. ~NoGap
  BY TurnCovered
<1>2. clients' = {} /\ TypeOK' /\ ClientsInv'
  BY TypeStep, ClientsStep DEF Turn
<1>3. ~(front # 0 /\ Binds(front))'
  BY <1>2 DEF ClientsInv, FrontBound
<1>4. (TypeOK => /\ \A x, one, other : Is(x, one) /\ Is(x, other) => one = other
                 /\ \A x, activity : Is(x, activity) => x \in Created /\ x \in Instances
                 /\ \A x \in Created : \E activity \in Activities : Is(x, activity))'
  BY KindsOf, PTL
<1>5. PICK f : f = front'
  OBVIOUS
<1>6. f = 0 \/ Is(f, "About")'
  BY <1>3, <1>5 DEF Binds, Is
<1>7. ~Inside(f)'
  BY <1>2, <1>4, <1>6 DEF Inside, Instances
<1> QED
  BY <1>1, <1>5, <1>7 DEF Inside, Is

LEMMA KeptStep ==
    ASSUME TypeOK, FrontInv, OrderInv, StackInv, ClientsInv, GapInv, Attended, Kept, [Next]_vars
    PROVE  Kept'
<1>0. Services' = Services
  BY DEF Services, Msg
<1> SUFFICES ASSUME Session', parting' = "no" PROVE NoneIn(main', Services) \/ (Over' /\ ~Inside(front)')
  BY <1>0 DEF Kept
<1>1. CASE Ask("Login", "login")
  <2>1. PICK l : l = Top
    OBVIOUS
  <2>2. /\ front # 0 /\ front = Top /\ l \in served /\ Is(l, "Login")
        /\ l \in Instances /\ On(stack, l) /\ UNCHANGED main
    BY <1>1, <2>1, AskAlone DEF Ask
  <2>3. ~LastIn(main, Shows(l), Services)
    <3>1. NoneIn(main, Showing)
      BY <2>2, OrderSettles DEF NothingShows
    <3>2. NoneIn(main, Shows(l))
      BY <3>1, NoneInLess DEF Shows
    <3> QED
      BY <3>2, LastSome
  <2> QED
    <3>1. stack # <<>>
      BY <2>2, FrontTop
    <3> QED
      BY <2>1, <2>2, <2>3, <3>1 DEF GapInv, Welcomed
<1>2. CASE Continues
  <2>1. /\ NoneIn(main, Services) \/ (Over /\ ~Inside(front))
        /\ NoGap \/ Over
    BY <1>2 DEF Kept, Attended, Continues, Session
  <2>2. CASE Over /\ ~Inside(front)
    BY <1>2, <2>2, OverStays, OutsideStays DEF Over
  <2>3. CASE NoneIn(main, Services)
    <3>1. ASSUME NEW s \in Seq(Messages), Grows(s) \/ Runs(s), NoneIn(s, Services)
          PROVE  NoneIn(main', Services)
      BY <2>3, <3>1, QueueStep
    <3>2. ASSUME NEW s \in Seq(Messages), Turn(s) PROVE NoneIn(main', Services) \/ (Over' /\ ~Inside(front)')
      BY <1>2, <2>1, <3>1, <3>2, KeptTurn, OverStays DEF Turn
    <3>3. ASSUME NEW s \in Seq(Messages), Voice(s) PROVE NoneIn(main', Services)
      <4>1. Services \subseteq Own \union Later
        BY ServiceKinds
      <4> QED
        BY <3>1, <3>3, <4>1, NoneInLess DEF Voice
    <3>4. ASSUME NEW k, NEW a, k # "destroyService" PROVE Msg(k, a) \notin Services
      BY <3>4, ServiceKinds
    <3>5. ASSUME NEW b \in Instances, Opens(b) PROVE NoneIn(main', Services)
      BY <3>1, <3>4, <3>5, ShortQueues DEF Opens
    <3>6. ASSUME NEW a \in Instances, Vanishes(a) PROVE NoneIn(main', Services)
      BY <3>1, <3>4, <3>6, ShortQueues DEF Vanishes, Leaving
    <3>7. ASSUME NEW b \in Instances, Returns(b) PROVE NoneIn(main', Services)
      <4>1. PICK m, d, s : /\ m = Msg(IF b \in stopped THEN "restart" ELSE "resume", b)
                           /\ d = Msg("destroy", Top) /\ s = <<m, d>>
        OBVIOUS
      <4>2. s \in Seq(Messages) /\ Grows(s) /\ NoneIn(s, Services)
        BY <3>4, <3>7, <4>1, ShortQueues DEF Returns, Leaving
      <4> QED
        BY <3>1, <4>2
    <3>8. ASSUME NEW a \in Instances, Stops(a) PROVE NoneIn(main', Services)
      BY <3>1, <3>4, <3>8, ShortQueues DEF Stops
    <3>9. ASSUME NEW s \in Seq(Messages), Renews(s) PROVE NoneIn(main', Services)
      BY <3>1, <3>9 DEF Renews
    <3> QED
      BY <3>2, <3>3, <3>5, <3>6, <3>7, <3>8, <3>9, StepKinds
  <2> QED
    BY <2>1, <2>2, <2>3
<1> QED
  BY <1>1, <1>2, SessionKinds

LEMMA AccountedStep ==
    ASSUME TypeOK, FrontInv, OrderInv, StackInv, Kept, Accounted, [Next]_vars PROVE Accounted'
<1>1. ASSUME NobodyInside, ~Inside(front) PROVE Accounted'
  BY <1>1, NobodyStays, OutsideStays DEF Accounted
<1>2. CASE loggedIn' \/ Explained'
  BY <1>2 DEF Accounted
<1>3. CASE ~loggedIn /\ ended' = ended
  BY <1>1, <1>3 DEF Accounted, Explained
<1>4. CASE loggedIn /\ parting = "no" /\ OnDestroyService
  <2>1. PICK h : h = Head(main)
    OBVIOUS
  <2>2. main # <<>> /\ h \in Messages /\ h.m = "destroyService"
    BY <1>4, <2>1, HeadNone DEF OnDestroyService, Due
  <2>3. ~NoneIn(main, Services)
    BY <2>1, <2>2, KindOf, HeadNone
  <2> QED
    BY <1>1, <1>4, <2>3 DEF Kept, Session, Over
<1> QED
  BY <1>2, <1>3, <1>4, EndedKinds

LEMMA SessionStep ==
    TypeOK /\ FrontInv /\ OrderInv /\ StackInv /\ ClientsInv /\ GapInv /\ SessionInv /\ [Next]_vars
        => SessionInv'
<1> SUFFICES ASSUME TypeOK, FrontInv, OrderInv, StackInv, ClientsInv, GapInv, SessionInv, [Next]_vars
             PROVE  SessionInv'
  OBVIOUS
<1>1. OnBinding' /\ Enrolled' /\ Awaited'
  BY OnBindingStep, EnrolledStep, AwaitedStep DEF SessionInv
<1>2. Attended'
  BY <1>1, AttendedStep DEF SessionInv
<1> QED
  BY <1>1, <1>2, KeptStep, AccountedStep DEF SessionInv

LEMMA InitSession == Init => SessionInv
<1> SUFFICES ASSUME Init PROVE SessionInv
  OBVIOUS
<1>1. main = <<>> /\ stack = <<>> /\ sys = <<>> /\ asked = <<>> /\ loggedIn = FALSE /\ front = 0
  BY DEF Init
<1>2. /\ ~Session /\ (\A S : NoneIn(main, S) /\ NoneIn(sys, S)) /\ (\A x : ~On(stack, x)) /\ ~Inside(front)
  BY <1>1, EmptySeq, ShortQueues DEF Session, LoginAsked, On, Inside, Is
<1> QED
  BY <1>2 DEF SessionInv, OnBinding, Enrolled, Awaited, Attended, Kept, Accounted, NobodyInside

LEMMA SessionInvSuffices == SessionInv => SessionSurvivesNavigation
BY DEF SessionInv, Accounted, Explained, SessionSurvivesNavigation, Inside

\* While a login lasts or is asked for on screens that bind, somebody is bound to
\* ChatService after whatever the main thread has run, its onDestroy is not on the
\* way, and a screen is there until onLoginResult has opened the friend list - or
\* the user closed everything and no friend list will come.
THEOREM LoginIsAccountedFor == Spec => []SessionInv
BY InitSession, SessionStep, AppTyped, TopIsShown, ScreensAppearInOrder, StackIsKept, ScreensAreBound,
   EntranceKeepsTheService, PTL DEF Spec

\* The user who sees the friend list or a chat is logged in, or the login ended in
\* one of five ways: the connection was lost, the user logged out, closed the last
\* screen or opened About, a login screen that came back connected anew, or the
\* system recreated the only screen that was bound.  That nobody was bound to the
\* service for a moment of the navigation (onStop of one screen before onStart of
\* the next) is never one.
THEOREM SessionSurvives == Spec => []SessionSurvivesNavigation
BY LoginIsAccountedFor, SessionInvSuffices, PTL
=============================================================================
