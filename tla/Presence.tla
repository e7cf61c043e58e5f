------------------------------ MODULE Presence ------------------------------
(***************************************************************************)
(* What the sessions promise to the users: a user is offline or in session *)
(* on one connection, goes online only from offline, and leaves a session  *)
(* by going offline, never by being taken over; no connection serves two   *)
(* users.                                                                  *)
(***************************************************************************)
CONSTANTS Conns, Users, NoConn

VARIABLE session \* [Users -> Conns \union {NoConn}]

Init == session = [u \in Users |-> NoConn]

LogIn(u, c) ==
    /\ session[u] = NoConn
    /\ \A v \in Users : session[v] # c
    /\ session' = [session EXCEPT ![u] = c]

LogOut(u) ==
    /\ session[u] # NoConn
    /\ session' = [session EXCEPT ![u] = NoConn]

\* The server stops.
LogOutAll == session' = [u \in Users |-> NoConn]

Next ==
    \/ \E u \in Users : LogOut(u) \/ \E c \in Conns : LogIn(u, c)
    \/ LogOutAll

Spec == Init /\ [][Next]_session
=============================================================================
