---------------------------- MODULE OutboundQueue ----------------------------
(***************************************************************************)
(* What Connection::send promises: every connection is a queue.  Packets   *)
(* are put at its end and leave from its front, so the client receives     *)
(* them once each and in the order in which they were handed over,         *)
(* although the server only posts them and writes them later.              *)
(***************************************************************************)
EXTENDS SequencesExt

CONSTANT Conns

VARIABLE pending

Init == pending = [c \in Conns |-> <<>>]

\* A handler hands over packets, to one connection or to several.
Enqueue ==
    /\ DOMAIN pending' = Conns
    /\ \A c \in Conns : IsPrefix(pending[c], pending'[c])

\* The oldest packet of a connection leaves.
Leave(c) ==
    /\ pending[c] # <<>>
    /\ pending' = [pending EXCEPT ![c] = Tail(@)]

Next == Enqueue \/ \E c \in Conns : Leave(c)

Spec == Init /\ [][Next]_pending
=============================================================================
