---------------------------- MODULE DatabasePool ----------------------------
(***************************************************************************)
(* The pool of MySQL connections: the constructor, get_connection and the  *)
(* deleter of the handle it returns, used by any number of threads.  Both  *)
(* run under mutex_, so each is one action; a thread that finds the pool   *)
(* empty waits on cv_ and tries again when it is woken.                    *)
(*                                                                         *)
(* A slot is one of the pool_size_ connections that the constructor tries  *)
(* to make.  A connection that was lost and replaced keeps its slot.       *)
(***************************************************************************)
EXTENDS Integers, Sequences, FiniteSets

CONSTANTS
    Threads,
    PoolSize,   \* pool_size_
    NoSlot

ASSUME ConstantsAssumption ==
    /\ PoolSize \in Nat
    /\ IsFiniteSet(Threads)
    /\ NoSlot \notin 1..PoolSize

Slots == 1..PoolSize

VARIABLES
    dbUp,    \* the MySQL server accepts connections
    alive,   \* slots whose connection works
    idle,    \* connections_
    state,   \* what each thread does
    held,    \* the slot whose handle the thread holds
    lost     \* history: slots without a connection, for ever

poolVars == <<idle, state, held, lost>>
vars == <<dbUp, alive, poolVars>>

ThreadStates == {"out", "waiting", "woken", "using"}

TypeOK ==
    /\ dbUp \in BOOLEAN
    /\ alive \subseteq Slots
    /\ idle \in Seq(Slots)
    /\ state \in [Threads -> ThreadStates]
    /\ held \in [Threads -> Slots \union {NoSlot}]
    /\ lost \subseteq Slots

\* DatabasePool::DatabasePool keeps the connections that could be made: the
\* first ones, in the numbering of the slots that is chosen here.
Init ==
    /\ dbUp = TRUE
    /\ \E made \in 0..PoolSize : alive = 1..made /\ idle = [i \in 1..made |-> i]
    /\ state = [t \in Threads |-> "out"]
    /\ held = [t \in Threads |-> NoSlot]
    /\ lost = Slots \ alive

InState(s) == {t \in Threads : state[t] = s}

-----------------------------------------------------------------------------
(* The MySQL server *)

\* The server goes down with all its connections, or comes back.
DbDown == dbUp /\ dbUp' = FALSE /\ alive' = {} /\ UNCHANGED poolVars
DbUp == ~dbUp /\ dbUp' = TRUE /\ UNCHANGED <<alive, poolVars>>

\* The server closes a connection, for example one that was idle too long.
ConnectionDies(s) == s \in alive /\ alive' = alive \ {s} /\ UNCHANGED <<dbUp, poolVars>>

-----------------------------------------------------------------------------
(* get_connection *)

\* The pool is empty: wait, or wait again.
Wait(t) ==
    /\ state[t] \in {"out", "woken"}
    /\ idle = <<>>
    /\ state' = [state EXCEPT ![t] = "waiting"]
    /\ UNCHANGED <<dbUp, alive, idle, held, lost>>

\* A wake-up without a notification, which the predicate of wait allows for.
SpuriousWakeup(t) ==
    /\ state[t] = "waiting"
    /\ state' = [state EXCEPT ![t] = "woken"]
    /\ UNCHANGED <<dbUp, alive, idle, held, lost>>

\* Mutation: the connection stays in the pool.
TakeWithoutPop(t) ==
    /\ state[t] \in {"out", "woken"} /\ idle # <<>>
    /\ state' = [state EXCEPT ![t] = "using"]
    /\ held' = [held EXCEPT ![t] = Head(idle)]
    /\ UNCHANGED <<dbUp, alive, idle, lost>>

\* Mutation: the handle of a connection that could not be replaced is released
\* like any other, as a shared_ptr's deleter would do with a null pointer.
TakeNull(t) ==
    /\ state[t] \in {"out", "woken"} /\ idle # <<>>
    /\ idle' = Tail(idle)
    /\ state' = [state EXCEPT ![t] = "using"]
    /\ IF Head(idle) \in alive
       THEN held' = [held EXCEPT ![t] = Head(idle)] /\ UNCHANGED lost
       ELSE lost' = lost \union {Head(idle)} /\ UNCHANGED held
    /\ UNCHANGED <<dbUp, alive>>

\* The oldest connection is taken and pinged; a dead one is replaced.  When it
\* cannot be, the caller gets a null handle, whose deleter never runs.
Take(t) ==
    /\ state[t] \in {"out", "woken"}
    /\ idle # <<>>
    /\ idle' = Tail(idle)
    /\ LET s == Head(idle)
       IN  \/ /\ s \in alive \/ dbUp
              /\ alive' = alive \union {s}
              /\ state' = [state EXCEPT ![t] = "using"]
              /\ held' = [held EXCEPT ![t] = s]
              /\ UNCHANGED lost
           \/ /\ s \notin alive
              /\ lost' = lost \union {s}
              /\ state' = [state EXCEPT ![t] = "out"]
              /\ UNCHANGED <<alive, held>>
    /\ UNCHANGED dbUp

\* Mutation: the waiting threads are not notified.
ReleaseSilently(t) ==
    /\ state[t] = "using"
    /\ idle' = Append(idle, held[t])
    /\ held' = [held EXCEPT ![t] = NoSlot]
    /\ state' = [state EXCEPT ![t] = "out"]
    /\ UNCHANGED <<dbUp, alive, lost>>

\* Mutation: a dead connection is closed instead of going back to the pool.
ReleaseAlive(t) ==
    /\ state[t] = "using"
    /\ idle' = IF held[t] \in alive THEN Append(idle, held[t]) ELSE idle
    /\ held' = [held EXCEPT ![t] = NoSlot]
    /\ \/ InState("waiting") = {} /\ state' = [state EXCEPT ![t] = "out"]
       \/ \E w \in InState("waiting") :
            state' = [state EXCEPT ![t] = "out", ![w] = "woken"]
    /\ UNCHANGED <<dbUp, alive, lost>>

\* The deleter of the handle: the connection goes to the end of the pool, in
\* whatever condition it is, and one waiting thread is notified.
Release(t) ==
    /\ state[t] = "using"
    /\ idle' = Append(idle, held[t])
    /\ held' = [held EXCEPT ![t] = NoSlot]
    /\ \/ /\ InState("waiting") = {}
          /\ state' = [state EXCEPT ![t] = "out"]
       \/ \E w \in InState("waiting") :
            state' = [state EXCEPT ![t] = "out", ![w] = "woken"]
    /\ UNCHANGED <<dbUp, alive, lost>>

Next ==
    \/ DbDown \/ DbUp \/ \E s \in Slots : ConnectionDies(s)
    \/ \E t \in Threads : Wait(t) \/ SpuriousWakeup(t) \/ Take(t) \/ Release(t)

Spec == Init /\ [][Next]_vars

-----------------------------------------------------------------------------
(* Properties *)

InPool(s) == \E i \in 1..Len(idle) : idle[i] = s

\* A connection is used by one thread at a time: it is never in the pool twice,
\* nor in the pool while a thread holds it, nor held by two.
ExclusiveUse ==
    /\ \A i, j \in 1..Len(idle) : idle[i] = idle[j] => i = j
    /\ \A t \in Threads : held[t] # NoSlot => ~InPool(held[t])
    /\ \A t, w \in Threads : held[t] # NoSlot /\ held[t] = held[w] => t = w

\* Every slot is in the pool, in use or lost: none leaks on any other path, in
\* particular on the early returns of the functions that use a handle.
SlotsAccounted ==
    \A s \in Slots :
        s \notin lost <=> (InPool(s) \/ \E t \in Threads : held[t] = s)

\* No wake-up is lost: while threads wait, each connection in the pool has a
\* woken thread on its way to it.
NoLostWakeup ==
    InState("waiting") # {} => Len(idle) <= Cardinality(InState("woken"))

\* A thread waits with nobody left to notify it, neither a user of a handle nor
\* a woken thread that will be one, only when every connection is lost.
StuckOnlyWhenLost ==
    /\ InState("waiting") # {}
    /\ InState("using") \union InState("woken") = {}
    => lost = Slots
=============================================================================
