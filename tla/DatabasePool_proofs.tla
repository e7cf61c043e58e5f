------------------------- MODULE DatabasePool_proofs -------------------------
(***************************************************************************)
(* Theorems about DatabasePool, for any threads and any pool size.         *)
(***************************************************************************)
EXTENDS DatabasePool, SequenceTheorems, FiniteSetTheorems, TLAPS

\* A handle is held by the threads that use one, and by them only.
HeldInUse ==
    \A t \in Threads : IF state[t] = "using" THEN held[t] \in Slots ELSE held[t] = NoSlot

PoolInv == TypeOK /\ HeldInUse /\ ExclusiveUse /\ SlotsAccounted

\* What popping a queue without duplicates does: the head is gone for good and
\* the others stay, each once.
LEMMA PopDistinct ==
    ASSUME NEW q \in Seq(Slots), q # <<>>,
           \A i, j \in 1..Len(q) : q[i] = q[j] => i = j
    PROVE  /\ Head(q) \in Slots /\ Tail(q) \in Seq(Slots)
           /\ Head(q) = q[1] /\ 1 \in 1..Len(q)
           /\ \A i, j \in 1..Len(Tail(q)) : Tail(q)[i] = Tail(q)[j] => i = j
           /\ \A i \in 1..Len(Tail(q)) : Tail(q)[i] # Head(q)
           /\ \A i \in 1..Len(Tail(q)) : i + 1 \in 1..Len(q) /\ Tail(q)[i] = q[i + 1]
           /\ \A i \in 1..Len(q) : i # 1 => i - 1 \in 1..Len(Tail(q)) /\ Tail(q)[i - 1] = q[i]
<1>1. /\ Head(q) \in Slots /\ Tail(q) \in Seq(Slots) /\ Head(q) = q[1]
      /\ Len(q) \in Nat /\ Len(q) > 0 /\ Len(Tail(q)) = Len(q) - 1
      /\ \A i \in 1..Len(Tail(q)) : Tail(q)[i] = q[i + 1]
  BY HeadTailProperties, EmptySeq, LenProperties
<1>2. QED
  BY <1>1

\* What pushing an element that is not in the queue does.
LEMMA PushDistinct ==
    ASSUME NEW q \in Seq(Slots), NEW s \in Slots,
           \A i, j \in 1..Len(q) : q[i] = q[j] => i = j,
           \A i \in 1..Len(q) : q[i] # s
    PROVE  /\ Append(q, s) \in Seq(Slots)
           /\ Len(Append(q, s)) = Len(q) + 1 /\ Len(q) + 1 \in 1..(Len(q) + 1)
           /\ \A i, j \in 1..Len(Append(q, s)) :
                Append(q, s)[i] = Append(q, s)[j] => i = j
           /\ \A i \in 1..Len(q) : i \in 1..(Len(q) + 1) /\ Append(q, s)[i] = q[i]
           /\ Append(q, s)[Len(q) + 1] = s
           /\ \A i \in 1..(Len(q) + 1) : i \in 1..Len(q) \/ Append(q, s)[i] = s
<1>1. /\ Append(q, s) \in Seq(Slots) /\ Len(Append(q, s)) = Len(q) + 1
      /\ \A i \in 1..Len(q) : Append(q, s)[i] = q[i]
      /\ Append(q, s)[Len(q) + 1] = s /\ Len(q) \in Nat
  BY AppendProperties, LenProperties
<1>2. QED
  BY <1>1

\* The constructor leaves every connection it made in the pool, once.
LEMMA InitPool == Init => PoolInv
<1> SUFFICES ASSUME Init PROVE PoolInv
  OBVIOUS
<1> PICK made \in 0..PoolSize : alive = 1..made /\ idle = [i \in 1..made |-> i]
  BY DEF Init
<1>1. /\ made \in Nat /\ 1..made \subseteq Slots
      /\ idle \in Seq(Slots) /\ Len(idle) = made
      /\ \A i \in 1..made : idle[i] = i
  BY ConstantsAssumption DEF Slots
<1>2. TypeOK
  BY <1>1 DEF Init, TypeOK, ThreadStates
<1>3. HeldInUse
  BY DEF Init, HeldInUse
<1>4. ExclusiveUse
  BY <1>1 DEF Init, ExclusiveUse
<1>5. SlotsAccounted
  <2> SUFFICES ASSUME NEW s \in Slots
               PROVE  s \notin lost <=> (InPool(s) \/ \E t \in Threads : held[t] = s)
    BY DEF SlotsAccounted
  <2>1. s \notin lost <=> s \in 1..made
    BY DEF Init
  <2>2. InPool(s) <=> s \in 1..made
    BY <1>1 DEF InPool
  <2>3. \A t \in Threads : held[t] # s
    BY ConstantsAssumption DEF Init, Slots
  <2>4. QED
    BY <2>1, <2>2, <2>3
<1>6. QED
  BY <1>2, <1>3, <1>4, <1>5 DEF PoolInv

\* Steps that touch neither the queue nor a handle.
LEMMA QuietStep ==
    ASSUME PoolInv, UNCHANGED <<idle, held, lost>>, TypeOK',
           \A t \in Threads : state[t] = "using" <=> state'[t] = "using"
    PROVE  PoolInv'
<1>1. HeldInUse'
  BY DEF PoolInv, HeldInUse
<1>2. ExclusiveUse' /\ SlotsAccounted'
  BY DEF PoolInv, ExclusiveUse, SlotsAccounted, InPool
<1>3. QED
  BY <1>1, <1>2 DEF PoolInv

\* get_connection keeps the invariant: the popped slot is held or lost.
LEMMA TakeKeeps ==
    ASSUME PoolInv, NEW t \in Threads, Take(t)
    PROVE  PoolInv'
<1> PICK s \in Slots : s = Head(idle)
  BY PopDistinct DEF PoolInv, TypeOK, ExclusiveUse, Take
<1>1. /\ idle' = Tail(idle) /\ idle' \in Seq(Slots)
      /\ s = idle[1] /\ 1 \in 1..Len(idle)
      /\ \A i, j \in 1..Len(idle') : idle'[i] = idle'[j] => i = j
      /\ \A i \in 1..Len(idle') : idle'[i] # s
      /\ \A i \in 1..Len(idle') : i + 1 \in 1..Len(idle) /\ idle'[i] = idle[i + 1]
      /\ \A i \in 1..Len(idle) : i # 1 => i - 1 \in 1..Len(idle') /\ idle'[i - 1] = idle[i]
  BY PopDistinct DEF PoolInv, TypeOK, ExclusiveUse, Take
<1>2. InPool(s) /\ ~InPool(s)'
  BY <1>1 DEF InPool
<1>3. \A r \in Slots : r # s => (InPool(r)' <=> InPool(r))
  <2> SUFFICES ASSUME NEW r \in Slots, r # s PROVE InPool(r)' <=> InPool(r)
    OBVIOUS
  <2>1. ASSUME NEW i \in 1..Len(idle'), idle'[i] = r PROVE InPool(r)
    BY <1>1, <2>1 DEF InPool
  <2>2. ASSUME NEW i \in 1..Len(idle), idle[i] = r PROVE InPool(r)'
    <3>1. i - 1 \in 1..Len(idle') /\ idle'[i - 1] = r
      BY <1>1, <2>2
    <3>2. QED
      BY <3>1 DEF InPool
  <2>3. QED
    BY <2>1, <2>2 DEF InPool
<1>4. \A w \in Threads : held[w] # s
  BY <1>1, <1>2, ConstantsAssumption DEF PoolInv, ExclusiveUse, Slots
<1>5. state[t] # "using" /\ held[t] = NoSlot
  BY DEF PoolInv, HeldInUse, Take
<1>6. CASE /\ state' = [state EXCEPT ![t] = "using"]
           /\ held' = [held EXCEPT ![t] = s]
           /\ UNCHANGED lost /\ alive' = alive \union {s} /\ UNCHANGED dbUp
  <2>1. TypeOK'
    BY <1>1, <1>6 DEF PoolInv, TypeOK, ThreadStates
  <2>2. HeldInUse'
    BY <1>1, <1>6 DEF PoolInv, TypeOK, HeldInUse
  <2>3. /\ held'[t] = s /\ \A w \in Threads : w # t => held'[w] = held[w]
    BY <1>6 DEF PoolInv, TypeOK
  <2>4. ExclusiveUse'
    <3>1. \A w \in Threads : held'[w] # NoSlot =>
             \A i \in 1..Len(idle') : idle'[i] # held'[w]
      <4> SUFFICES ASSUME NEW w \in Threads, held'[w] # NoSlot
                   PROVE  \A i \in 1..Len(idle') : idle'[i] # held'[w]
        OBVIOUS
      <4>1. CASE w = t
        BY <4>1, <2>3, <1>1
      <4>2. CASE w # t
        BY <4>2, <2>3, <1>1 DEF PoolInv, ExclusiveUse, InPool
      <4>3. QED
        BY <4>1, <4>2
    <3>2. \A w, v \in Threads : held'[w] # NoSlot /\ held'[w] = held'[v] => w = v
      BY <2>3, <1>4 DEF PoolInv, ExclusiveUse
    <3>3. QED
      BY <1>1, <3>1, <3>2 DEF ExclusiveUse, InPool
  <2>5. SlotsAccounted'
    <3> SUFFICES ASSUME NEW r \in Slots
                 PROVE  r \notin lost' <=> (InPool(r)' \/ \E w \in Threads : held'[w] = r)
      BY DEF SlotsAccounted, Slots
    <3>1. CASE r = s
      BY <3>1, <1>2, <1>6, <2>3 DEF PoolInv, SlotsAccounted
    <3>2. CASE r # s
      BY <3>2, <1>3, <1>5, <1>6, <2>3, ConstantsAssumption
      DEF PoolInv, SlotsAccounted, Slots
    <3>3. QED
      BY <3>1, <3>2
  <2>6. QED
    BY <2>1, <2>2, <2>4, <2>5 DEF PoolInv
<1>7. CASE /\ lost' = lost \union {s}
           /\ state' = [state EXCEPT ![t] = "out"]
           /\ UNCHANGED <<alive, held>> /\ UNCHANGED dbUp
  <2>1. TypeOK'
    BY <1>1, <1>7 DEF PoolInv, TypeOK, ThreadStates
  <2>2. HeldInUse'
    BY <1>5, <1>7 DEF PoolInv, TypeOK, HeldInUse
  <2>3. ExclusiveUse'
    BY <1>1, <1>7 DEF PoolInv, ExclusiveUse, InPool
  <2>4. SlotsAccounted'
    <3> SUFFICES ASSUME NEW r \in Slots
                 PROVE  r \notin lost' <=> (InPool(r)' \/ \E w \in Threads : held'[w] = r)
      BY DEF SlotsAccounted, Slots
    <3>1. CASE r = s
      BY <3>1, <1>2, <1>4, <1>7
    <3>2. CASE r # s
      BY <3>2, <1>3, <1>7 DEF PoolInv, SlotsAccounted
    <3>3. QED
      BY <3>1, <3>2
  <2>5. QED
    BY <2>1, <2>2, <2>3, <2>4 DEF PoolInv
<1>8. QED
  BY <1>6, <1>7 DEF Take

\* The deleter keeps the invariant: the held slot goes back, once.
LEMMA ReleaseKeeps ==
    ASSUME PoolInv, NEW t \in Threads, Release(t)
    PROVE  PoolInv'
<1> PICK s \in Slots : s = held[t]
  BY DEF Release, PoolInv, HeldInUse
<1>1. state[t] = "using" /\ s # NoSlot
  BY ConstantsAssumption DEF Release, Slots
<1>2. ~InPool(s)
  BY <1>1 DEF PoolInv, ExclusiveUse
<1>3. /\ idle' = Append(idle, s) /\ idle' \in Seq(Slots)
      /\ Len(idle') = Len(idle) + 1 /\ Len(idle) + 1 \in 1..(Len(idle) + 1)
      /\ \A i, j \in 1..Len(idle') : idle'[i] = idle'[j] => i = j
      /\ \A i \in 1..Len(idle) : i \in 1..(Len(idle) + 1) /\ idle'[i] = idle[i]
      /\ idle'[Len(idle) + 1] = s
      /\ \A i \in 1..(Len(idle) + 1) : i \in 1..Len(idle) \/ idle'[i] = s
  BY <1>1, <1>2, PushDistinct DEF PoolInv, TypeOK, ExclusiveUse, InPool, Release
<1>4. InPool(s)' /\ \A r \in Slots : r # s => (InPool(r)' <=> InPool(r))
  BY <1>3 DEF InPool
<1>5. /\ held'[t] = NoSlot
      /\ \A w \in Threads : w # t => held'[w] = held[w] /\ held[w] # s
  BY <1>1 DEF PoolInv, TypeOK, ExclusiveUse, Release
<1>6. /\ state' \in [Threads -> ThreadStates]
      /\ state'[t] # "using"
      /\ \A w \in Threads : w # t => (state'[w] = "using" <=> state[w] = "using")
  BY <1>1 DEF PoolInv, TypeOK, ThreadStates, Release, InState
<1>7. TypeOK'
  BY <1>3, <1>6 DEF PoolInv, TypeOK, Release
<1>8. HeldInUse'
  BY <1>5, <1>6 DEF PoolInv, HeldInUse
<1>9. ExclusiveUse'
  <2>1. \A w \in Threads : held'[w] # NoSlot =>
           \A i \in 1..Len(idle') : idle'[i] # held'[w]
    <3> SUFFICES ASSUME NEW w \in Threads, held'[w] # NoSlot
                 PROVE  \A i \in 1..Len(idle') : idle'[i] # held'[w]
      OBVIOUS
    <3>1. w # t /\ held'[w] = held[w] /\ held[w] # s /\ ~InPool(held[w])
      BY <1>5 DEF PoolInv, ExclusiveUse
    <3>2. QED
      BY <3>1, <1>3 DEF InPool
  <2>2. \A w, v \in Threads : held'[w] # NoSlot /\ held'[w] = held'[v] => w = v
    BY <1>5 DEF PoolInv, ExclusiveUse
  <2>3. QED
    BY <1>3, <2>1, <2>2 DEF ExclusiveUse, InPool
<1>10. SlotsAccounted'
  <2> SUFFICES ASSUME NEW r \in Slots
               PROVE  r \notin lost' <=> (InPool(r)' \/ \E w \in Threads : held'[w] = r)
    BY DEF SlotsAccounted, Slots
  <2>1. lost' = lost
    BY DEF Release
  <2>2. CASE r = s
    BY <2>1, <2>2, <1>4 DEF PoolInv, SlotsAccounted
  <2>3. CASE r # s
    BY <2>1, <2>3, <1>4, <1>5, ConstantsAssumption DEF PoolInv, SlotsAccounted, Slots
  <2>4. QED
    BY <2>2, <2>3
<1>11. QED
  BY <1>7, <1>8, <1>9, <1>10 DEF PoolInv

\* Every step keeps the invariant.
LEMMA NextPool == PoolInv /\ [Next]_vars => PoolInv'
<1> SUFFICES ASSUME PoolInv, [Next]_vars PROVE PoolInv'
  OBVIOUS
<1>1. CASE DbDown \/ DbUp \/ \E s \in Slots : ConnectionDies(s)
  <2>1. TypeOK' /\ UNCHANGED <<idle, held, lost, state>>
    BY <1>1 DEF PoolInv, TypeOK, DbDown, DbUp, ConnectionDies, poolVars
  <2>2. QED
    BY <2>1, QuietStep
<1>2. ASSUME NEW t \in Threads, Wait(t) \/ SpuriousWakeup(t) PROVE PoolInv'
  <2>1. TypeOK' /\ UNCHANGED <<idle, held, lost>>
    BY <1>2 DEF PoolInv, TypeOK, ThreadStates, Wait, SpuriousWakeup
  <2>2. \A w \in Threads : state[w] = "using" <=> state'[w] = "using"
    BY <1>2 DEF PoolInv, TypeOK, Wait, SpuriousWakeup
  <2>3. QED
    BY <2>1, <2>2, QuietStep
<1>3. CASE UNCHANGED vars
  <2>1. TypeOK' /\ UNCHANGED <<idle, held, lost, state>>
    BY <1>3 DEF PoolInv, TypeOK, vars, poolVars
  <2>2. QED
    BY <2>1, QuietStep
<1>4. QED
  BY <1>1, <1>2, <1>3, TakeKeeps, ReleaseKeeps DEF Next

\* The pool's invariant holds in every reachable state.
LEMMA PoolInvariant == Spec => []PoolInv
  BY InitPool, NextPool, PTL DEF Spec

\* The queue of DatabasePool holds connections only, for any number of threads
\* and any pool size.
THEOREM PoolTypeCorrect == Spec => []TypeOK
<1>1. PoolInv => TypeOK
  BY DEF PoolInv
<1>2. QED
  BY <1>1, PoolInvariant, PTL

\* get_connection never hands out a connection that is in use, and the deleter
\* never puts one back twice.
THEOREM ConnectionsAreExclusive == Spec => []ExclusiveUse
<1>1. PoolInv => ExclusiveUse
  BY DEF PoolInv
<1>2. QED
  BY <1>1, PoolInvariant, PTL

\* A slot that is neither in the queue nor in use is one that get_connection
\* failed to reconnect: nothing else makes the pool smaller.
THEOREM NoSlotLeaks == Spec => []SlotsAccounted
<1>1. PoolInv => SlotsAccounted
  BY DEF PoolInv
<1>2. QED
  BY <1>1, PoolInvariant, PTL

-----------------------------------------------------------------------------
(* The wake-ups *)

\* The woken threads can be counted, before a step and after it.
LEMMA WokenCount ==
    /\ IsFiniteSet(InState("woken")) /\ Cardinality(InState("woken")) \in Nat
    /\ Cardinality(InState("woken"))' \in Nat
<1>1. ASSUME NEW S \in SUBSET Threads
      PROVE  IsFiniteSet(S) /\ Cardinality(S) \in Nat
  BY ConstantsAssumption, FS_Subset, FS_CardinalityType
<1>2. InState("woken") \subseteq Threads /\ InState("woken")' \subseteq Threads
  BY DEF InState
<1>3. QED
  BY <1>1, <1>2

\* Taking a connection uses up at most one wake-up.
LEMMA TakeWakes ==
    ASSUME PoolInv, NoLostWakeup, NEW t \in Threads, Take(t)
    PROVE  NoLostWakeup'
<1>1. Len(idle') = Len(idle) - 1 /\ Len(idle) \in Nat
  BY HeadTailProperties, LenProperties DEF PoolInv, TypeOK, Take
<1>2. /\ state'[t] \in {"using", "out"}
      /\ \A w \in Threads : w # t => state'[w] = state[w]
      /\ state[t] \in {"out", "woken"}
  BY DEF PoolInv, TypeOK, Take
<1>3. InState("waiting")' = InState("waiting")
  BY <1>2 DEF InState
<1>4. Cardinality(InState("woken"))' >= Cardinality(InState("woken")) - 1
  <2>1. CASE state[t] = "woken"
    <3>1. InState("woken")' = InState("woken") \ {t} /\ t \in InState("woken")
      BY <1>2, <2>1 DEF InState
    <3>2. Cardinality(InState("woken") \ {t}) = Cardinality(InState("woken")) - 1
      BY <3>1, WokenCount, FS_RemoveElement
    <3>3. QED
      BY <3>1, <3>2, WokenCount
  <2>2. CASE state[t] = "out"
    <3>1. InState("woken")' = InState("woken")
      BY <1>2, <2>2 DEF InState
    <3>2. QED
      BY <3>1, WokenCount
  <2>3. QED
    BY <1>2, <2>1, <2>2
<1>5. QED
  BY <1>1, <1>3, <1>4, WokenCount DEF NoLostWakeup

\* A notification wakes one of the waiting threads, if there is one: as many as
\* the connections that came back.
LEMMA ReleaseWakes ==
    ASSUME PoolInv, NoLostWakeup, NEW t \in Threads, Release(t)
    PROVE  NoLostWakeup'
<1>1. Len(idle') = Len(idle) + 1 /\ Len(idle) \in Nat
  <2>1. held[t] \in Slots
    BY DEF PoolInv, HeldInUse, Release
  <2>2. QED
    BY <2>1, AppendProperties, LenProperties DEF PoolInv, TypeOK, Release
<1>2. CASE InState("waiting") = {} /\ state' = [state EXCEPT ![t] = "out"]
  <2>1. InState("waiting")' = {}
    BY <1>2 DEF PoolInv, TypeOK, InState
  <2>2. QED
    BY <2>1 DEF NoLostWakeup
<1>3. ASSUME NEW w \in InState("waiting"),
             state' = [state EXCEPT ![t] = "out", ![w] = "woken"]
      PROVE  NoLostWakeup'
  <2>1. InState("woken")' = InState("woken") \union {w} /\ w \notin InState("woken")
    BY <1>3 DEF PoolInv, TypeOK, InState, Release
  <2>2. Cardinality(InState("woken"))' = Cardinality(InState("woken")) + 1
    <3>1. Cardinality(InState("woken") \union {w}) = Cardinality(InState("woken")) + 1
      BY <2>1, WokenCount, FS_AddElement
    <3>2. QED
      BY <2>1, <3>1
  <2>3. Len(idle) <= Cardinality(InState("woken"))
    BY DEF NoLostWakeup
  <2>4. QED
    BY <1>1, <2>2, <2>3, WokenCount DEF NoLostWakeup
<1>4. QED
  BY <1>2, <1>3 DEF Release

\* A thread waits only when the pool is empty, and a spurious wake-up only adds
\* to the woken threads.
LEMMA WaitWakes ==
    ASSUME PoolInv, NoLostWakeup, NEW t \in Threads, Wait(t) \/ SpuriousWakeup(t)
    PROVE  NoLostWakeup'
<1>1. CASE Wait(t)
  <2>1. Len(idle') = 0
    BY <1>1, EmptySeq DEF Wait
  <2>2. QED
    BY <2>1, WokenCount DEF NoLostWakeup
<1>2. CASE SpuriousWakeup(t)
  <2>1. InState("woken")' = InState("woken") \union {t} /\ t \notin InState("woken")
    BY <1>2 DEF PoolInv, TypeOK, InState, SpuriousWakeup
  <2>2. Cardinality(InState("woken"))' = Cardinality(InState("woken")) + 1
    <3>1. Cardinality(InState("woken") \union {t}) = Cardinality(InState("woken")) + 1
      BY <2>1, WokenCount, FS_AddElement
    <3>2. QED
      BY <2>1, <3>1
  <2>3. idle' = idle /\ Len(idle) \in Nat /\ Len(idle) <= Cardinality(InState("woken"))
    BY <1>2, LenProperties DEF PoolInv, TypeOK, NoLostWakeup, InState, SpuriousWakeup
  <2>4. QED
    BY <2>2, <2>3, WokenCount DEF NoLostWakeup
<1>3. QED
  BY <1>1, <1>2

\* As long as a thread waits, every connection that came back has a woken thread
\* on its way to it: notify_one is called often enough.
THEOREM WakeupsAreKept == Spec => []NoLostWakeup
<1>1. Init => NoLostWakeup
  BY DEF Init, NoLostWakeup, InState
<1>2. PoolInv /\ NoLostWakeup /\ [Next]_vars => NoLostWakeup'
  <2> SUFFICES ASSUME PoolInv, NoLostWakeup, [Next]_vars PROVE NoLostWakeup'
    OBVIOUS
  <2>1. CASE UNCHANGED <<idle, state>>
    BY <2>1 DEF NoLostWakeup, InState
  <2>2. CASE \E t \in Threads : Wait(t) \/ SpuriousWakeup(t) \/ Take(t) \/ Release(t)
    BY <2>2, WaitWakes, TakeWakes, ReleaseWakes
  <2>3. QED
    BY <2>1, <2>2 DEF Next, vars, poolVars, DbDown, DbUp, ConnectionDies
<1>3. QED
  BY <1>1, <1>2, PoolInvariant, PTL DEF Spec

\* A thread waits with nobody left to notify it only when get_connection has
\* failed to reconnect every connection of the pool.
THEOREM WaitersAreStuckOnlyWhenLost == Spec => []StuckOnlyWhenLost
<1>1. PoolInv /\ NoLostWakeup => StuckOnlyWhenLost
  <2> SUFFICES ASSUME PoolInv, NoLostWakeup, InState("waiting") # {},
                      InState("using") = {}, InState("woken") = {}
               PROVE  lost = Slots
    BY DEF StuckOnlyWhenLost
  <2>1. Cardinality(InState("woken")) = 0
    BY FS_EmptySet
  <2>2. Len(idle) = 0
    BY <2>1, LenProperties DEF PoolInv, TypeOK, NoLostWakeup
  <2>3. \A s \in Slots : ~InPool(s)
    BY <2>2 DEF InPool
  <2>4. \A t \in Threads, s \in Slots : held[t] # s
    BY ConstantsAssumption DEF PoolInv, HeldInUse, InState, Slots
  <2>5. QED
    BY <2>3, <2>4 DEF PoolInv, SlotsAccounted, TypeOK
<1>2. QED
  BY <1>1, PoolInvariant, WakeupsAreKept, PTL
=============================================================================
