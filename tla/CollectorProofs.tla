--------------------------- MODULE CollectorProofs ---------------------------
(***************************************************************************)
(* The collector's slots and streams, for any number of containers,        *)
(* goroutines and slots.                                                   *)
(*                                                                         *)
(* SlotsBalance bounds the slots from below where a goroutine gives one    *)
(* back, so it is proved together with the types.  OneLatePoint needs what *)
(* a late point presupposes (LateEnds): a goroutine between reading and    *)
(* broadcasting has broadcast none yet.  That StreamSlots is implemented   *)
(* then needs SlotsBalance, for the slots free there are those free here,  *)
(* and OneStream.                                                          *)
(***************************************************************************)
EXTENDS Collector, FiniteSetTheorems, TLAPS

\* The goroutines that hold a slot.
Holders == {g \in Goroutine : Holds(g)}

\* A goroutine that has not been stopped, or that holds a message it read
\* before it was, has broadcast nothing late; a slot without one is as new.
LateEnds ==
    \A g \in Goroutine :
        /\ gpc[g] = "report" \/ ~cancelled[g] => late[g] = 0
        /\ gpc[g] = "idle" => ~cancelled[g]

IInv ==
    /\ TypeOK
    /\ IsFiniteSet(Holders)
    /\ SlotsBalance
    /\ OneStream
    /\ LateEnds
    /\ OneLatePoint

USE CollectorAssumption

----------------------------------------------------------------------------
\* A step that changes the slots of no goroutine keeps the balance.
LEMMA SameHolders ==
    ASSUME IInv, UNCHANGED sem, \A g \in Goroutine : Holds(g)' <=> Holds(g)
    PROVE  IsFiniteSet(Holders)' /\ SlotsBalance'
<1>1. Holders' = Holders
    BY DEF Holders
<1> QED
    BY <1>1 DEF IInv, SlotsBalance, Holders

\* A goroutine takes a slot: one holder more (the send on sem).
LEMMA OneMore ==
    ASSUME IInv, NEW g \in Goroutine, ~Holds(g), gpc' = [gpc EXCEPT ![g] = "open"],
           sem' = sem + 1
    PROVE  IsFiniteSet(Holders)' /\ SlotsBalance'
<1>1. Holders' = Holders \cup {g}
    BY DEF Holders, Holds, IInv, TypeOK
<1>2. g \notin Holders /\ IsFiniteSet(Holders) /\ sem = Cardinality(Holders)
    BY DEF Holders, IInv, SlotsBalance
<1>3. IsFiniteSet(Holders \cup {g}) /\ Cardinality(Holders \cup {g}) = Cardinality(Holders) + 1
    BY <1>2, FS_AddElement
<1> QED
    BY <1>1, <1>2, <1>3 DEF SlotsBalance, Holders

\* A goroutine ends: one holder less, and there was one (the deferred receive).
LEMMA OneLess ==
    ASSUME IInv, NEW g \in Goroutine, Holds(g), Leave(g)
    PROVE  sem' \in 0 .. MaxConcurrency /\ IsFiniteSet(Holders)' /\ SlotsBalance'
<1>1. gpc' = [gpc EXCEPT ![g] = "idle"] /\ sem' = sem - 1
    BY DEF Leave, Exit, Released
<1>2. Holders' = Holders \ {g}
    BY <1>1 DEF Holders, Holds, IInv, TypeOK
<1>3. g \in Holders /\ IsFiniteSet(Holders) /\ sem = Cardinality(Holders)
    BY DEF Holders, IInv, SlotsBalance
<1>4. IsFiniteSet(Holders \ {g}) /\ Cardinality(Holders \ {g}) = Cardinality(Holders) - 1
    BY <1>3, FS_RemoveElement
<1>5. Cardinality(Holders \ {g}) \in Nat
    BY <1>4, FS_CardinalityType
<1>6. sem \in 0 .. MaxConcurrency
    BY DEF IInv, TypeOK
<1>7. sem' = Cardinality(Holders \ {g}) /\ sem' \in 0 .. MaxConcurrency
    BY <1>1, <1>3, <1>4, <1>5, <1>6
<1>8. IsFiniteSet(Holders)' /\ sem' = Cardinality(Holders')
    BY <1>2, <1>4, <1>7
<1> QED
    BY <1>7, <1>8 DEF SlotsBalance, Holders

\* A goroutine that exits leaves its slot as new, and no other is touched.
LEMMA ExitKeeps ==
    ASSUME IInv, NEW g \in Goroutine, Exit(g),
           UNCHANGED <<running, watcher, feed, unheard, cancelFuncs>>, sem' \in 0 .. MaxConcurrency
    PROVE  TypeOK' /\ OneStream' /\ LateEnds' /\ OneLatePoint'
<1>1. /\ gpc' = [gpc EXCEPT ![g] = "idle"] /\ gid' = [gid EXCEPT ![g] = None]
      /\ cancelled' = [cancelled EXCEPT ![g] = FALSE] /\ late' = [late EXCEPT ![g] = 0]
    BY DEF Exit
<1>2. TypeOK'
    BY <1>1 DEF IInv, TypeOK
<1>3. OneStream'
    <2> SUFFICES ASSUME NEW h \in Goroutine, gpc'[h] # "idle" /\ ~cancelled'[h]
                 PROVE  cancelFuncs'[gid'[h]] = h
        BY DEF OneStream
    <2>1. h # g
        BY <1>1 DEF IInv, TypeOK
    <2>2. gpc'[h] = gpc[h] /\ cancelled'[h] = cancelled[h] /\ gid'[h] = gid[h]
        BY <1>1, <2>1 DEF IInv, TypeOK
    <2> QED
        BY <2>2 DEF IInv, OneStream
<1>4. LateEnds' /\ OneLatePoint'
    BY <1>1 DEF IInv, TypeOK, LateEnds, OneLatePoint
<1> QED
    BY <1>2, <1>3, <1>4

----------------------------------------------------------------------------
\* The first calls are one for each container of the registry's list.
LEMMA FirstCallsTyped ==
    ASSUME NEW listed \in SUBSET Container, NEW q \in FirstCalls(listed)
    PROVE  /\ q \in Seq(Event)
           /\ \A i \in 1 .. Len(q) : q[i].start /\ q[i].id \in listed
           /\ \A c \in listed : \E i \in 1 .. Len(q) : q[i].id = c
<1> DEFINE n == Cardinality(listed)
<1>1. n \in Nat
    BY CollectorAssumption, FS_Subset, FS_CardinalityType
<1> HIDE DEF n
<1>2. /\ q \in [1 .. n -> [start : {TRUE}, id : listed]]
      /\ \A c \in listed : \E i \in 1 .. n : q[i].id = c
    BY DEF FirstCalls, n
<1>3. \A i \in 1 .. n : q[i] \in Event /\ q[i].start /\ q[i].id \in listed
    BY <1>2 DEF Event
<1>4. q \in Seq(Event) /\ Len(q) = n
    <2>1. q = [i \in 1 .. n |-> q[i]] /\ \A i \in 1 .. n : q[i] \in Event
        BY <1>2, <1>3
    <2>2. [i \in 1 .. n |-> q[i]] \in Seq(Event)
        BY <1>1, <2>1
    <2>3. Len([i \in 1 .. n |-> q[i]]) = n
        BY <1>1
    <2> QED
        BY <2>1, <2>2, <2>3
<1> QED
    BY <1>2, <1>3, <1>4

\* Nothing is collected at the start.
LEMMA InitHolds == Init => IInv
<1> SUFFICES ASSUME Init PROVE IInv
    OBVIOUS
<1>1. Holders = {}
    BY DEF Init, Holders, Holds
<1>2. IsFiniteSet(Holders) /\ SlotsBalance
    BY <1>1, FS_EmptySet DEF Init, SlotsBalance, Holders
<1>3. feed \in Seq(Event)
    <2>1. PICK listed \in SUBSET Container : feed \in FirstCalls(listed)
        BY DEF Init
    <2> QED
        BY <2>1, FirstCallsTyped
<1>4. TypeOK
    BY <1>3 DEF Init, TypeOK
<1> QED
    BY <1>2, <1>4 DEF Init, IInv, OneStream, LateEnds, OneLatePoint

\* The daemon's containers start and die: an event is queued, or lost.
LEMMA DaemonKeeps ==
    ASSUME IInv, NEW c \in Container, Starts(c) \/ Dies(c) \/ DiesOn(c)
    PROVE  IInv'
<1>1. /\ UNCHANGED <<cancelFuncs, sem, gpc, gid, cancelled, late>>
      /\ UNCHANGED feed \/ \E b \in BOOLEAN : feed' = Append(feed, [start |-> b, id |-> c])
      /\ running' \in [Container -> BOOLEAN]
      /\ UNCHANGED watcher /\ unheard' \subseteq Container
    BY DEF Starts, Dies, DiesOn, Announce, goroutineVars, IInv, TypeOK
<1>2. feed' \in Seq(Event)
    <2> feed \in Seq(Event)
        BY DEF IInv, TypeOK
    <2>1. CASE UNCHANGED feed
        BY <2>1
    <2>2. ASSUME NEW b \in BOOLEAN, feed' = Append(feed, [start |-> b, id |-> c])
          PROVE  feed' \in Seq(Event)
        BY <2>2 DEF Event
    <2> QED
        BY <1>1, <2>1, <2>2
<1> QED
    BY <1>1, <1>2 DEF IInv, TypeOK, SlotsBalance, Holders, Holds, OneStream, LateEnds,
                      OneLatePoint

\* The event stream breaks and comes back (watcher.go, Run).
LEMMA WatcherKeeps ==
    ASSUME IInv, Breaks \/ Connects
    PROVE  IInv'
<1>1. /\ UNCHANGED <<running, cancelFuncs, sem, gpc, gid, cancelled, late>>
      /\ watcher' \in {"on", "off"} /\ unheard' \subseteq Container /\ feed' \in Seq(Event)
    <2>1. CASE Connects
        BY <2>1 DEF Connects, goroutineVars, IInv, TypeOK
    <2>2. CASE Breaks
        <3> feed \in Seq(Event)
            BY DEF IInv, TypeOK
        <3>1. \A i \in 1 .. Len(feed) : feed[i].id \in Container
            <4>1. \A i \in 1 .. Len(feed) : feed[i] \in Event
                OBVIOUS
            <4> QED
                BY <4>1 DEF Event
        <3>2. {feed[i].id : i \in 1 .. Len(feed)} \subseteq Container
            BY <3>1
        <3>3. <<>> \in Seq(Event)
            OBVIOUS
        <3>4. /\ UNCHANGED <<running, cancelFuncs, sem, gpc, gid, cancelled, late>>
              /\ watcher' = "off" /\ feed' = <<>>
              /\ unheard' = unheard \cup {feed[i].id : i \in 1 .. Len(feed)}
            BY <2>2 DEF Breaks, goroutineVars
        <3> QED
            BY <3>2, <3>3, <3>4 DEF IInv, TypeOK
    <2> QED
        BY <2>1, <2>2
<1> QED
    BY <1>1 DEF IInv, TypeOK, SlotsBalance, Holders, Holds, OneStream, LateEnds, OneLatePoint

\* A start event (collector.go, StartCollecting): a new goroutine only for a
\* container that has no entry, and hence none that has not been stopped.
LEMMA StartKeeps ==
    ASSUME IInv, NEW c \in Container, StartCollecting(c), feed' \in Seq(Event),
           UNCHANGED <<running, watcher, unheard, sem>>
    PROVE  IInv'
<1>1. CASE Known(c)
    <2>1. UNCHANGED <<cancelFuncs, gpc, gid, cancelled, late>>
        BY <1>1 DEF StartCollecting, goroutineVars
    <2> QED
        BY <2>1 DEF IInv, TypeOK, SlotsBalance, Holders, Holds, OneStream, LateEnds,
                    OneLatePoint
<1>2. CASE ~Known(c)
    <2> DEFINE g == CHOOSE g \in Idle : TRUE
    <2>1. /\ Idle # {}
          /\ cancelFuncs' = [cancelFuncs EXCEPT ![c] = g]
          /\ gpc' = [gpc EXCEPT ![g] = "acquire"]
          /\ gid' = [gid EXCEPT ![g] = c]
          /\ UNCHANGED <<cancelled, late>>
        BY <1>2 DEF StartCollecting
    <2>2. g \in Goroutine /\ gpc[g] = "idle"
        BY <2>1 DEF Idle
    <2> HIDE DEF g
    <2>4. TypeOK'
        BY <2>1, <2>2 DEF IInv, TypeOK
    <2>5. OneStream'
        BY <1>2, <2>1, <2>2 DEF IInv, TypeOK, OneStream, Known
    <2>6. LateEnds' /\ OneLatePoint'
        BY <2>1, <2>2 DEF IInv, TypeOK, LateEnds, OneLatePoint
    <2>7. IsFiniteSet(Holders)' /\ SlotsBalance'
        BY <2>1, <2>2, SameHolders DEF Holds, IInv, TypeOK
    <2> QED
        BY <2>4, <2>5, <2>6, <2>7 DEF IInv
<1> QED
    BY <1>1, <1>2

\* A die, stop or destroy event (collector.go, StopCollecting): the entry goes
\* and the goroutine it belonged to is cancelled, in one critical section.
LEMMA StopKeeps ==
    ASSUME IInv, NEW c \in Container, StopCollecting(c), feed' \in Seq(Event),
           UNCHANGED <<running, watcher, unheard, sem>>
    PROVE  IInv'
<1>1. /\ cancelFuncs' = [cancelFuncs EXCEPT ![c] = None]
      /\ cancelled' = [g \in Goroutine |-> cancelled[g] \/ Stopped(c, g)]
      /\ UNCHANGED <<gpc, gid, late>>
    BY DEF StopCollecting, Forgotten
<1>2. \A g \in Goroutine : cancelled'[g] <=> cancelled[g] \/ Stopped(c, g)
    BY <1>1
<1>3. TypeOK'
    BY <1>1 DEF IInv, TypeOK, Stopped
<1>4. OneStream'
    BY <1>1, <1>2 DEF IInv, TypeOK, OneStream, Stopped
<1>5. LateEnds' /\ OneLatePoint'
    BY <1>1, <1>2 DEF IInv, TypeOK, LateEnds, OneLatePoint, Stopped
<1>6. IsFiniteSet(Holders)' /\ SlotsBalance'
    BY <1>1, SameHolders DEF Holds
<1> QED
    BY <1>3, <1>4, <1>5, <1>6 DEF IInv

\* Close cancels what the map holds (collector.go), which is all there is.
LEMMA CloseKeeps ==
    ASSUME IInv, Close
    PROVE  IInv'
<1>1. /\ watcher' = "ended" /\ feed' = <<>> /\ unheard' = Container
      /\ cancelFuncs' = [c \in Container |-> None]
      /\ cancelled' = [g \in Goroutine |-> cancelled[g] \/ \E c \in Container : Stopped(c, g)]
      /\ UNCHANGED <<running, sem, gpc, gid, late>>
    BY DEF Close
<1>2. \A g \in Goroutine : cancelled'[g] <=> cancelled[g] \/ \E c \in Container : Stopped(c, g)
    BY <1>1
<1>3. TypeOK'
    BY <1>1 DEF IInv, TypeOK
<1>4. OneStream'
    BY <1>1, <1>2 DEF IInv, TypeOK, OneStream, Stopped
<1>5. LateEnds' /\ OneLatePoint'
    BY <1>1, <1>2 DEF IInv, TypeOK, LateEnds, OneLatePoint, Stopped
<1>6. IsFiniteSet(Holders)' /\ SlotsBalance'
    BY <1>1, SameHolders DEF Holds
<1> QED
    BY <1>3, <1>4, <1>5, <1>6 DEF IInv

\* The callback handles the oldest event (main.go).
LEMMA HandleKeeps ==
    ASSUME IInv, HandleEvent
    PROVE  IInv'
<1>1. feed # <<>> /\ feed \in Seq(Event) /\ feed' = Tail(feed) /\ UNCHANGED <<running, watcher, unheard, sem>>
    BY DEF HandleEvent, IInv, TypeOK
<1>2. Head(feed) \in Event /\ feed' \in Seq(Event)
    BY <1>1
<1>3. Head(feed).id \in Container
    BY <1>2 DEF Event
<1>4. StartCollecting(Head(feed).id) \/ StopCollecting(Head(feed).id)
    BY DEF HandleEvent
<1> QED
    BY <1>1, <1>2, <1>3, <1>4, StartKeeps, StopKeeps

\* The steps of a goroutine (collector.go, runContainerStream).
LEMMA GoroutineKeeps ==
    ASSUME IInv, NEW g \in Goroutine, Runs(g) \/ Scan(g) \/ EndStream(g)
    PROVE  IInv'
<1>1. CASE Acquire(g)
    <2>1. /\ gpc[g] = "acquire" /\ sem < MaxConcurrency /\ sem' = sem + 1
          /\ gpc' = [gpc EXCEPT ![g] = "open"]
          /\ UNCHANGED <<running, watcher, feed, unheard, cancelFuncs, gid, cancelled, late>>
        BY <1>1 DEF Acquire, HasSlot
    <2>2. TypeOK'
        BY <2>1 DEF IInv, TypeOK
    <2>3. OneStream' /\ LateEnds' /\ OneLatePoint'
        BY <2>1 DEF IInv, TypeOK, OneStream, LateEnds, OneLatePoint
    <2>4. IsFiniteSet(Holders)' /\ SlotsBalance'
        BY <2>1, OneMore DEF Holds
    <2> QED
        BY <2>2, <2>3, <2>4 DEF IInv
<1>2. CASE GiveUp(g)
    <2>1. /\ gpc[g] = "acquire" /\ Exit(g)
          /\ UNCHANGED <<running, watcher, feed, unheard, cancelFuncs, sem>>
        BY <1>2 DEF GiveUp
    <2>2. IsFiniteSet(Holders)' /\ SlotsBalance'
        BY <2>1, SameHolders DEF Holds, Exit, IInv, TypeOK
    <2>3. sem' \in 0 .. MaxConcurrency
        BY <2>1 DEF IInv, TypeOK
    <2> QED
        BY <2>1, <2>2, <2>3, ExitKeeps DEF IInv
<1>3. CASE OpenFails(g) \/ EndStream(g)
    <2>1. /\ Holds(g) /\ Leave(g)
          /\ UNCHANGED <<running, watcher, feed, unheard, cancelFuncs>>
        BY <1>3 DEF OpenFails, EndStream, Holds
    <2>2. sem' \in 0 .. MaxConcurrency /\ IsFiniteSet(Holders)' /\ SlotsBalance'
        BY <2>1, OneLess
    <2> QED
        BY <2>1, <2>2, ExitKeeps DEF IInv, Leave
<1>4. CASE Open(g) \/ Scan(g)
    <2>1. PICK p \in {"scan", "report"} :
             /\ gpc' = [gpc EXCEPT ![g] = p]
             /\ p = "report" => ~cancelled[g]
             /\ Holds(g)
             /\ UNCHANGED <<running, watcher, feed, unheard, cancelFuncs, sem, gid, cancelled, late>>
        BY <1>4 DEF Open, Scan, Live, Holds
    <2>3. TypeOK'
        BY <2>1 DEF IInv, TypeOK, Holds
    <2>4. OneStream' /\ OneLatePoint'
        BY <2>1 DEF IInv, TypeOK, OneStream, OneLatePoint, Holds
    <2>5. LateEnds'
        BY <2>1 DEF IInv, TypeOK, LateEnds, Holds
    <2>6. IsFiniteSet(Holders)' /\ SlotsBalance'
        BY <2>1, SameHolders DEF Holds, IInv, TypeOK
    <2> QED
        BY <2>3, <2>4, <2>5, <2>6 DEF IInv
<1>5. CASE Report(g)
    <2>1. /\ gpc[g] = "report" /\ gpc' = [gpc EXCEPT ![g] = "scan"]
          /\ late' = [late EXCEPT ![g] = IF cancelled[g] /\ @ < 2 THEN @ + 1 ELSE @]
          /\ UNCHANGED <<running, watcher, feed, unheard, cancelFuncs, sem, gid, cancelled>>
        BY <1>5 DEF Report
    <2>2. late[g] = 0
        BY <2>1 DEF IInv, LateEnds
    <2>3. late' = [late EXCEPT ![g] = IF cancelled[g] THEN 1 ELSE 0]
        BY <2>1, <2>2
    <2>4. TypeOK'
        BY <2>1, <2>3 DEF IInv, TypeOK
    <2>5. OneStream'
        BY <2>1 DEF IInv, TypeOK, OneStream
    <2>6. LateEnds' /\ OneLatePoint'
        BY <2>1, <2>3 DEF IInv, TypeOK, LateEnds, OneLatePoint
    <2>7. IsFiniteSet(Holders)' /\ SlotsBalance'
        BY <2>1, SameHolders DEF Holds, IInv, TypeOK
    <2> QED
        BY <2>4, <2>5, <2>6, <2>7 DEF IInv
<1> QED
    BY <1>1, <1>2, <1>3, <1>4, <1>5 DEF Runs

\* Every step keeps the invariant.
LEMMA NextKeeps == IInv /\ [Next]_vars => IInv'
<1> SUFFICES ASSUME IInv, [Next]_vars PROVE IInv'
    OBVIOUS
<1>1. CASE UNCHANGED vars
    BY <1>1 DEF vars, goroutineVars, IInv, TypeOK, SlotsBalance, Holders, Holds, OneStream,
                LateEnds, OneLatePoint
<1> QED
    BY <1>1, DaemonKeeps, WatcherKeeps, HandleKeeps, CloseKeeps, GoroutineKeeps DEF Next

\* The strengthening is an invariant of the specification.
THEOREM Inductive == Spec => []IInv
BY InitHolds, NextKeeps, PTL DEF Spec

\* The variables keep their types; above all the semaphore is never released
\* more often than it was taken (collector.go, the deferred receive from sem).
THEOREM TypeCorrect == Spec => []TypeOK
<1>1. IInv => TypeOK
    BY DEF IInv
<1> QED
    BY <1>1, Inductive, PTL

\* The slots taken are those of the goroutines that have a stream
\* (collector.go, runContainerStream), whatever ends them.
THEOREM SlotsBalanced == Spec => []SlotsBalance
<1>1. IInv => SlotsBalance
    BY DEF IInv
<1> QED
    BY <1>1, Inductive, PTL

\* A container has at most one stream that has not been stopped, and the
\* collector can stop it (StartCollecting and StopCollecting).
THEOREM AtMostOneStream == Spec => []OneStream
<1>1. IInv => OneStream
    BY DEF IInv
<1> QED
    BY <1>1, Inductive, PTL

\* A stream that was stopped broadcasts one more point at most
\* (runContainerStream, the check of the context before each message).
THEOREM OneLatePointOnly == Spec => []OneLatePoint
<1>1. IInv => OneLatePoint
    BY DEF IInv
<1> QED
    BY <1>1, Inductive, PTL

----------------------------------------------------------------------------
(* The streams at the daemon.                                              *)

\* The state of StreamSlots that the goroutines stand for.
Held == [g \in Goroutine |-> IF Holds(g) THEN gid[g] ELSE None]
Given == {g \in Goroutine : Holds(g) /\ cancelled[g]}

\* A goroutine holds a stream of a container if and only if it holds a slot.
LEMMA HeldBySlot ==
    ASSUME TypeOK, NEW g \in Goroutine
    PROVE  /\ Holds(g) <=> Held[g] # None
           /\ Holds(g) => gid[g] \in Container /\ Held[g] = gid[g]
BY DEF TypeOK, Held, Holds

\* A step that changes no goroutine's slot, container or mark is a stutter.
LEMMA SameStreams ==
    ASSUME \A g \in Goroutine : /\ Holds(g)' <=> Holds(g)
                                /\ Holds(g) => gid'[g] = gid[g] /\ (cancelled'[g] <=> cancelled[g])
    PROVE  UNCHANGED <<Held, Given>>
BY DEF Held, Given

\* The two modules count alike.
LEMMA SameCount == \A S : Streams!Cardinality(S) = Cardinality(S)
BY DEF Cardinality, Streams!Cardinality

\* A slot is won (the send on sem): there was one left, and the container has
\* no other stream that was not stopped.
LEMMA AcquireTakes ==
    ASSUME IInv, NEW g \in Goroutine, Acquire(g)
    PROVE  \E l \in BOOLEAN : Streams!Take(g, gid[g], l)
<1>1. /\ gpc[g] = "acquire" /\ sem < MaxConcurrency
      /\ gpc' = [gpc EXCEPT ![g] = "open"]
      /\ UNCHANGED <<gid, cancelled>>
    BY DEF Acquire, HasSlot
<1>2. TypeOK /\ gpc \in [Goroutine -> {"idle", "acquire", "open", "scan", "report"}]
    BY DEF IInv, TypeOK
<1>3. ~Holds(g) /\ Holds(g)' /\ \A h \in Goroutine \ {g} : Holds(h)' <=> Holds(h)
    BY <1>1, <1>2 DEF Holds
<1>4. Held[g] = None
    BY <1>3 DEF Held
<1>5. Streams!Cardinality(Streams!Holder) < MaxConcurrency
    <2>1. Streams!Holder = {h \in Goroutine : Holds(h)}
        BY <1>2, HeldBySlot DEF Streams!Holder, Held
    <2> QED
        BY <1>1, <2>1, SameCount DEF IInv, SlotsBalance
<1>6. cancelled[g] \/ \A h \in Goroutine : Held[h] = gid[g] => h \in Given
    <2> SUFFICES ASSUME ~cancelled[g], NEW h \in Goroutine, Held[h] = gid[g] PROVE h \in Given
        OBVIOUS
    <2>1. gid[g] # None /\ cancelFuncs[gid[g]] = g
        BY <1>1, <1>2 DEF IInv, TypeOK, OneStream
    <2>2. Holds(h) /\ gid[h] = gid[g] /\ h # g
        BY <1>2, <1>4, <2>1, HeldBySlot
    <2>3. cancelled[h]
        BY <2>1, <2>2 DEF IInv, OneStream, Holds
    <2> QED
        BY <2>2, <2>3 DEF Given
<1>7. Held' = [Held EXCEPT ![g] = gid[g]]
    BY <1>1, <1>3 DEF Held
<1>8. CASE cancelled[g]
    <2>1. Given' = Given \cup {g}
        BY <1>1, <1>3, <1>8 DEF Given
    <2>2. Streams!Take(g, gid[g], TRUE)
        BY <1>4, <1>5, <1>7, <2>1 DEF Streams!Take, Held, Given
    <2> QED
        BY <2>2
<1>9. CASE ~cancelled[g]
    <2>1. UNCHANGED Given
        BY <1>1, <1>3, <1>9 DEF Given
    <2>2. Streams!Take(g, gid[g], FALSE)
        BY <1>4, <1>5, <1>6, <1>7, <1>9, <2>1 DEF Streams!Take, Held, Given
    <2> QED
        BY <2>2
<1> QED
    BY <1>8, <1>9

\* A goroutine that holds a slot ends, and its stream with it.
LEMMA LeaveDrops ==
    ASSUME IInv, NEW g \in Goroutine, Holds(g), Leave(g)
    PROVE  Streams!Drop(g)
<1>1. /\ gpc' = [gpc EXCEPT ![g] = "idle"] /\ gid' = [gid EXCEPT ![g] = None]
      /\ cancelled' = [cancelled EXCEPT ![g] = FALSE]
    BY DEF Leave, Exit
<1>2. TypeOK
    BY DEF IInv
<1>3. Held[g] # None
    BY <1>2, HeldBySlot
<1>4. ~Holds(g)' /\ \A h \in Goroutine \ {g} : /\ Holds(h)' <=> Holds(h)
                                              /\ gid'[h] = gid[h] /\ cancelled'[h] = cancelled[h]
    BY <1>1, <1>2 DEF TypeOK, Holds
<1>5. Held' = [Held EXCEPT ![g] = None]
    BY <1>4 DEF Held
<1>6. Given' = Given \ {g}
    BY <1>4 DEF Given
<1> QED
    BY <1>3, <1>5, <1>6 DEF Streams!Drop, Held, Given

\* StopCollecting and Close mark every stream of the containers they stop: by
\* OneStream those whose cancel functions the map held are all there are.
LEMMA StopRetires ==
    ASSUME IInv, NEW cs \in SUBSET Container, UNCHANGED <<gpc, gid>>,
           cancelled' = [g \in Goroutine |-> cancelled[g] \/ \E c \in cs : Stopped(c, g)]
    PROVE  Streams!Retire(cs)
<1>1. TypeOK
    BY DEF IInv
<1>2. \A g \in Goroutine : Holds(g)' <=> Holds(g)
    BY DEF Holds
<1>3. UNCHANGED Held
    BY <1>2 DEF Held
<1>4. ASSUME NEW g \in Goroutine PROVE g \in Given' <=> g \in Given \/ Held[g] \in cs
    <2>1. cancelled'[g] <=> cancelled[g] \/ \E c \in cs : Stopped(c, g)
        OBVIOUS
    <2>2. CASE ~Holds(g)
        BY <1>1, <1>2, <2>2, HeldBySlot DEF Given
    <2>3. CASE Holds(g)
        <3>1. Held[g] = gid[g] /\ gid[g] \in Container /\ gpc[g] # "idle"
            BY <1>1, <2>3, HeldBySlot DEF Holds
        <3>2. cancelled[g] \/ cancelFuncs[gid[g]] = g
            BY <3>1 DEF IInv, OneStream
        <3> QED
            BY <1>2, <2>1, <2>3, <3>1, <3>2 DEF Given, Stopped
    <2> QED
        BY <2>2, <2>3
<1>5. Given' = Given \cup {g \in Goroutine : Held[g] \in cs}
    BY <1>4 DEF Given
<1> QED
    BY <1>3, <1>5 DEF Streams!Retire, Held, Given

\* Every step of the collector is a step of StreamSlots, or none.
LEMMA NextMaps == IInv /\ [Next]_vars => [Streams!Next]_(Streams!vars)
<1> SUFFICES ASSUME IInv, [Next]_vars PROVE Streams!Next \/ UNCHANGED <<Held, Given>>
    BY DEF Streams!vars, Held, Given
<1>0. TypeOK
    BY DEF IInv
<1>1. UNCHANGED <<gpc, gid, cancelled>> => UNCHANGED <<Held, Given>>
    BY DEF Held, Given, Holds
<1>2. ASSUME NEW c \in Container, StartCollecting(c) PROVE UNCHANGED <<Held, Given>>
    <2>1. CASE Known(c)
        BY <1>1, <1>2, <2>1 DEF StartCollecting, goroutineVars
    <2>2. CASE ~Known(c)
        <3> DEFINE g == CHOOSE g \in Idle : TRUE
        <3>1. /\ gpc' = [gpc EXCEPT ![g] = "acquire"] /\ gid' = [gid EXCEPT ![g] = c]
              /\ UNCHANGED cancelled /\ g \in Goroutine /\ gpc[g] = "idle"
            BY <1>2, <2>2 DEF StartCollecting, Idle
        <3> HIDE DEF g
        <3>2. \A h \in Goroutine : (Holds(h)' <=> Holds(h)) /\ (Holds(h) => gid'[h] = gid[h])
            BY <1>0, <3>1 DEF TypeOK, Holds
        <3> QED
            BY <3>1, <3>2, SameStreams
    <2> QED
        BY <2>1, <2>2
<1>3. ASSUME NEW c \in Container, StopCollecting(c) PROVE Streams!Next
    <2>1. /\ UNCHANGED <<gpc, gid>>
          /\ cancelled' = [g \in Goroutine |-> cancelled[g] \/ \E d \in {c} : Stopped(d, g)]
        BY <1>3 DEF StopCollecting
    <2>2. Streams!Retire({c})
        BY <2>1, StopRetires
    <2> QED
        BY <2>2 DEF Streams!Next
<1>4. CASE HandleEvent
    <2>1. feed # <<>> /\ feed \in Seq(Event)
        BY <1>0, <1>4 DEF HandleEvent, TypeOK
    <2>2. Head(feed) \in Event
        BY <2>1
    <2>3. Head(feed).id \in Container
        BY <2>2 DEF Event
    <2> QED
        BY <1>2, <1>3, <1>4, <2>3 DEF HandleEvent
<1>5. CASE Close
    <2>1. /\ UNCHANGED <<gpc, gid>>
          /\ cancelled' = [g \in Goroutine |-> cancelled[g] \/ \E d \in Container : Stopped(d, g)]
        BY <1>5 DEF Close
    <2> QED
        BY <2>1, StopRetires DEF Streams!Next
<1>6. ASSUME NEW g \in Goroutine, Runs(g) \/ Scan(g) \/ EndStream(g)
      PROVE  Streams!Next \/ UNCHANGED <<Held, Given>>
    <2>1. CASE Acquire(g)
        <3>1. gid[g] \in Container
            BY <1>0, <2>1 DEF Acquire, TypeOK
        <3>2. \E l \in BOOLEAN : Streams!Take(g, gid[g], l)
            BY <2>1, AcquireTakes
        <3> QED
            BY <3>1, <3>2 DEF Streams!Next
    <2>2. CASE OpenFails(g) \/ EndStream(g)
        <3>1. Holds(g) /\ Leave(g)
            BY <2>2 DEF OpenFails, EndStream, Holds
        <3> QED
            BY <3>1, LeaveDrops DEF Streams!Next
    <2>3. CASE GiveUp(g)
        <3>1. \A h \in Goroutine :
                 /\ Holds(h)' <=> Holds(h)
                 /\ Holds(h) => gid'[h] = gid[h] /\ (cancelled'[h] <=> cancelled[h])
            BY <1>0, <2>3 DEF GiveUp, Exit, TypeOK, Holds
        <3> QED
            BY <3>1, SameStreams
    <2>4. CASE Open(g) \/ Scan(g) \/ Report(g)
        <3>1. Holds(g) /\ \E p \in {"scan", "report"} : gpc' = [gpc EXCEPT ![g] = p]
            BY <2>4 DEF Open, Scan, Report, Holds
        <3>2. UNCHANGED <<gid, cancelled>>
            BY <2>4 DEF Open, Scan, Report
        <3>3. \A h \in Goroutine : Holds(h)' <=> Holds(h)
            BY <1>0, <3>1 DEF TypeOK, Holds
        <3> QED
            BY <3>2, <3>3, SameStreams
    <2> QED
        BY <1>6, <2>1, <2>2, <2>3, <2>4 DEF Runs
<1>7. ASSUME NEW c \in Container, Starts(c) \/ Dies(c) \/ DiesOn(c)
      PROVE  UNCHANGED <<gpc, gid, cancelled>>
    BY <1>7 DEF Starts, Dies, DiesOn, Announce, goroutineVars
<1>8. CASE Breaks \/ Connects
    BY <1>1, <1>8 DEF Breaks, Connects, goroutineVars
<1>9. CASE UNCHANGED vars
    BY <1>1, <1>9 DEF vars, goroutineVars
<1> QED
    BY <1>1, <1>4, <1>5, <1>6, <1>7, <1>8, <1>9 DEF Next

\* The collector implements StreamSlots: whatever starts, stops, fails and
\* waits, the daemon never serves more streams than slots, nor two of a
\* container that were not stopped (collector.go, sem and cancelFuncs).
THEOREM ImplementsStreamSlots == Spec => KeepsSlots
<1>1. Init => Streams!Init
    BY DEF Init, Streams!Init, Holds
<1> QED
    BY <1>1, NextMaps, Inductive, PTL DEF Spec, KeepsSlots, Streams!Spec

----------------------------------------------------------------------------
(* The map and the daemon.                                                 *)

\* The last event queued about a container says whether it runs, unless that
\* has changed unheard.
LastIsTrue ==
    \A c \in Container \ unheard : \A i \in 1 .. Len(feed) :
        (feed[i].id = c /\ \A j \in 1 .. Len(feed) : j > i => feed[j].id # c)
            => (feed[i].start <=> running[c])

MInv == TypeOK /\ LastIsTrue /\ MapFollowsDocker

\* Taking the oldest event leaves the others queued, and adds none.
LEMMA TailTaken ==
    ASSUME NEW q \in Seq(Event), q # <<>>
    PROVE  /\ Head(q) = q[1] /\ Head(q) \in Event /\ 1 \in 1 .. Len(q)
           /\ Len(q) \in Nat /\ Len(Tail(q)) = Len(q) - 1
           /\ \A i \in 1 .. Len(Tail(q)) : i + 1 \in 1 .. Len(q) /\ Tail(q)[i] = q[i + 1]
           /\ \A i \in 1 .. Len(q) :
                 i = 1 \/ (i - 1 \in 1 .. Len(Tail(q)) /\ Tail(q)[i - 1] = q[i])
OBVIOUS

\* A change that is not heard is nobody's any more.
LEMMA UnheardKeepsMap ==
    ASSUME MInv, NEW c \in Container, Starts(c) \/ Dies(c) \/ DiesOn(c), watcher # "on"
    PROVE  LastIsTrue' /\ MapFollowsDocker'
<1>1. /\ UNCHANGED <<feed, cancelFuncs>> /\ unheard' = unheard \cup {c}
      /\ \A d \in Container \ {c} : running'[d] = running[d]
    BY DEF Starts, Dies, DiesOn, Announce, MInv, TypeOK
<1> QED
    BY <1>1 DEF MInv, LastIsTrue, MapFollowsDocker, Pending

\* A start or a death queues an event that says what is now so, and one after
\* the death of a container that is down says it again.
LEMMA HeardKeepsMap ==
    ASSUME MInv, NEW c \in Container, Starts(c) \/ Dies(c) \/ DiesOn(c), watcher = "on"
    PROVE  LastIsTrue' /\ MapFollowsDocker'
<1>1. PICK b \in BOOLEAN :
         /\ feed' = Append(feed, [start |-> b, id |-> c])
         /\ running' = [running EXCEPT ![c] = b]
         /\ unheard' = unheard \ {c}
         /\ UNCHANGED cancelFuncs
    <2>1. CASE Starts(c)
        BY <2>1 DEF Starts, Announce
    <2>2. CASE Dies(c)
        BY <2>2 DEF Dies, Announce
    <2>3. CASE DiesOn(c)
        <3>1. running = [running EXCEPT ![c] = FALSE]
            BY <2>3 DEF DiesOn, MInv, TypeOK
        <3> QED
            BY <2>3, <3>1 DEF DiesOn, Announce
    <2> QED
        BY <2>1, <2>2, <2>3
<1>2. feed \in Seq(Event)
    BY DEF MInv, TypeOK
<1>3. /\ Len(feed') = Len(feed) + 1 /\ Len(feed) \in Nat
      /\ feed'[Len(feed) + 1].id = c /\ feed'[Len(feed) + 1].start = b
      /\ \A i \in 1 .. Len(feed) : feed'[i] = feed[i]
    BY <1>1, <1>2
<1>4. running'[c] = b /\ \A d \in Container \ {c} : running'[d] = running[d]
    BY <1>1 DEF MInv, TypeOK
<1>5. LastIsTrue'
    <2> SUFFICES ASSUME NEW d \in Container \ unheard', NEW i \in 1 .. Len(feed'), feed'[i].id = d,
                        \A j \in 1 .. Len(feed') : j > i => feed'[j].id # d
                 PROVE  feed'[i].start <=> running'[d]
        BY DEF LastIsTrue
    <2>1. CASE i = Len(feed) + 1
        BY <2>1, <1>3, <1>4
    <2>2. CASE i \in 1 .. Len(feed)
        <3>1. d # c
            BY <2>2, <1>3
        <3>2. \A j \in 1 .. Len(feed) : j > i => feed[j].id # d
            BY <1>3
        <3> QED
            BY <1>1, <2>2, <3>1, <3>2, <1>3, <1>4 DEF MInv, LastIsTrue
    <2> QED
        BY <2>1, <2>2, <1>3
<1>6. MapFollowsDocker'
    <2> SUFFICES ASSUME NEW d \in Container \ unheard', ~Pending(d)'
                 PROVE  cancelFuncs'[d] # None <=> running'[d]
        BY DEF MapFollowsDocker
    <2>1. d # c
        BY <1>3 DEF Pending
    <2>2. ~Pending(d)
        BY <1>3 DEF Pending
    <2> QED
        BY <2>1, <2>2, <1>1, <1>4 DEF MInv, MapFollowsDocker
<1> QED
    BY <1>5, <1>6

\* The callback takes the oldest event (main.go): if it was the last about its
\* container, the entry is now there if and only if the container runs.
LEMMA HandleKeepsMap ==
    ASSUME MInv, HandleEvent
    PROVE  LastIsTrue' /\ MapFollowsDocker'
<1> DEFINE e == Head(feed)
<1>1. feed # <<>> /\ feed \in Seq(Event) /\ feed' = Tail(feed) /\ UNCHANGED <<running, unheard>>
    BY DEF HandleEvent, MInv, TypeOK
<1>2. /\ e = feed[1] /\ e \in Event /\ 1 \in 1 .. Len(feed)
      /\ Len(feed) \in Nat /\ Len(feed') = Len(feed) - 1
      /\ \A i \in 1 .. Len(feed') : i + 1 \in 1 .. Len(feed) /\ feed'[i] = feed[i + 1]
      /\ \A i \in 1 .. Len(feed) :
            i = 1 \/ (i - 1 \in 1 .. Len(feed') /\ feed'[i - 1] = feed[i])
    BY <1>1, TailTaken
<1>3. e.id \in Container
    BY <1>2 DEF Event
<1>4. /\ e.start => StartCollecting(e.id)
      /\ ~e.start => StopCollecting(e.id)
    BY DEF HandleEvent
<1> HIDE DEF e
<1>5. /\ cancelFuncs'[e.id] # None <=> e.start
      /\ \A d \in Container \ {e.id} : cancelFuncs'[d] = cancelFuncs[d]
    <2>1. CASE ~e.start
        BY <1>3, <1>4, <2>1 DEF StopCollecting, Forgotten, MInv, TypeOK
    <2>2. CASE e.start /\ Known(e.id)
        BY <1>3, <1>4, <2>2 DEF StartCollecting, Known
    <2>3. CASE e.start /\ ~Known(e.id)
        <3> DEFINE g == CHOOSE g \in Idle : TRUE
        <3>1. Idle # {} /\ cancelFuncs' = [cancelFuncs EXCEPT ![e.id] = g]
            BY <1>4, <2>3 DEF StartCollecting
        <3>2. g \in Goroutine
            BY <3>1 DEF Idle
        <3> HIDE DEF g
        <3> QED
            BY <1>3, <2>3, <3>1, <3>2 DEF MInv, TypeOK
    <2> QED
        BY <2>1, <2>2, <2>3
<1>6. LastIsTrue'
    <2> SUFFICES ASSUME NEW d \in Container \ unheard', NEW i \in 1 .. Len(feed'), feed'[i].id = d,
                        \A j \in 1 .. Len(feed') : j > i => feed'[j].id # d
                 PROVE  feed'[i].start <=> running'[d]
        BY DEF LastIsTrue
    <2>1. feed[i + 1].id = d /\ i + 1 \in 1 .. Len(feed) /\ feed'[i] = feed[i + 1]
        BY <1>2
    <2>2. ASSUME NEW j \in 1 .. Len(feed), j > i + 1 PROVE feed[j].id # d
        <3>1. j - 1 \in 1 .. Len(feed') /\ feed'[j - 1] = feed[j] /\ j - 1 > i
            BY <1>2, <2>2
        <3> QED
            BY <3>1
    <2> QED
        BY <1>1, <2>1, <2>2 DEF MInv, LastIsTrue
<1>7. MapFollowsDocker'
    <2> SUFFICES ASSUME NEW d \in Container \ unheard', ~Pending(d)'
                 PROVE  cancelFuncs'[d] # None <=> running'[d]
        BY DEF MapFollowsDocker
    <2>1. \A i \in 1 .. Len(feed) : feed[i].id = d => i = 1
        BY <1>2 DEF Pending
    <2>2. CASE d = e.id
        <3>1. 1 \in 1 .. Len(feed) /\ feed[1] = e /\ feed[1].id = d
            BY <1>2, <2>2
        <3>2. \A j \in 1 .. Len(feed) : j > 1 => feed[j].id # d
            BY <2>1
        <3>3. LastIsTrue
            BY DEF MInv
        <3>4. feed[1].start <=> running[d]
            BY <1>1, <3>1, <3>2, <3>3 DEF LastIsTrue
        <3>5. e.start <=> running[d]
            BY <3>1, <3>4
        <3> QED
            BY <1>1, <1>5, <2>2, <3>5
    <2>3. CASE d # e.id
        <3>1. ~Pending(d)
            BY <1>2, <2>1, <2>3 DEF Pending
        <3> QED
            BY <1>1, <1>5, <2>3, <3>1 DEF MInv, MapFollowsDocker
    <2> QED
        BY <2>2, <2>3
<1> QED
    BY <1>6, <1>7

\* The goroutines leave the map and the queue alone.
LEMMA NextKeepsMap == MInv /\ TypeOK' /\ [Next]_vars => MInv'
<1> SUFFICES ASSUME MInv, TypeOK', [Next]_vars PROVE LastIsTrue' /\ MapFollowsDocker'
    BY DEF MInv
<1>1. ASSUME NEW g \in Goroutine, Runs(g) \/ Scan(g) \/ EndStream(g)
      PROVE  UNCHANGED <<running, feed, unheard, cancelFuncs>>
    BY <1>1 DEF Runs, Acquire, GiveUp, Open, OpenFails, Scan, Report, EndStream
<1>2. CASE UNCHANGED <<running, feed, unheard, cancelFuncs>>
    BY <1>2 DEF MInv, LastIsTrue, MapFollowsDocker, Pending
<1>3. CASE Connects
    BY <1>2, <1>3 DEF Connects
<1>4. CASE Breaks
    <2>1. /\ feed' = <<>> /\ UNCHANGED <<running, cancelFuncs>>
          /\ unheard' = unheard \cup {feed[i].id : i \in 1 .. Len(feed)}
        BY <1>4 DEF Breaks
    <2>2. \A c \in Container \ unheard' : c \notin unheard /\ ~Pending(c)
        BY <2>1 DEF Pending
    <2>3. Len(feed') = 0
        BY <2>1
    <2> QED
        BY <2>1, <2>2, <2>3 DEF MInv, LastIsTrue, MapFollowsDocker
<1>5. CASE Close
    BY <1>5 DEF Close, LastIsTrue, MapFollowsDocker
<1> QED
    BY <1>1, <1>2, <1>3, <1>4, <1>5, HeardKeepsMap, UnheardKeepsMap, HandleKeepsMap DEF Next, vars

\* Once its events are handled, a container of whose last change the collector
\* was told has an entry if and only if it runs, also when the first resync
\* failed (main.go, the start and the event callback; StartCollecting and
\* StopCollecting).  Nothing is said of an unheard container.
THEOREM MapFollows == Spec => []MapFollowsDocker
<1>1. Init => MInv
    <2> SUFFICES ASSUME Init PROVE LastIsTrue /\ MapFollowsDocker
        BY InitHolds DEF IInv, MInv
    <2>1. PICK listed \in {{c \in Container \ Excluded : running[c]}, {}} :
              feed \in FirstCalls(listed) /\ unheard = {c \in Container : running[c]} \ listed
        BY DEF Init
    <2>2. listed \in SUBSET Container /\ \A c \in listed : running[c]
        OBVIOUS
    <2>3. /\ \A i \in 1 .. Len(feed) : feed[i].start /\ feed[i].id \in listed
          /\ \A c \in listed : \E i \in 1 .. Len(feed) : feed[i].id = c
        BY <2>1, <2>2, FirstCallsTyped
    <2>4. LastIsTrue
        BY <2>2, <2>3 DEF LastIsTrue
    <2>5. ASSUME NEW c \in Container \ unheard, ~Pending(c)
          PROVE  cancelFuncs[c] = None /\ ~running[c]
        BY <2>1, <2>3, <2>5 DEF Init, Pending
    <2> QED
        BY <2>4, <2>5 DEF MapFollowsDocker
<1>2. MInv => MapFollowsDocker
    BY DEF MInv
<1> QED
    BY <1>1, <1>2, NextKeepsMap, TypeCorrect, PTL DEF Spec
=============================================================================
