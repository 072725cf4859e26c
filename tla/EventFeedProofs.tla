---------------------------- MODULE EventFeedProofs ---------------------------
(***************************************************************************)
(* The registry lags behind the daemon only for the reasons LagExplained   *)
(* lists, for any set of containers and any number of events in flight.    *)
(*                                                                         *)
(* The invariant needs three more facts to be inductive: what the watcher  *)
(* is about to write is no older than what is still queued (HandFresh),    *)
(* a destroy event stays true, for the container never comes back (Final), *)
(* and nothing is queued while the watcher does not listen (Offline).      *)
(***************************************************************************)
EXTENDS EventFeed, TLAPS

\* A destroy event, queued or being handled, is about a container that is gone.
Final ==
    \A i \in 1 .. Len(backlog) : backlog[i].destroy => docker[backlog[i].id] = Gone

\* The daemon's stream is not alive while the watcher resyncs or sleeps.
Offline ==
    wpc \in {"list", "details", "subscribe", "sleep"} => ~up /\ backlog = <<>>

\* A read in hand is fresh, unless a change since is queued or was missed.
HandFresh ==
    \A c \in Container : InHand(c) =>
        seen[c] = Shown(docker[c]) \/ Queued(c) \/ c \in missed

IInv == TypeOK /\ LagExplained /\ HandFresh /\ Final /\ Offline

USE EventFeedAssumption

----------------------------------------------------------------------------
(* Shown and the queue.                                                    *)

\* What the watcher can read of a container is a state the store can hold.
LEMMA ShownType ==
    ASSUME NEW d \in Value \cup {Unborn, Gone}
    PROVE  /\ Shown(d) \in State
           /\ d = Gone => Shown(d) = Gone
BY DEF Shown, State

\* An event appended leaves the queued ones queued and adds its own.
LEMMA AppendQueues ==
    ASSUME NEW b \in Seq(Event), NEW e \in Event
    PROVE  /\ Append(b, e) \in Seq(Event)
           /\ \A i \in 1 .. Len(b) : i \in 1 .. Len(Append(b, e)) /\ Append(b, e)[i] = b[i]
           /\ Len(b) + 1 \in 1 .. Len(Append(b, e))
           /\ Append(b, e)[Len(b) + 1] = e
           /\ \A i \in 1 .. Len(Append(b, e)) : i \in 1 .. Len(b) \/ i = Len(b) + 1
OBVIOUS

\* Taking the oldest event leaves the others queued, and adds none.
LEMMA TailQueues ==
    ASSUME NEW b \in Seq(Event), b # <<>>
    PROVE  /\ Tail(b) \in Seq(Event)
           /\ Head(b) \in Event
           /\ Head(b) = b[1]
           /\ 1 \in 1 .. Len(b)
           /\ \A i \in 1 .. Len(Tail(b)) : i + 1 \in 1 .. Len(b) /\ Tail(b)[i] = b[i + 1]
           /\ \A i \in 1 .. Len(b) :
                 i = 1 \/ (i - 1 \in 1 .. Len(Tail(b)) /\ Tail(b)[i - 1] = b[i])
OBVIOUS

\* The watcher starts with an empty store that has missed everything.
LEMMA InitHolds == Init => IInv
<1> SUFFICES ASSUME Init PROVE IInv
    OBVIOUS
<1>1. TypeOK
    <2>1. docker \in [Container -> Value \cup {Unborn, Gone}]
        BY DEF Init
    <2>2. seen \in [Container -> State] /\ store = seen
        BY DEF Init, State, Nothing
    <2>3. backlog \in Seq(Event)
        BY DEF Init
    <2> QED
        BY <2>1, <2>2, <2>3 DEF Init, TypeOK
<1>2. LagExplained
    BY DEF Init, LagExplained
<1>3. HandFresh /\ Final /\ Offline
    BY DEF Init, HandFresh, InHand, Final, Offline
<1> QED
    BY <1>1, <1>2, <1>3 DEF IInv

----------------------------------------------------------------------------
(* One lemma per action.                                                   *)

\* A change is queued if somebody listens and missed otherwise.
LEMMA ChangesKeeps ==
    ASSUME IInv, NEW c \in Container, Changes(c)
    PROVE  IInv'
<1> USE DEF IInv
<1>1. PICK d \in (Value \cup {Gone}) \ {docker[c]} :
          /\ docker' = [docker EXCEPT ![c] = d]
          /\ backlog' = IF up THEN Append(backlog, [id |-> c, destroy |-> d = Gone])
                        ELSE backlog
    BY DEF Changes
<1> DEFINE e == [id |-> c, destroy |-> d = Gone]
<1>2. e \in Event /\ e.id = c /\ (e.destroy => d = Gone)
    BY DEF Event
<1>3. backlog \in Seq(Event) /\ docker \in [Container -> Value \cup {Unborn, Gone}]
    BY DEF TypeOK
<1>4. /\ docker' \in [Container -> Value \cup {Unborn, Gone}]
      /\ docker'[c] = d
      /\ \A x \in Container \ {c} : docker'[x] = docker[x]
    BY <1>1, <1>3
<1>5. backlog' = IF up THEN Append(backlog, e) ELSE backlog
    BY <1>1
<1>6. docker[c] # Gone /\ missed' = (IF up THEN missed ELSE missed \cup {c})
      /\ UNCHANGED <<up, wpc, current, unread, seen, store>>
    BY DEF Changes
<1> HIDE DEF e
<1>7. backlog' \in Seq(Event)
    BY <1>2, <1>3, <1>5, AppendQueues
<1>8. \A x \in Container : Queued(x) => Queued(x)'
    BY <1>2, <1>3, <1>5, AppendQueues DEF Queued
<1>9. Queued(c)' \/ c \in missed'
    BY <1>2, <1>3, <1>5, <1>6, AppendQueues DEF Queued
<1>10. TypeOK'
    BY <1>4, <1>6, <1>7 DEF TypeOK
<1>11. LagExplained'
    <2> SUFFICES ASSUME NEW x \in Container, x # c, store'[x] # Shown(docker'[x])
                 PROVE  (\/ x \in missed
                         \/ Queued(x)
                         \/ wpc = "inspect" /\ current = x
                         \/ InHand(x) /\ seen[x] = Shown(docker[x]))'
        BY <1>9 DEF LagExplained
    <2>1. store[x] # Shown(docker[x])
        BY <1>4, <1>6
    <2>2. InHand(x)' <=> InHand(x)
        BY <1>6 DEF InHand
    <2> QED
        BY <2>1, <2>2, <1>4, <1>6, <1>8 DEF LagExplained
<1>12. HandFresh'
    <2> SUFFICES ASSUME NEW x \in Container, x # c, InHand(x)'
                 PROVE  seen'[x] = Shown(docker'[x]) \/ Queued(x)' \/ x \in missed'
        BY <1>9 DEF HandFresh
    <2>1. InHand(x)
        BY <1>6 DEF InHand
    <2> QED
        BY <2>1, <1>4, <1>6, <1>8 DEF HandFresh
<1>13. Final'
    <2> SUFFICES ASSUME NEW i \in 1 .. Len(backlog'), backlog'[i].destroy
                 PROVE  docker'[backlog'[i].id] = Gone
        BY DEF Final
    <2>1. CASE i \in 1 .. Len(backlog) /\ backlog'[i] = backlog[i]
        <3>1. backlog[i] \in Event
            BY <2>1, <1>3
        <3>2. backlog[i].id \in Container
            BY <3>1 DEF Event
        <3>3. docker[backlog[i].id] = Gone
            BY <2>1 DEF Final
        <3> QED
            BY <3>2, <3>3, <2>1, <1>4, <1>6
    <2>2. CASE up /\ backlog'[i] = e
        BY <2>2, <1>2, <1>4
    <2> QED
        BY <2>1, <2>2, <1>2, <1>3, <1>5, AppendQueues
<1>14. Offline'
    BY <1>5, <1>6 DEF Offline
<1> QED
    BY <1>10, <1>11, <1>12, <1>13, <1>14

\* A broken stream keeps what it had queued.
LEMMA BreaksKeeps ==
    ASSUME IInv, Breaks
    PROVE  IInv'
BY DEF IInv, Breaks, TypeOK, LagExplained, HandFresh, Final, Offline, InHand, Queued

\* A list puts every container in hand while nobody listens.
LEMMA ListsKeeps ==
    ASSUME IInv, Lists
    PROVE  IInv'
<1> USE DEF IInv, Lists
<1>1. seen' \in [Container -> State]
    BY ShownType DEF TypeOK
<1>2. TypeOK'
    BY <1>1 DEF TypeOK
<1>3. LagExplained' /\ HandFresh'
    BY DEF LagExplained, HandFresh, InHand
<1>4. Final' /\ Offline'
    BY DEF Final, Offline
<1> QED
    BY <1>2, <1>3, <1>4

\* Nothing is in hand when the list fails.
LEMMA ListFailsKeeps ==
    ASSUME IInv, ListFails
    PROVE  IInv'
BY DEF IInv, ListFails, TypeOK, LagExplained, HandFresh, Final, Offline, InHand, Queued

\* Another look at a container can only make what is in hand fresher.
LEMMA ReadsOneKeeps ==
    ASSUME IInv, NEW c \in Container, ReadsOne(c)
    PROVE  IInv'
<1> USE DEF IInv
<1>1. /\ wpc = "details" /\ unread' = unread \ {c}
      /\ UNCHANGED <<docker, up, backlog, wpc, current, store>>
    BY DEF ReadsOne
<1>2. CASE UNCHANGED <<seen, missed>>
    BY <1>1, <1>2 DEF TypeOK, LagExplained, HandFresh, Final, Offline, InHand, Queued
<1>3. CASE /\ docker[c] \in Value
           /\ seen' = [seen EXCEPT ![c] = docker[c]]
           /\ missed' = missed \ {c}
    <2>1. /\ seen' \in [Container -> State]
          /\ seen'[c] = Shown(docker[c])
          /\ \A x \in Container \ {c} : seen'[x] = seen[x]
        BY <1>3 DEF TypeOK, State, Shown
    <2>2. TypeOK'
        BY <1>1, <1>3, <2>1 DEF TypeOK
    <2>3. LagExplained' /\ HandFresh'
        BY <1>1, <1>3, <2>1 DEF LagExplained, HandFresh, InHand, Queued
    <2>4. Final' /\ Offline'
        BY <1>1 DEF Final, Offline
    <2> QED
        BY <2>2, <2>3, <2>4
<1> QED
    BY <1>2, <1>3 DEF ReadsOne

\* Replacing the store puts what was in hand into it.
LEMMA ReplacesKeeps ==
    ASSUME IInv, Replaces
    PROVE  IInv'
<1> USE DEF IInv, Replaces, Replaced
<1>1. TypeOK'
    BY DEF TypeOK
<1>2. LagExplained'
    BY DEF LagExplained, HandFresh, InHand, Queued
<1>3. HandFresh' /\ Final' /\ Offline'
    BY DEF HandFresh, InHand, Final, Offline
<1> QED
    BY <1>1, <1>2, <1>3

\* A new subscription starts with nothing queued, as before it.
LEMMA SubscribesKeeps ==
    ASSUME IInv, Subscribes
    PROVE  IInv'
<1> USE DEF IInv, Subscribes
<1>1. TypeOK'
    BY DEF TypeOK
<1>2. LagExplained'
    BY DEF LagExplained, InHand, Offline, Queued
<1>3. HandFresh' /\ Final' /\ Offline'
    BY DEF HandFresh, InHand, Final, Offline
<1> QED
    BY <1>1, <1>2, <1>3

\* The event taken is being handled; the others stay queued.
LEMMA TakesEventKeeps ==
    ASSUME IInv, TakesEvent
    PROVE  IInv'
<1> USE DEF IInv
<1> DEFINE h == Head(backlog)
<1>1. /\ wpc = "loop" /\ backlog # <<>> /\ current' = h.id /\ backlog' = Tail(backlog)
      /\ IF h.destroy
         THEN wpc' = "write" /\ seen' = [seen EXCEPT ![h.id] = Gone]
         ELSE wpc' = "inspect" /\ seen' = seen
      /\ UNCHANGED <<docker, up, unread, store, missed>>
    BY DEF TakesEvent
<1>2. /\ backlog' \in Seq(Event)
      /\ h \in Event /\ h.id \in Container
      /\ h = backlog[1] /\ 1 \in 1 .. Len(backlog)
      /\ \A i \in 1 .. Len(backlog') : i + 1 \in 1 .. Len(backlog) /\ backlog'[i] = backlog[i + 1]
      /\ \A i \in 1 .. Len(backlog) :
            i = 1 \/ (i - 1 \in 1 .. Len(backlog') /\ backlog'[i - 1] = backlog[i])
    BY <1>1, TailQueues DEF TypeOK, Event
<1>3. h.destroy => docker[h.id] = Gone /\ Shown(docker[h.id]) = Gone
    BY <1>2, ShownType DEF Final, TypeOK
<1> HIDE DEF h
<1>4. \A x \in Container : x # h.id => (Queued(x)' <=> Queued(x))
    BY <1>2 DEF Queued
<1>5. /\ seen' \in [Container -> State]
      /\ h.destroy => seen'[h.id] = Gone
      /\ \A x \in Container \ {h.id} : seen'[x] = seen[x]
    BY <1>1, <1>2 DEF TypeOK, State
<1>6. TypeOK'
    BY <1>1, <1>2, <1>5 DEF TypeOK
<1>7. LagExplained'
    <2> SUFFICES ASSUME NEW x \in Container, store'[x] # Shown(docker'[x])
                 PROVE  (\/ x \in missed
                         \/ Queued(x)
                         \/ wpc = "inspect" /\ current = x
                         \/ InHand(x) /\ seen[x] = Shown(docker[x]))'
        BY DEF LagExplained
    <2>1. CASE x = h.id
        BY <2>1, <1>1, <1>3, <1>5 DEF InHand
    <2>2. CASE x # h.id
        BY <2>2, <1>1, <1>4 DEF LagExplained, InHand
    <2> QED
        BY <2>1, <2>2
<1>8. HandFresh'
    BY <1>1, <1>3, <1>5 DEF HandFresh, InHand
<1>9. Final'
    BY <1>1, <1>2 DEF Final
<1>10. Offline'
    BY <1>1 DEF Offline
<1> QED
    BY <1>6, <1>7, <1>8, <1>9, <1>10

\* What was queued when the error is seen is missed.
LEMMA SeesErrorKeeps ==
    ASSUME IInv, SeesError
    PROVE  IInv'
<1> USE DEF IInv, SeesError
<1>1. TypeOK'
    BY DEF TypeOK
<1>2. LagExplained'
    BY DEF LagExplained, InHand
<1>3. HandFresh' /\ Final' /\ Offline'
    BY DEF HandFresh, InHand, Final, Offline
<1> QED
    BY <1>1, <1>2, <1>3

\* An inspect reads the container as it is.
LEMMA InspectsKeeps ==
    ASSUME IInv, Inspects
    PROVE  IInv'
<1> USE DEF IInv, Inspects
<1>1. current \in Container
    BY DEF TypeOK
<1>2. TypeOK'
    BY <1>1, ShownType DEF TypeOK
<1>3. seen'[current] = Shown(docker[current])
    BY <1>1 DEF TypeOK
<1>4. LagExplained'
    BY <1>3 DEF LagExplained, InHand, Queued
<1>5. HandFresh'
    BY <1>3 DEF HandFresh, InHand
<1>6. Final' /\ Offline'
    BY DEF Final, Offline
<1> QED
    BY <1>2, <1>4, <1>5, <1>6

\* A failed inspect misses its container.
LEMMA InspectFailsKeeps ==
    ASSUME IInv, InspectFails
    PROVE  IInv'
<1> USE DEF IInv, InspectFails, Ends
<1>1. TypeOK'
    BY DEF TypeOK
<1>2. LagExplained'
    BY DEF LagExplained, InHand, Queued
<1>3. HandFresh' /\ Final' /\ Offline'
    BY DEF HandFresh, InHand, Final, Offline
<1> QED
    BY <1>1, <1>2, <1>3

\* The write puts the fresh read into the store, or something queued or missed
\* explains why it is not fresh.
LEMMA WritesKeeps ==
    ASSUME IInv, Writes
    PROVE  IInv'
<1> USE DEF IInv, Writes, Ends
<1>1. current \in Container
    BY DEF TypeOK
<1>2. /\ store' \in [Container -> State]
      /\ store'[current] = seen[current]
      /\ \A x \in Container \ {current} : store'[x] = store[x]
    BY <1>1 DEF TypeOK
<1>3. TypeOK'
    BY <1>2 DEF TypeOK
<1>4. LagExplained'
    BY <1>1, <1>2 DEF LagExplained, HandFresh, InHand, Queued
<1>5. HandFresh' /\ Final' /\ Offline'
    BY DEF HandFresh, InHand, Final, Offline
<1> QED
    BY <1>3, <1>4, <1>5

\* Nothing is queued or in hand when the watcher wakes up.
LEMMA WakesKeeps ==
    ASSUME IInv, Wakes
    PROVE  IInv'
<1> USE DEF IInv, Wakes
<1>1. TypeOK'
    BY DEF TypeOK
<1>2. LagExplained'
    BY DEF LagExplained, InHand, Offline, Queued
<1>3. HandFresh' /\ Final' /\ Offline'
    BY DEF HandFresh, InHand, Final, Offline
<1> QED
    BY <1>1, <1>2, <1>3

----------------------------------------------------------------------------
\* Every step of the daemon and of the watcher keeps the invariant.
LEMMA NextKeeps == IInv /\ [Next]_vars => IInv'
<1> SUFFICES ASSUME IInv, [Next]_vars PROVE IInv'
    OBVIOUS
<1>1. ASSUME NEW c \in Container, Changes(c) PROVE IInv'
    BY <1>1, ChangesKeeps
<1>2. ASSUME NEW c \in Container, ReadsOne(c) PROVE IInv'
    BY <1>2, ReadsOneKeeps
<1>3. CASE Breaks
    BY <1>3, BreaksKeeps
<1>4. CASE ListFails
    BY <1>4, ListFailsKeeps
<1>5. CASE InspectFails
    BY <1>5, InspectFailsKeeps
<1>6. CASE Replaces
    BY <1>6, ReplacesKeeps
<1>7. CASE Subscribes
    BY <1>7, SubscribesKeeps
<1>8. CASE TakesEvent
    BY <1>8, TakesEventKeeps
<1>9. CASE SeesError
    BY <1>9, SeesErrorKeeps
<1>10. CASE Inspects
    BY <1>10, InspectsKeeps
<1>11. CASE Writes
    BY <1>11, WritesKeeps
<1>12. CASE Wakes
    BY <1>12, WakesKeeps
<1>13. CASE Lists
    BY <1>13, ListsKeeps
<1>14. CASE UNCHANGED vars
    BY <1>14 DEF vars, IInv, TypeOK, LagExplained, HandFresh, Final, Offline, InHand, Queued
<1> QED
    BY <1>1, <1>2, <1>3, <1>4, <1>5, <1>6, <1>7, <1>8, <1>9, <1>10, <1>11, <1>12, <1>13, <1>14
    DEF Next, WatcherStep

\* The invariant holds in every state the watcher and the daemon can reach.
THEOREM Inductive == Spec => []IInv
<1>1. Init => IInv
    BY InitHolds
<1>2. IInv /\ [Next]_vars => IInv'
    BY NextKeeps
<1> QED
    BY <1>1, <1>2, PTL DEF Spec

\* The store never lags behind the daemon without a reason LagExplained names,
\* however changes, breaks, failures and resyncs interleave (watcher.go).
THEOREM LagHasAReason == Spec => []LagExplained
<1>1. IInv => LagExplained
    BY DEF IInv
<1> QED
    BY <1>1, Inductive, PTL

\* Every variable of the watcher keeps its type, and the watcher holds an
\* event exactly while it handles one.
THEOREM TypeCorrect == Spec => []TypeOK
<1>1. IInv => TypeOK
    BY DEF IInv
<1> QED
    BY <1>1, Inductive, PTL
=============================================================================
