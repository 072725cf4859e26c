------------------------------ MODULE Collector ------------------------------
(***************************************************************************)
(* The stats collector (internal/stats/collector.go) and the event         *)
(* callback that starts and stops it (cmd/dock-pulse/main.go).             *)
(*                                                                         *)
(* Each collected container has a goroutine that waits for one of a fixed  *)
(* number of slots (the semaphore), holds it while it reads the daemon's   *)
(* stats stream, and gives it back when the stream ends or its context is  *)
(* cancelled.  A goroutine that was stopped may still be running when the  *)
(* next one for the same container starts.                                 *)
(*                                                                         *)
(* What a point says is left out, and with it the ring of points kept for  *)
(* each container, which nobody reads.                                     *)
(*                                                                         *)
(* When the event stream breaks, the events still on their way are lost    *)
(* with those of the gap: the resync that follows refreshes the registry   *)
(* and not the collector.                                                  *)
(*                                                                         *)
(* unheard is an auxiliary variable: the containers of whose last start or *)
(* death the collector is not told, those among them that run already when *)
(* the first resync fails, or that it does not list.                       *)
(* late is an auxiliary variable: the points a goroutine has broadcast     *)
(* since it was stopped, counted up to two.                                *)
(***************************************************************************)
EXTENDS Integers, Sequences, FiniteSets

CONSTANTS
    Container,
    Excluded,         \* containers the patterns exclude from the registry
    Goroutine,        \* slots for runContainerStream goroutines
    None,             \* no goroutine, no container
    MaxConcurrency,   \* capacity of Collector.sem (20)
    MaxBacklog        \* bound: events the watcher has not handled yet

ASSUME CollectorAssumption ==
    /\ IsFiniteSet(Container)
    /\ Excluded \subseteq Container
    /\ None \notin Container \cup Goroutine
    /\ MaxConcurrency \in Nat \ {0}
    /\ MaxBacklog \in Nat \ {0}

VARIABLES
    running,      \* the daemon: containers that run
    watcher,      \* progress of the program and its event watcher
    feed,         \* events on their way to the callback, at first those of the loop
    unheard,
    cancelFuncs,  \* whose context Collector.cancelFuncs[id] cancels
    sem,          \* slots taken
    gpc, gid, cancelled, late   \* goroutines

goroutineVars == <<gpc, gid, cancelled, late>>
vars == <<running, watcher, feed, unheard, cancelFuncs, sem, goroutineVars>>

Event == [start : BOOLEAN, id : Container]

TypeOK ==
    /\ running \in [Container -> BOOLEAN]
    /\ watcher \in {"starting", "on", "off", "ended"}
    /\ feed \in Seq(Event)
    /\ unheard \subseteq Container
    /\ cancelFuncs \in [Container -> Goroutine \cup {None}]
    /\ sem \in 0 .. MaxConcurrency
    /\ gpc \in [Goroutine -> {"idle", "acquire", "open", "scan", "report"}]
    /\ gid \in [Goroutine -> Container \cup {None}]
    /\ cancelled \in [Goroutine -> BOOLEAN]
    /\ late \in [Goroutine -> 0 .. 2]
    /\ \A g \in Goroutine : gpc[g] = "idle" <=> gid[g] = None

\* The calls of the loop over the registry's list, in the order of a map.
FirstCalls(listed) ==
    {q \in [1 .. Cardinality(listed) -> [start : {TRUE}, id : listed]] :
        \A c \in listed : \E i \in DOMAIN q : q[i].id = c}

\* The first resync fills the registry with the containers the patterns admit.
\* When it fails the program goes on with an empty registry.
Init ==
    /\ running \in [Container -> BOOLEAN]
    /\ watcher = "starting"
    /\ \E listed \in {{c \in Container \ Excluded : running[c]}, {}} :
          /\ feed \in FirstCalls(listed)
          /\ unheard = {c \in Container : running[c]} \ listed
    /\ cancelFuncs = [c \in Container |-> None]
    /\ sem = 0
    /\ gpc = [g \in Goroutine |-> "idle"]
    /\ gid = [g \in Goroutine |-> None]
    /\ cancelled = [g \in Goroutine |-> FALSE]
    /\ late = [g \in Goroutine |-> 0]

----------------------------------------------------------------------------
(* The daemon.                                                             *)

Announce(starts, c) ==
    /\ IF watcher = "on"
       THEN /\ Len(feed) < MaxBacklog
            /\ feed' = Append(feed, [start |-> starts, id |-> c])
            /\ unheard' = unheard \ {c}
       ELSE /\ unheard' = unheard \cup {c}
            /\ UNCHANGED feed
    /\ UNCHANGED <<watcher, cancelFuncs, sem, goroutineVars>>

Starts(c) ==
    /\ ~running[c]
    /\ running' = [running EXCEPT ![c] = TRUE]
    /\ Announce(TRUE, c)

Dies(c) ==
    /\ running[c]
    /\ running' = [running EXCEPT ![c] = FALSE]
    /\ Announce(FALSE, c)

\* After "die" there may be a "stop", and a "destroy".
DiesOn(c) ==
    /\ ~running[c]
    /\ Announce(FALSE, c)
    /\ UNCHANGED running

Breaks ==
    /\ watcher = "on"
    /\ watcher' = "off"
    /\ feed' = <<>>
    /\ unheard' = unheard \cup {feed[i].id : i \in 1 .. Len(feed)}
    /\ UNCHANGED <<running, cancelFuncs, sem, goroutineVars>>

----------------------------------------------------------------------------
(* The loop of the start and the event callback, one event after another.  *)

Idle == {g \in Goroutine : gpc[g] = "idle"}

Known(c) == cancelFuncs[c] # None

\* StartCollecting.
StartCollecting(c) ==
    /\ IF Known(c) THEN UNCHANGED <<cancelFuncs, goroutineVars>>
       ELSE /\ Idle # {}
            /\ LET g == CHOOSE g \in Idle : TRUE
               IN  /\ cancelFuncs' = [cancelFuncs EXCEPT ![c] = g]
                   /\ gpc' = [gpc EXCEPT ![g] = "acquire"]
                   /\ gid' = [gid EXCEPT ![g] = c]
            /\ UNCHANGED <<cancelled, late>>

\* A definition named for its fault is a faulty variant of the one after it.
ForgottenNever(c) == cancelFuncs
Forgotten(c) == [cancelFuncs EXCEPT ![c] = None]

\* To a goroutine that has ended by itself a cancellation makes no difference.
StoppedNever(c, g) == FALSE
Stopped(c, g) == cancelFuncs[c] = g /\ gid[g] = c

StopCollecting(c) ==
    /\ cancelFuncs' = Forgotten(c)
    /\ cancelled' = [g \in Goroutine |-> cancelled[g] \/ Stopped(c, g)]
    /\ UNCHANGED <<gpc, gid, late>>

HandleEvent ==
    /\ feed # <<>>
    /\ feed' = Tail(feed)
    /\ LET event == Head(feed)
       IN  IF event.start THEN StartCollecting(event.id) ELSE StopCollecting(event.id)
    /\ UNCHANGED <<running, watcher, unheard, sem>>

\* Events is called when the loop has ended, and after the backoff.
Connects ==
    /\ watcher \in {"starting", "off"}
    /\ feed = <<>>
    /\ watcher' = "on"
    /\ UNCHANGED <<running, feed, unheard, cancelFuncs, sem, goroutineVars>>

\* Close, when the watcher has ended; the program then ends, too.
Close ==
    /\ watcher \in {"on", "off"}
    /\ watcher' = "ended"
    /\ feed' = <<>>
    /\ unheard' = Container
    /\ cancelFuncs' = [c \in Container |-> None]
    /\ cancelled' = [g \in Goroutine |-> cancelled[g] \/ \E c \in Container : Stopped(c, g)]
    /\ UNCHANGED <<running, sem, gpc, gid, late>>

----------------------------------------------------------------------------
(* runContainerStream.                                                     *)

Exit(g) ==
    /\ gpc' = [gpc EXCEPT ![g] = "idle"]
    /\ gid' = [gid EXCEPT ![g] = None]
    /\ cancelled' = [cancelled EXCEPT ![g] = FALSE]
    /\ late' = [late EXCEPT ![g] = 0]

\* The deferred receive that gives the slot back.
ReleasedNever == sem
Released == sem - 1

Leave(g) == Exit(g) /\ sem' = Released

HasSlot == sem < MaxConcurrency

Acquire(g) ==
    /\ gpc[g] = "acquire"
    /\ HasSlot
    /\ sem' = sem + 1
    /\ gpc' = [gpc EXCEPT ![g] = "open"]
    /\ UNCHANGED <<running, watcher, feed, unheard, cancelFuncs, gid, cancelled, late>>

\* The select that waits for a slot waits for the context too.
GivesUpNever(g) == FALSE
GivesUp(g) == cancelled[g]

GiveUp(g) ==
    /\ gpc[g] = "acquire"
    /\ GivesUp(g)
    /\ Exit(g)
    /\ UNCHANGED <<running, watcher, feed, unheard, cancelFuncs, sem>>

Open(g) ==
    /\ gpc[g] = "open"
    /\ gpc' = [gpc EXCEPT ![g] = "scan"]
    /\ UNCHANGED <<running, watcher, feed, unheard, cancelFuncs, sem, gid, cancelled, late>>

OpenFails(g) ==
    /\ gpc[g] = "open"
    /\ Leave(g)
    /\ UNCHANGED <<running, watcher, feed, unheard, cancelFuncs>>

\* A message: the context is looked at once, before it is parsed.  One that
\* cannot be parsed is skipped.
LiveAlways(g) == TRUE
Live(g) == ~cancelled[g]

Scan(g) ==
    /\ gpc[g] = "scan"
    /\ Live(g)
    /\ gpc' = [gpc EXCEPT ![g] = "report"]
    /\ UNCHANGED <<running, watcher, feed, unheard, cancelFuncs, sem, gid, cancelled, late>>

\* The point is kept, and broadcast by onStats.
Report(g) ==
    /\ gpc[g] = "report"
    /\ gpc' = [gpc EXCEPT ![g] = "scan"]
    /\ late' = [late EXCEPT ![g] = IF cancelled[g] /\ @ < 2 THEN @ + 1 ELSE @]
    /\ UNCHANGED <<running, watcher, feed, unheard, cancelFuncs, sem, gid, cancelled>>

\* The daemon ends the stream, or the context is done.
EndStream(g) ==
    /\ gpc[g] = "scan"
    /\ Leave(g)
    /\ UNCHANGED <<running, watcher, feed, unheard, cancelFuncs>>

Runs(g) == Acquire(g) \/ GiveUp(g) \/ Open(g) \/ OpenFails(g) \/ Report(g)

Next ==
    \/ \E c \in Container : Starts(c) \/ Dies(c) \/ DiesOn(c)
    \/ Breaks \/ Connects \/ HandleEvent \/ Close
    \/ \E g \in Goroutine : Runs(g) \/ Scan(g) \/ EndStream(g)

Spec == Init /\ [][Next]_vars

\* Goroutines run and the daemon answers; the read of a stream whose context
\* is done ends.  Nobody has to wait for a slot that is never given back.
Fairness ==
    /\ WF_vars(HandleEvent)
    /\ \A g \in Goroutine : WF_vars(Runs(g)) /\ WF_vars(cancelled[g] /\ EndStream(g))

FairSpec == Spec /\ Fairness

----------------------------------------------------------------------------
(* Properties.                                                             *)

Pending(c) == \E i \in 1 .. Len(feed) : feed[i].id = c

Holds(g) == gpc[g] \in {"open", "scan", "report"}

\* Every way out of a goroutine gives back the slot it took, and no other: the
\* slots taken are those of the goroutines between opening and ending a stream.
SlotsBalance == sem = Cardinality({g \in Goroutine : Holds(g)})

\* Stops and restarts of a container in quick succession leave no stream that
\* cannot be stopped: a goroutine not yet cancelled is the one whose cancel
\* function the map holds, so a container has one at most.
OneStream ==
    \A g \in Goroutine : (gpc[g] # "idle" /\ ~cancelled[g]) => cancelFuncs[gid[g]] = g

\* The streams the goroutines hold open at the daemon.
Streams == INSTANCE StreamSlots WITH
    Owner   <- Container,
    Reader  <- Goroutine,
    Max     <- MaxConcurrency,
    holding <- [g \in Goroutine |-> IF Holds(g) THEN gid[g] ELSE None],
    retired <- {g \in Goroutine : Holds(g) /\ cancelled[g]}

\* Whatever starts, stops and fails in whatever order, at the daemon there are
\* never more streams than slots, a container has never two that were not
\* stopped, and a stopped one does nothing but end.
KeepsSlots == Streams!Spec

\* A container of whose last change the collector was told is in the map if
\* and only if it runs, once its events are handled: neither an earlier stream
\* of its own nor a gap before that change makes a difference, nor a failed
\* first resync.  Of the others, the unheard ones, it promises nothing.
MapFollowsDocker ==
    \A c \in Container \ unheard : ~Pending(c) => (cancelFuncs[c] # None <=> running[c])

\* After StopCollecting a goroutine broadcasts one more point at most, the one
\* whose message it had read before.
OneLatePoint == \A g \in Goroutine : late[g] <= 1

\* A container that stays down, and whose death was heard, ends up without a
\* goroutine, even one that was waiting while other streams hold all slots.
DownIsLetGo ==
    \A c \in Container :
        (~running[c] /\ c \notin unheard)
            ~> (running[c] \/ c \in unheard \/ \A g \in Goroutine : gid[g] # c)
=============================================================================
