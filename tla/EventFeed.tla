------------------------------ MODULE EventFeed ------------------------------
(***************************************************************************)
(* How the registry follows the Docker daemon: the event watcher           *)
(* (internal/events/watcher.go), the event stream it subscribes to         *)
(* (internal/dockerx/client.go, Events) and the registry's reads of the    *)
(* daemon, Resync and UpdateFromEvent (internal/registry/registry.go).     *)
(*                                                                         *)
(* The watcher is the only writer of the store.  It resyncs, subscribes,   *)
(* handles events until the stream breaks, sleeps and resyncs again; the   *)
(* first round is the one main.go starts with.  Reading the daemon and     *)
(* writing the store are separate steps, and after a list the containers   *)
(* are inspected one by one.  Containers the allow and deny patterns       *)
(* exclude are left out of Container.                                      *)
(*                                                                         *)
(* missed is an auxiliary variable: the containers whose latest change no  *)
(* event in hand and no later read will bring to the store.                *)
(***************************************************************************)
EXTENDS Integers, Sequences, FiniteSets

CONSTANTS
    Container,     \* container IDs
    Value,         \* what Inspect may tell of an existing container
    Unborn, Gone,  \* a container not yet created, or destroyed for ever
    None,          \* no container
    Failures,      \* which of "list", "inspect", "stream" may fail
    MaxBacklog     \* bound: events between the daemon and the watcher

ASSUME EventFeedAssumption ==
    /\ Unborn \notin Value /\ Gone \notin Value /\ Unborn # Gone
    /\ None \notin Container
    /\ MaxBacklog \in Nat \ {0}

VARIABLES
    docker,   \* the daemon's containers
    up,       \* the daemon's end of the event stream is alive
    backlog,  \* the events not yet taken, oldest first
    wpc,      \* where the watcher is
    current,  \* container of the event being handled
    unread,   \* listed containers that have still to be inspected
    seen,     \* what the watcher's reads returned
    store,    \* Registry.store
    missed

vars == <<docker, up, backlog, wpc, current, unread, seen, store, missed>>

State == Value \cup {Gone}            \* Gone: not in the store, not found

Shown(d) == IF d \in Value THEN d ELSE Gone

\* The watcher tells a destroy from every other action.
Event == [id : Container, destroy : BOOLEAN]

TypeOK ==
    /\ docker \in [Container -> Value \cup {Unborn, Gone}]
    /\ up \in BOOLEAN
    /\ backlog \in Seq(Event)
    /\ wpc \in {"list", "details", "subscribe", "loop", "inspect", "write", "sleep"}
    /\ current \in Container \cup {None}
    /\ unread \subseteq Container
    /\ seen \in [Container -> State]
    /\ store \in [Container -> State]
    /\ missed \subseteq Container
    /\ wpc \in {"inspect", "write"} <=> current # None

Nothing == [c \in Container |-> Gone]

Init ==
    /\ docker \in [Container -> Value \cup {Unborn}]
    /\ up = FALSE
    /\ backlog = <<>>
    /\ wpc = "list"
    /\ current = None
    /\ unread = {}
    /\ seen = Nothing
    /\ store = Nothing
    /\ missed = Container

----------------------------------------------------------------------------
(* The daemon.  Every change of a container is an event, if anyone listens.*)

Queued(c) == \E i \in 1 .. Len(backlog) : backlog[i].id = c

Changes(c) ==
    /\ docker[c] # Gone
    /\ Len(backlog) < MaxBacklog
    /\ \E d \in (Value \cup {Gone}) \ {docker[c]} :
          /\ docker' = [docker EXCEPT ![c] = d]
          /\ backlog' = IF up THEN Append(backlog, [id |-> c, destroy |-> d = Gone])
                        ELSE backlog
    /\ missed' = IF up THEN missed ELSE missed \cup {c}
    /\ UNCHANGED <<up, wpc, current, unread, seen, store>>

Breaks ==
    /\ "stream" \in Failures
    /\ up
    /\ up' = FALSE
    /\ UNCHANGED <<docker, backlog, wpc, current, unread, seen, store, missed>>

----------------------------------------------------------------------------
(* Resync: list the containers, inspect each, then replace the store.      *)

\* ContainerList answers with a summary of every container there is.
Lists ==
    /\ wpc = "list"
    /\ seen' = [c \in Container |-> Shown(docker[c])]
    /\ unread' = {c \in Container : docker[c] \in Value}
    /\ missed' = {}
    /\ wpc' = "details"
    /\ UNCHANGED <<docker, up, backlog, current, store>>

\* The list fails: an error is logged and the old store stays.
ListFails ==
    /\ "list" \in Failures
    /\ wpc = "list"
    /\ wpc' = "subscribe"
    /\ UNCHANGED <<docker, up, backlog, current, unread, seen, store, missed>>

\* A listed container is inspected.  If that fails, above all because it has
\* been destroyed meanwhile, its summary stays in the result.
ReadsOne(c) ==
    /\ wpc = "details"
    /\ c \in unread
    /\ unread' = unread \ {c}
    /\ \/ /\ docker[c] \in Value
          /\ seen' = [seen EXCEPT ![c] = docker[c]]
          /\ missed' = missed \ {c}
       \/ /\ docker[c] = Gone \/ "inspect" \in Failures
          /\ UNCHANGED <<seen, missed>>
    /\ UNCHANGED <<docker, up, backlog, wpc, current, store>>

ReplacedKeepsOld(new) == [c \in Container |-> IF new[c] = Gone THEN store[c] ELSE new[c]]
Replaced(new) == new

Replaces ==
    /\ wpc = "details"
    /\ unread = {}
    /\ store' = Replaced(seen)
    /\ wpc' = "subscribe"
    /\ UNCHANGED <<docker, up, backlog, current, unread, seen, missed>>

----------------------------------------------------------------------------
(* The event loop.                                                         *)

Subscribes ==
    /\ wpc = "subscribe"
    /\ up' = TRUE
    /\ backlog' = <<>>
    /\ wpc' = "loop"
    /\ UNCHANGED <<docker, current, unread, seen, store, missed>>

\* The select takes an event, even from a stream that has broken.  A destroy
\* is applied as it is, every other action makes the watcher inspect.
TakesEvent ==
    /\ wpc = "loop"
    /\ backlog # <<>>
    /\ current' = Head(backlog).id
    /\ backlog' = Tail(backlog)
    /\ IF Head(backlog).destroy
       THEN wpc' = "write" /\ seen' = [seen EXCEPT ![Head(backlog).id] = Gone]
       ELSE wpc' = "inspect" /\ UNCHANGED seen
    /\ UNCHANGED <<docker, up, unread, store, missed>>

\* Or the error, and the events still in the channel are dropped with it.
SeesError ==
    /\ wpc = "loop"
    /\ ~up
    /\ missed' = missed \cup {c \in Container : Queued(c)}
    /\ backlog' = <<>>
    /\ wpc' = "sleep"
    /\ UNCHANGED <<docker, up, current, unread, seen, store>>

\* The container as it is now, or "not found".
Inspects ==
    /\ wpc = "inspect"
    /\ seen' = [seen EXCEPT ![current] = Shown(docker[current])]
    /\ wpc' = "write"
    /\ UNCHANGED <<docker, up, backlog, current, unread, store, missed>>

Ends == current' = None /\ wpc' = "loop"

\* Any other error of Inspect is logged and the event is over.
InspectFails ==
    /\ "inspect" \in Failures
    /\ wpc = "inspect"
    /\ Ends
    /\ missed' = missed \cup {current}
    /\ UNCHANGED <<docker, up, backlog, unread, seen, store>>

Writes ==
    /\ wpc = "write"
    /\ store' = [store EXCEPT ![current] = seen[current]]
    /\ Ends
    /\ UNCHANGED <<docker, up, backlog, unread, seen, missed>>

\* The backoff has elapsed: a full resync, and only then a new subscription.
Wakes ==
    /\ wpc = "sleep"
    /\ wpc' = "list"
    /\ UNCHANGED <<docker, up, backlog, current, unread, seen, store, missed>>

----------------------------------------------------------------------------
WatcherStep ==
    \/ Lists
    \/ \E c \in Container : ReadsOne(c)
    \/ Replaces
    \/ Subscribes
    \/ TakesEvent
    \/ SeesError
    \/ Inspects
    \/ Writes
    \/ Wakes

Next ==
    \/ WatcherStep
    \/ ListFails
    \/ InspectFails
    \/ Breaks
    \/ \E c \in Container : Changes(c)

Spec == Init /\ [][Next]_vars

\* The watcher's goroutine runs and the daemon answers; nothing obliges a
\* container to change or the stream to break.
FairSpec == Spec /\ WF_vars(WatcherStep)

----------------------------------------------------------------------------
(* Properties.                                                             *)

\* What the watcher has read and not yet written.
InHand(c) ==
    \/ wpc = "write" /\ current = c
    \/ wpc = "details"

\* The store lags behind the daemon only for a reason: an event about the
\* container is on its way or being handled, a fresh read is in hand, or its
\* change is one of those missed: made while nobody listened and not read
\* since, dropped with a broken stream, or met by a failing Inspect.
LagExplained ==
    \A c \in Container : store[c] # Shown(docker[c]) =>
        \/ c \in missed
        \/ Queued(c)
        \/ wpc = "inspect" /\ current = c
        \/ InHand(c) /\ seen[c] = Shown(docker[c])

\* A container none of whose changes was missed is shown as it is, if it stays
\* so, however often the stream breaks in between.
Tracks ==
    \A c \in Container, s \in State :
        (Shown(docker[c]) = s /\ c \notin missed)
            ~> (store[c] = s \/ Shown(docker[c]) # s \/ c \in missed)

\* "All state is maintained in-memory and synchronized reactively from the
\* Docker Engine API event stream": the store comes to show every container
\* that keeps its state.
StoreFollowsDocker ==
    \A c \in Container, s \in State :
        (Shown(docker[c]) = s) ~> (store[c] = s \/ Shown(docker[c]) # s)
=============================================================================
