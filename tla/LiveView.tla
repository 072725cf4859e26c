------------------------------ MODULE LiveView ------------------------------
(***************************************************************************)
(* How the registry reaches the browsers: the store of                     *)
(* internal/registry/registry.go, its callbacks into the fan-out hub       *)
(* (internal/hub/hub.go), the WebSocket handler of each connection         *)
(* (internal/httpapi/ws.go) and the browser's container map                *)
(* (web/src/state/store.ts).                                               *)
(*                                                                         *)
(* One goroutine, the event watcher, writes the store; it runs the         *)
(* callbacks while it holds the registry's lock, except for a removal,     *)
(* whose callback runs after the unlock.  BroadcastState runs under the    *)
(* hub's read lock, which Register and Unregister exclude; the callers     *)
(* List and Get wait for the registry's lock.  Nobody reads the store      *)
(* while the writer holds the lock, so the writer's step changes it at     *)
(* once and leaves the messages to send in jobs.                           *)
(*                                                                         *)
(* A connection slot is one browser tab: when its handler has ended it may *)
(* connect again and keeps the view it had.                                *)
(***************************************************************************)
EXTENDS Integers, Sequences, FiniteSets, Selection

CONSTANTS
    Container,      \* container IDs
    Value,          \* what Inspect may tell of a container that exists
    Absent,         \* the container is not in the store, or not in the view
    Conn,           \* WebSocket connections
    Noise,          \* subject of stats, log and supervisor messages
    QueueSize,      \* capacity of Client.Send (256 in ws.go)
    MaxConnections  \* Hub.maxConnections

ASSUME LiveViewAssumption ==
    /\ Absent \notin Value
    /\ Noise \notin Container
    /\ IsFiniteSet(Conn)
    /\ QueueSize \in Nat \ {0}
    /\ MaxConnections \in Nat \ {0}

VARIABLES
    store,      \* Registry.store
    locked,     \* the watcher holds Registry.mu
    jobs,       \* messages its callbacks have still to broadcast
    slow,       \* connections it is closing inside sendNonBlocking
    phase,      \* progress of each connection's ServeHTTP
    sock,       \* state of each connection's socket
    queue,      \* Client.Send of each connection
    view        \* containers of the browser's store

vars == <<store, locked, jobs, slow, phase, sock, queue, view>>

State == Value \cup {Absent}
Msg   == (Container \cup {Noise}) \X State

\* A container.updated message, or container.removed when the state is Absent.
About(c, s) == <<c, s>>
Subject(m)  == m[1]
Content(m)  == m[2]

TypeOK ==
    /\ store \in [Container -> State]
    /\ locked \in BOOLEAN
    /\ jobs \subseteq Container \X State
    /\ slow \subseteq Conn
    /\ phase \in [Conn -> {"closed", "registered", "listed", "live", "over"}]
    /\ sock \in [Conn -> {"open", "closing", "shut"}]
    /\ queue \in [Conn -> Seq(Msg)]
    /\ view \in [Conn -> [Container -> State]]

Init ==
    /\ store \in [Container -> State]
    /\ locked = FALSE
    /\ jobs = {}
    /\ slow = {}
    /\ phase = [k \in Conn |-> "closed"]
    /\ sock = [k \in Conn |-> "open"]
    /\ queue = [k \in Conn |-> <<>>]
    /\ view = [k \in Conn |-> [c \in Container |-> Absent]]

----------------------------------------------------------------------------
(* The registry, called by the watcher.                                    *)

Busy == locked \/ jobs # {}

Writes(new, messages, lock) ==
    /\ ~Busy
    /\ store' = new
    /\ jobs' = messages
    /\ locked' = lock
    /\ UNCHANGED <<slow, phase, sock, queue, view>>

\* A destroy event, or an event whose Inspect finds no container: the
\* callback runs after the unlock, whether the container was known or not.
Removes(c) ==
    Writes([store EXCEPT ![c] = Absent], {About(c, Absent)}, FALSE)

\* Inspect succeeds and the allow and deny patterns admit the container.
Updates(c, s) ==
    Writes([store EXCEPT ![c] = s], {About(c, s)}, TRUE)

\* Inspect succeeds and the patterns do not, or no longer, admit it.
Denies(c) ==
    /\ store[c] # Absent
    /\ Writes([store EXCEPT ![c] = Absent], {About(c, Absent)}, TRUE)

\* Resync with the allowed containers of a fresh list.
ResyncMessagesForgetRemoved(new) ==
    {About(c, new[c]) : c \in {c \in Container : new[c] # Absent}}
ResyncMessages(new) ==
    {About(c, new[c]) : c \in {c \in Container : new[c] # Absent \/ store[c] # Absent}}

Resyncs(new) == Writes(new, ResyncMessages(new), TRUE)

Unlock ==
    /\ locked
    /\ jobs = {}
    /\ slow = {}
    /\ locked' = FALSE
    /\ UNCHANGED <<store, jobs, slow, phase, sock, queue, view>>

----------------------------------------------------------------------------
(* The hub.                                                                *)

\* hub.clients.
AttachedAfterSnapshot(k) == phase[k] = "live"
Attached(k) == phase[k] # "closed"

Full(k) == Len(queue[k]) >= QueueSize

\* A client of the hub gets the message if there is room, even one whose
\* socket is gone and that has not been unregistered yet.
Takes(k) == Attached(k) /\ ~Full(k)

\* One that has no room is closed, and its Close waits inside the broadcast;
\* that of a socket that is gone returns at once.
Overflows(k) == Attached(k) /\ Full(k)
Closes(k)    == Overflows(k) /\ sock[k] # "shut"

EnqueueLatest(m) ==
    queue' = [k \in Conn |->
                 IF Takes(k) THEN Append(SelectSeq(queue[k], LAMBDA n : Subject(n) # Subject(m)), m)
                 ELSE queue[k]]
Enqueue(m) ==
    queue' = [k \in Conn |-> IF Takes(k) THEN Append(queue[k], m) ELSE queue[k]]

CloseOverflowing ==
    sock' = [k \in Conn |-> IF Closes(k) THEN "closing" ELSE sock[k]]

\* BroadcastState from a callback.  It returns when the closes it began have.
Broadcast(m) ==
    /\ m \in jobs
    /\ slow = {}
    /\ Enqueue(m)
    /\ CloseOverflowing
    /\ slow' = {k \in Conn : Closes(k)}
    /\ jobs' = jobs \ {m}
    /\ UNCHANGED <<store, locked, phase, view>>

\* Broadcasts of other goroutines: stats are dropped by a full client, log
\* lines and supervisor events close it.
BroadcastOther ==
    /\ Enqueue(About(Noise, Absent))
    /\ CloseOverflowing \/ UNCHANGED sock
    /\ UNCHANGED <<store, locked, jobs, slow, phase, view>>

\* The read lock of a broadcast that waits in a Close keeps writers out.
HubFree == \A k \in Conn : Attached(k) => sock[k] # "closing"

----------------------------------------------------------------------------
(* One connection: ServeHTTP, its writeLoop and the end of its readLoop.   *)

Register(k) ==
    /\ phase[k] = "closed"
    /\ HubFree
    /\ Cardinality({j \in Conn : phase[j] # "closed"}) < MaxConnections
    /\ phase' = [phase EXCEPT ![k] = "registered"]
    /\ UNCHANGED <<store, locked, jobs, slow, sock, queue, view>>

\* registry.List and the snapshot made of it.  It is written before the
\* queue is read, so the browser's map becomes the list before anything else.
Snapshot(k) ==
    /\ phase[k] = "registered"
    /\ ~locked
    /\ phase' = [phase EXCEPT ![k] = "listed"]
    /\ \/ sock[k] # "shut" /\ view' = [view EXCEPT ![k] = store]
       \/ sock[k] # "open" /\ UNCHANGED view
    /\ UNCHANGED <<store, locked, jobs, slow, sock, queue>>

StartLoops(k) ==
    /\ phase[k] = "listed"
    /\ phase' = [phase EXCEPT ![k] = "live"]
    /\ UNCHANGED <<store, locked, jobs, slow, sock, queue, view>>

\* updateContainer and removeContainer of the browser's store.
Applied(v, m) ==
    IF Subject(m) = Noise THEN v ELSE [v EXCEPT ![Subject(m)] = Content(m)]

Deliver(k) ==
    /\ phase[k] = "live"
    /\ sock[k] # "shut"
    /\ queue[k] # <<>>
    /\ view' = [view EXCEPT ![k] = Applied(@, Head(queue[k]))]
    /\ queue' = [queue EXCEPT ![k] = Tail(@)]
    /\ UNCHANGED <<store, locked, jobs, slow, phase, sock>>

\* Closes that have returned leave the broadcast that began them.
StillClosing(k) == slow
ReleasedBy(k) == slow \ {k}

\* The socket is gone: the close handshake ended or timed out, a write timed
\* out, or the browser left.  The client stays in the hub, queue and all.
Shut(k) ==
    /\ phase[k] # "closed"
    /\ sock[k] # "shut"
    /\ sock' = [sock EXCEPT ![k] = "shut"]
    /\ slow' = ReleasedBy(k)
    /\ UNCHANGED <<store, locked, jobs, phase, queue, view>>

\* The write loop returns: its write of a message, or its ping, has failed.
\* One that gives up during a close handshake is taken to return after it.
WriteFails(k) ==
    /\ phase[k] = "live"
    /\ sock[k] = "shut"
    /\ phase' = [phase EXCEPT ![k] = "over"]
    /\ \/ queue[k] # <<>> /\ queue' = [queue EXCEPT ![k] = Tail(@)]
       \/ UNCHANGED queue
    /\ UNCHANGED <<store, locked, jobs, slow, sock, view>>

\* The read loop has returned: its read fails with the socket.
Unregister(k) ==
    /\ phase[k] \in {"live", "over"}
    /\ sock[k] = "shut"
    /\ HubFree
    /\ phase' = [phase EXCEPT ![k] = "closed"]
    /\ sock' = [sock EXCEPT ![k] = "open"]
    /\ queue' = [queue EXCEPT ![k] = <<>>]
    /\ UNCHANGED <<store, locked, jobs, slow, view>>

----------------------------------------------------------------------------
Watcher ==
    \/ \E c \in Container : Removes(c) \/ Denies(c)
    \/ \E c \in Container, s \in Value : Updates(c, s)
    \/ \E new \in [Container -> State] : Resyncs(new)

Next ==
    \/ Watcher
    \/ Unlock
    \/ \E m \in jobs : Broadcast(m)
    \/ BroadcastOther
    \/ \E k \in Conn : Register(k) \/ Snapshot(k) \/ StartLoops(k)
    \/ \E k \in Conn : Deliver(k) \/ Shut(k) \/ WriteFails(k) \/ Unregister(k)

Spec == Init /\ [][Next]_vars

\* Every goroutine runs; a queued message's write and a close handshake end
\* within their timeout of five seconds, one way or the other.  The snapshot's
\* write has none.  Nothing obliges Docker to change a container, a browser to
\* connect or to leave.
Fairness ==
    /\ WF_vars(Unlock)
    /\ WF_vars(\E m \in jobs : Broadcast(m))
    /\ \A k \in Conn :
        /\ WF_vars(StartLoops(k))
        /\ WF_vars(Deliver(k))
        /\ WF_vars(sock[k] = "closing" /\ Shut(k))
        /\ WF_vars(Unregister(k))

FairSpec == Spec /\ Fairness

----------------------------------------------------------------------------
(* Properties.                                                             *)

Hits(k, c) == {i \in 1 .. Len(queue[k]) : Subject(queue[k][i]) = c}

\* What the browser will show of c once its queue is empty.
Settles(k, c) ==
    \/ /\ Hits(k, c) = {}
       /\ view[k][c] = store[c]
    \/ \E i \in Hits(k, c) :
          /\ \A j \in Hits(k, c) : j <= i
          /\ Content(queue[k][i]) = store[c]

Pending(c) == \E m \in jobs : Subject(m) = c

\* No update is lost between the registry and a browser whose connection is
\* open: for every container the watcher is not just announcing, the last
\* message in the queue, or the view when there is none, is the store's state.
\* Before the snapshot only the messages already queued must be current.
InSync ==
    \A k \in Conn, c \in Container :
        (Attached(k) /\ sock[k] = "open" /\ ~Pending(c)) =>
            \/ Settles(k, c)
            \/ phase[k] = "registered" /\ Hits(k, c) = {}

\* A broadcast announces the state the registry holds, never an older one.
JobsCurrent ==
    \A m \in jobs : Content(m) = store[Subject(m)]

\* A queue never exceeds its capacity whoever broadcasts, though nobody empties
\* it once the write loop has returned; and nothing reaches it before its client
\* is in the hub or after it has left.
QueueInv ==
    \A k \in Conn :
        /\ Len(queue[k]) <= QueueSize
        /\ phase[k] = "closed" => queue[k] = <<>>

\* No client leaves the hub while the watcher's broadcast waits for its Close.
WaitsForClients ==
    \A k \in slow : Attached(k) /\ sock[k] = "closing"

\* What the messages of a queue say of c, in their order.
Told(q, c) ==
    Selected([i \in 1 .. Len(q) |-> Content(q[i])],
             {i \in 1 .. Len(q) : Subject(q[i]) = c})

Linked(k) == phase[k] \in {"listed", "live"} /\ sock[k] = "open"

\* The states of c on their way to k: those in its queue, and the one still to
\* be broadcast if k is to get it.  Nothing is once its socket is gone.
OnTheWay(k, c) ==
    IF sock[k] = "shut" THEN <<>>
    ELSE Told(queue[k], c) \o (IF Linked(k) /\ Pending(c) THEN <<store[c]>> ELSE <<>>)

Feed(k) == INSTANCE Mirror WITH
    Key    <- Container,
    source <- store,
    feed   <- [c \in Container |-> OnTheWay(k, c)],
    copy   <- view[k],
    linked <- Linked(k)

\* To every browser the hub, its queues and its locks are a Mirror of the
\* registry: no state is skipped, repeated or overtaken on an open connection,
\* whoever overflows and whatever else is broadcast.
Mirrors ==
    /\ \A k \in Conn : Feed(k)!Init
    /\ [][\A k \in Conn : [Feed(k)!Next]_(Feed(k)!vars)]_vars

\* A browser that stays connected shows a state of the registry that does not
\* change, whatever else happens to the other containers and connections.
Converges ==
    \A k \in Conn, c \in Container, s \in State :
        (phase[k] = "live" /\ sock[k] = "open" /\ store[c] = s)
            ~> (view[k][c] = s \/ store[c] # s \/ sock[k] # "open")

\* A slow client holds up the hub only for a while: a broadcast that waits in
\* a Close always goes on, and the watcher with it.
WatcherGoesOn == Busy ~> ~Busy
=============================================================================
