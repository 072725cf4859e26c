------------------------------ MODULE LogStream ------------------------------
(***************************************************************************)
(* Following the log of one container: the streamer                        *)
(* (internal/logs/streamer.go), its ring buffer, the hub's log             *)
(* subscriptions (internal/hub/hub.go) and the read loop that serves a     *)
(* client's subscribe and unsubscribe messages (internal/httpapi/ws.go).   *)
(* The streamer's maps have one entry per container, and nothing of one    *)
(* container's log touches another's, so the model follows a single one.   *)
(*                                                                         *)
(* A subscription takes three steps under three locks: the hub's, the      *)
(* streamer's and the ring's.  A stream pushes a line into the ring first  *)
(* and broadcasts it afterwards.  A connection slot that has left the hub  *)
(* stands for the next client.  LiveView has the hub's closing of slow     *)
(* clients in detail; here the connection is gone at once.                 *)
(*                                                                         *)
(* since and got are auxiliary variables: the first line a client was      *)
(* promised, and the lines it has received since it subscribed.            *)
(***************************************************************************)
EXTENDS LogRing

CONSTANTS
    Stream,       \* slots for streamLogs goroutines
    Conn,         \* WebSocket connections
    None,         \* no stream
    OldLines,     \* how many old lines a new stream asks Docker for (200)
    QueueSize,    \* capacity of Client.Send (256)
    MaxLines,     \* bound: lines the container writes
    MaxPushes,    \* bound: lines pushed into the ring
    MaxCount      \* bound: the streamer's subscriber count, and its timers

ASSUME LogStreamAssumption ==
    /\ Text = 1 .. MaxLines          \* the container's lines, by number
    /\ None \notin Stream
    /\ IsFiniteSet(Conn)
    /\ OldLines \in Nat /\ QueueSize \in Nat \ {0}
    /\ MaxLines \in Nat /\ MaxPushes \in Nat /\ MaxCount \in Nat \ {0}

VARIABLES
    written,      \* lines the container has written
    ring,         \* Streamer.buffers[id]
    subscribers,  \* Streamer.subscribers[id]
    registered,   \* whose context Streamer.cancels[id] cancels
    timers,       \* Unsubscribe goroutines in their sleep of two seconds
    spc, pos, pushed, cancelled,        \* streams
    open, subscribed, rpc, todo, queue, \* connections
    since, got

streamVars == <<spc, pos, pushed, cancelled>>
connVars   == <<open, subscribed, rpc, todo, queue, since, got>>
vars == <<written, ring, subscribers, registered, timers, streamVars, connVars>>

TypeOK ==
    /\ written \in 0 .. MaxLines
    /\ ring \in RingBuffer
    /\ subscribers \in 0 .. MaxCount
    /\ registered \in Stream \cup {None}
    /\ timers \in 0 .. MaxCount
    /\ spc \in [Stream -> {"idle", "opening", "reading", "pushed"}]
    /\ pos \in [Stream -> 0 .. MaxLines]
    /\ pushed \in [Stream -> 0 .. MaxPushes]
    /\ cancelled \in [Stream -> BOOLEAN]
    /\ open \in [Conn -> BOOLEAN]
    /\ subscribed \in [Conn -> BOOLEAN]
    /\ rpc \in [Conn -> {"idle", "streamer", "ring", "replay", "unsubscribe"}]
    /\ todo \in [Conn -> Seq(1 .. MaxPushes)]
    /\ queue \in [Conn -> Seq(1 .. MaxPushes)]
    /\ since \in [Conn -> 0 .. MaxPushes + 1]
    /\ got \in [Conn -> SUBSET (1 .. MaxPushes)]

Init ==
    /\ written \in 0 .. MaxLines
    /\ ring = NewRingBuffer
    /\ subscribers = 0
    /\ registered = None
    /\ timers = 0
    /\ spc = [s \in Stream |-> "idle"]
    /\ pos = [s \in Stream |-> 0]
    /\ pushed = [s \in Stream |-> 0]
    /\ cancelled = [s \in Stream |-> FALSE]
    /\ open = [k \in Conn |-> TRUE]
    /\ subscribed = [k \in Conn |-> FALSE]
    /\ rpc = [k \in Conn |-> "idle"]
    /\ todo = [k \in Conn |-> <<>>]
    /\ queue = [k \in Conn |-> <<>>]
    /\ since = [k \in Conn |-> 0]
    /\ got = [k \in Conn |-> {}]

\* Nothing is written to a connection any more, and nothing is promised.
Cut(gone) ==
    /\ open' = [k \in Conn |-> open[k] /\ k \notin gone]
    /\ since' = [k \in Conn |-> IF k \in gone THEN 0 ELSE since[k]]
    /\ got' = [k \in Conn |-> IF k \in gone THEN {} ELSE got[k]]

Goto(k, label) == rpc' = [rpc EXCEPT ![k] = label]

At(label) == Cardinality({k \in Conn : rpc[k] = label})

----------------------------------------------------------------------------
(* The container writes.                                                   *)

ContainerWrites ==
    /\ written < MaxLines
    /\ written' = written + 1
    /\ UNCHANGED <<ring, subscribers, registered, timers, streamVars, connVars>>

----------------------------------------------------------------------------
(* subscribe_logs in the read loop.                                        *)

SubscribeHub(k) ==
    /\ rpc[k] = "idle"
    /\ open[k]
    /\ subscribers + At("streamer") < MaxCount
    /\ subscribed' = [subscribed EXCEPT ![k] = TRUE]
    /\ Goto(k, "streamer")
    /\ UNCHANGED <<written, ring, subscribers, registered, timers, streamVars,
                   open, todo, queue, since, got>>

\* Streamer.Subscribe: the first subscriber starts a stream.
Idle == {s \in Stream : spc[s] = "idle"}

StartStream(s) ==
    /\ spc' = [spc EXCEPT ![s] = "opening"]
    /\ registered' = s
    /\ UNCHANGED <<pos, pushed, cancelled>>

SubscribeStreamer(k) ==
    /\ rpc[k] = "streamer"
    /\ subscribers' = subscribers + 1
    /\ \/ subscribers = 0 /\ Idle # {} /\ StartStream(CHOOSE s \in Idle : TRUE)
       \/ subscribers > 0 /\ UNCHANGED <<registered, streamVars>>
    /\ Goto(k, "ring")
    /\ UNCHANGED <<written, ring, timers, open, subscribed, todo, queue, since, got>>

\* The lines to replay, by number: a tail, or those after one the client names.
Replays ==
    {ReadTail(ring, n) : n \in 1 .. Capacity}
        \cup {ReadSinceSeq(ring, n) : n \in 1 .. MaxPushes}

Numbers(lines) == [i \in DOMAIN lines |-> lines[i].seq]

\* A client that follows the log already was promised more than this.
Promise(k, lines) ==
    IF since[k] # 0 THEN since[k]
    ELSE IF lines = <<>> THEN ring.seq + 1 ELSE Head(lines).seq

ReadRing(k) ==
    /\ rpc[k] = "ring"
    /\ \E lines \in Replays :
          /\ todo' = [todo EXCEPT ![k] = Numbers(lines)]
          /\ since' = IF open[k] THEN [since EXCEPT ![k] = Promise(k, lines)] ELSE since
    /\ Goto(k, "replay")
    /\ UNCHANGED <<written, ring, subscribers, registered, timers, streamVars,
                   open, subscribed, queue, got>>

\* The read loop writes the old lines itself, past the queue.  Errors of the
\* writes are ignored.
Replay(k) ==
    /\ rpc[k] = "replay"
    /\ IF todo[k] = <<>> THEN Goto(k, "idle") /\ UNCHANGED <<todo, got>>
       ELSE /\ todo' = [todo EXCEPT ![k] = Tail(@)]
            /\ got' = IF open[k] THEN [got EXCEPT ![k] = @ \cup {Head(todo[k])}] ELSE got
            /\ UNCHANGED rpc
    /\ UNCHANGED <<written, ring, subscribers, registered, timers, streamVars,
                   open, subscribed, queue, since>>

----------------------------------------------------------------------------
(* unsubscribe_logs.  Nothing checks that the client was subscribed.       *)

UnsubscribeHub(k) ==
    /\ rpc[k] = "idle"
    /\ open[k]
    /\ timers + At("unsubscribe") < MaxCount
    /\ subscribed' = [subscribed EXCEPT ![k] = FALSE]
    /\ since' = [since EXCEPT ![k] = 0]
    /\ got' = [got EXCEPT ![k] = {}]
    /\ Goto(k, "unsubscribe")
    /\ UNCHANGED <<written, ring, subscribers, registered, timers, streamVars,
                   open, todo, queue>>

LastLeavesOffByOne(n) == n = 1
LastLeaves(n) == n = 0

UnsubscribeStreamer(k) ==
    /\ rpc[k] = "unsubscribe"
    /\ IF subscribers > 0
       THEN /\ subscribers' = subscribers - 1
            /\ timers' = IF LastLeaves(subscribers - 1) THEN timers + 1 ELSE timers
       ELSE UNCHANGED <<subscribers, timers>>
    /\ Goto(k, "idle")
    /\ UNCHANGED <<written, ring, registered, streamVars, open, subscribed, todo, queue,
                   since, got>>

\* The grace period is over: cancel the stream if nobody has come back.  To
\* one that has ended by itself that makes no difference.
UnusedUnchecked == TRUE
Unused == subscribers = 0

GraceEnds ==
    /\ timers > 0
    /\ timers' = timers - 1
    /\ IF Unused /\ registered # None
       THEN /\ cancelled' = [cancelled EXCEPT ![registered] = registered \notin Idle]
            /\ registered' = None
       ELSE UNCHANGED <<cancelled, registered>>
    /\ UNCHANGED <<written, ring, subscribers, spc, pos, pushed, connVars>>

----------------------------------------------------------------------------
(* streamLogs.                                                             *)

\* Docker answers with the last lines of the log, or an error.
OpenStream(s) ==
    /\ spc[s] = "opening"
    /\ \/ /\ spc' = [spc EXCEPT ![s] = "reading"]
          /\ pos' = [pos EXCEPT ![s] = IF written > OldLines THEN written - OldLines ELSE 0]
          /\ UNCHANGED cancelled
       \/ /\ spc' = [spc EXCEPT ![s] = "idle"]
          /\ cancelled' = [cancelled EXCEPT ![s] = FALSE]
          /\ UNCHANGED pos
    /\ UNCHANGED <<written, ring, subscribers, registered, timers, pushed, connVars>>

\* The lines of a frame already read are pushed even when the context is done.
PushLine(s) ==
    /\ spc[s] = "reading"
    /\ pos[s] < written
    /\ ring.seq < MaxPushes
    /\ ring' = Push(ring, pos[s] + 1)
    /\ pushed' = [pushed EXCEPT ![s] = ring.seq + 1]
    /\ pos' = [pos EXCEPT ![s] = @ + 1]
    /\ spc' = [spc EXCEPT ![s] = "pushed"]
    /\ UNCHANGED <<written, subscribers, registered, timers, cancelled, connVars>>

\* BroadcastLog: every client that follows the log gets the line, one whose
\* queue is full is closed.  What is queued for a connection that has ended,
\* until its client leaves, nobody reads, and it is left out.
ListensAfterReplay(k) == subscribed[k] /\ rpc[k] \notin {"streamer", "ring", "replay"}
Listens(k) == subscribed[k]

Full(k) == Len(queue[k]) >= QueueSize

ClosedDropsLine(k) == FALSE
Closed(k) == Listens(k) /\ Full(k)

BroadcastLine(s) ==
    /\ spc[s] = "pushed"
    /\ queue' = [k \in Conn |-> IF ~open[k] \/ Closed(k) THEN <<>>
                                ELSE IF Listens(k) /\ ~Full(k)
                                THEN Append(queue[k], pushed[s]) ELSE queue[k]]
    /\ Cut({k \in Conn : Closed(k)})
    /\ spc' = [spc EXCEPT ![s] = "reading"]
    /\ pushed' = [pushed EXCEPT ![s] = 0]
    /\ UNCHANGED <<written, ring, subscribers, registered, timers, pos, cancelled,
                   subscribed, rpc, todo>>

\* The stream ends: its context is done, the container stopped, or an error.
EndStream(s) ==
    /\ spc[s] = "reading"
    /\ spc' = [spc EXCEPT ![s] = "idle"]
    /\ pos' = [pos EXCEPT ![s] = 0]
    /\ cancelled' = [cancelled EXCEPT ![s] = FALSE]
    /\ UNCHANGED <<written, ring, subscribers, registered, timers, pushed, connVars>>

----------------------------------------------------------------------------
(* The connection.                                                         *)

Deliver(k) ==
    /\ open[k]
    /\ queue[k] # <<>>
    /\ queue' = [queue EXCEPT ![k] = Tail(@)]
    /\ got' = [got EXCEPT ![k] = IF subscribed[k] THEN @ \cup {Head(queue[k])} ELSE @]
    /\ UNCHANGED <<written, ring, subscribers, registered, timers, streamVars,
                   open, subscribed, rpc, todo, since>>

Disconnect(k) ==
    /\ open[k]
    /\ Cut({k})
    /\ queue' = [queue EXCEPT ![k] = <<>>]
    /\ UNCHANGED <<written, ring, subscribers, registered, timers, streamVars,
                   subscribed, rpc, todo>>

\* The read loop ends and the client leaves the hub.  Its subscriptions at the
\* streamer stay counted.
Leave(k) ==
    /\ ~open[k]
    /\ rpc[k] = "idle"
    /\ open' = [open EXCEPT ![k] = TRUE]
    /\ subscribed' = [subscribed EXCEPT ![k] = FALSE]
    /\ UNCHANGED <<written, ring, subscribers, registered, timers, streamVars,
                   rpc, todo, queue, since, got>>

----------------------------------------------------------------------------
StreamStep(s) == OpenStream(s) \/ PushLine(s) \/ BroadcastLine(s)

ReadLoop(k) ==
    \/ SubscribeStreamer(k)
    \/ ReadRing(k)
    \/ Replay(k)
    \/ UnsubscribeStreamer(k)
    \/ Leave(k)

Next ==
    \/ ContainerWrites
    \/ \E k \in Conn : SubscribeHub(k) \/ UnsubscribeHub(k) \/ ReadLoop(k)
    \/ \E k \in Conn : Deliver(k) \/ Disconnect(k)
    \/ GraceEnds
    \/ \E s \in Stream : StreamStep(s) \/ EndStream(s)

Spec == Init /\ [][Next]_vars

\* Goroutines run, sleeps end, a write ends within its timeout; nothing
\* obliges a container to write or a client to send a message.
Fairness ==
    /\ WF_vars(GraceEnds)
    /\ \A s \in Stream :
        /\ WF_vars(StreamStep(s))
        /\ WF_vars(cancelled[s] /\ EndStream(s))
    /\ \A k \in Conn : WF_vars(ReadLoop(k)) /\ WF_vars(Deliver(k))

FairSpec == Spec /\ Fairness

----------------------------------------------------------------------------
(* Properties.                                                             *)

\* However streams and readers interleave, the ring holds the lines pushed
\* last, each in the slot and under the number the readers count on.
RingInv == WellFormed(ring)

\* While the streamer counts a subscriber, the stream its cancel function
\* belongs to has not been cancelled: no grace period that began before a
\* subscription ends its stream.
SubscribedIsStreamed ==
    subscribers > 0 => registered # None /\ ~cancelled[registered]

InFlight(n) == \E s \in Stream : spc[s] = "pushed" /\ pushed[s] = n

Contains(q, n) == \E i \in DOMAIN q : q[i] = n

\* A client that follows the log misses no line between the first one it was
\* promised and the last one in the ring: each has reached it, is queued, is
\* being replayed, or is just being broadcast.
NoGap ==
    \A k \in Conn : (open[k] /\ subscribed[k] /\ since[k] # 0) =>
        \A n \in since[k] .. ring.seq :
            n \in got[k] \/ Contains(todo[k], n) \/ Contains(queue[k], n) \/ InFlight(n)

\* A line a client was promised reaches it, unless it leaves or stops following.
Delivered ==
    \A k \in Conn, n \in 1 .. MaxPushes :
        (open[k] /\ subscribed[k] /\ since[k] \in 1 .. n /\ n <= ring.seq)
            ~> (n \in got[k] \/ ~open[k] \/ ~subscribed[k])

\* A stream nobody subscribes to any more is let go of after the grace period.
StreamReleased ==
    subscribers = 0 ~> (registered = None \/ subscribers > 0)
=============================================================================
