------------------------------ MODULE Transport ------------------------------
(***************************************************************************)
(* The browser's connection to the server (web/src/api/transport.ts) and   *)
(* what the page shows of it (web/src/main.ts, web/src/state/store.ts).    *)
(*                                                                         *)
(* Four callers may dial: the page when it starts, the reconnect timer,    *)
(* the handler of visibilitychange and the banner's "Retry Now" button.    *)
(* JavaScript runs each callback to its end, so each is one action; but a  *)
(* socket that was given up still reports its end later, to the same       *)
(* handlers, which act on whatever this.ws is by then.                     *)
(*                                                                         *)
(* Left out: what a message says (LiveView.tla), the number of the attempt *)
(* and the length of the delay, which nothing but the display and the      *)
(* timer uses.  The page itself never calls send or disconnect; the class  *)
(* offers them, and they are modelled as its callers may use them.         *)
(*                                                                         *)
(* sent, handed and refused are auxiliary variables: the messages given to *)
(* send, the last of them given to a socket, and whether the browser threw *)
(* an exception at the last attempt to dial.                               *)
(***************************************************************************)
EXTENDS Integers, Sequences

CONSTANTS
    Socket,     \* WebSocket objects; one that has closed may be taken again
    None,       \* this.ws is null
    MaxSends    \* bound: messages given to send

ASSUME TransportAssumption ==
    /\ None \notin Socket
    /\ Socket # {}
    /\ MaxSends \in Nat

VARIABLES
    sock,       \* readyState of each socket
    ws,         \* this.ws
    explicit,   \* this.isExplicitClose
    timer,      \* this.reconnectTimer, and the browser's timers still to fire
    queue,      \* this.queue, the messages numbered as they were sent
    status,     \* store.connectionStatus, from which the banner is drawn
    sent, handed, refused

queueVars == <<queue, sent, handed>>
vars == <<sock, ws, explicit, timer, status, refused, queueVars>>

TypeOK ==
    /\ sock \in [Socket -> {"connecting", "open", "closing", "closed"}]
    /\ ws \in Socket \cup {None}
    /\ explicit \in BOOLEAN
    /\ timer \in [set : BOOLEAN, live : Nat]
    /\ queue \in Seq(1 .. MaxSends)
    /\ status \in {"connected", "connecting", "disconnected"}
    /\ sent \in 0 .. MaxSends
    /\ handed \in 0 .. sent
    /\ refused \in BOOLEAN

----------------------------------------------------------------------------
(* The parts the handlers share.                                           *)

Busy == {s \in Socket : sock[s] \in {"connecting", "open"}}
Free == {s \in Socket : sock[s] = "closed"}

\* scheduleReconnect on the timer t.  A definition named for its fault is a
\* faulty variant of the one after it.
ArmedAgain(t) == [set |-> TRUE, live |-> t.live + 1]
Armed(t) == IF t.set THEN t ELSE [set |-> TRUE, live |-> t.live + 1]
FiredKeepsHandle(t) == [set |-> t.set, live |-> t.live - 1]
Fired(t) == [set |-> FALSE, live |-> t.live - 1]

\* connect() returns without effect while the current socket is of use.
InUseOpen == ws # None /\ sock[ws] = "open"
InUse == ws \in Busy

\* The rest of connect, with the timer t: the constructor returns a socket or
\* throws, and then this.ws is not assigned.
Dialled(t) ==
    \E s \in Free :
        /\ sock' = [sock EXCEPT ![s] = "connecting"]
        /\ ws' = s
        /\ timer' = t
        /\ status' = "connecting"
        /\ refused' = FALSE

Threw(t) ==
    /\ timer' = Armed(t)
    /\ status' = "disconnected"
    /\ refused' = TRUE
    /\ UNCHANGED <<sock, ws>>

ReopenedNever == explicit
Reopened == FALSE

Connect(t) ==
    /\ IF InUse THEN /\ timer' = t
                     /\ UNCHANGED <<sock, ws, explicit, status, refused>>
       ELSE /\ explicit' = Reopened
            /\ Dialled(t) \/ Threw(t)
    /\ UNCHANGED queueVars

\* close() on the socket s, in the ready states st.
Closing(st, s) == IF s # None /\ st[s] \in {"connecting", "open"}
                  THEN [st EXCEPT ![s] = "closing"] ELSE st

----------------------------------------------------------------------------
(* Who dials.                                                              *)

\* initApp has just called connect: the constructor returned or it threw.
Init ==
    /\ explicit = FALSE
    /\ queue = <<>> /\ sent = 0 /\ handed = 0
    /\ \/ /\ \E s \in Socket :
                /\ sock = [x \in Socket |-> IF x = s THEN "connecting" ELSE "closed"]
                /\ ws = s
          /\ timer = [set |-> FALSE, live |-> 0]
          /\ status = "connecting"
          /\ refused = FALSE
       \/ /\ sock = [s \in Socket |-> "closed"]
          /\ ws = None
          /\ timer = [set |-> TRUE, live |-> 1]
          /\ status = "disconnected"
          /\ refused = TRUE

TimerFires == timer.live > 0 /\ Connect(Fired(timer))

\* visibilitychange while the page is visible.
BecomesVisible == ws \in Free \cup {None} /\ Connect(timer)

\* The banner is there, and with it the button, unless status is "connected".
RetryNow == status # "connected" /\ Connect(timer)

----------------------------------------------------------------------------
(* What the browser reports of a socket.                                   *)

\* flushQueue, once the ready states are st.
FlushNever(st) == UNCHANGED queueVars
Flush(st) ==
    IF ws # None /\ st[ws] = "open"
    THEN /\ queue' = <<>>
         /\ handed' = IF queue = <<>> THEN handed ELSE queue[Len(queue)]
         /\ UNCHANGED sent
    ELSE UNCHANGED queueVars

\* onopen.
Opens(s) ==
    /\ sock[s] = "connecting"
    /\ sock' = [sock EXCEPT ![s] = "open"]
    /\ status' = "connected"
    /\ Flush(sock')
    /\ UNCHANGED <<ws, explicit, timer, refused>>

\* The server's close frame has come; onclose follows later.
PeerCloses(s) ==
    /\ sock[s] = "open"
    /\ sock' = [sock EXCEPT ![s] = "closing"]
    /\ UNCHANGED <<ws, explicit, timer, status, refused, queueVars>>

\* onclose: the status in any case, the retry unless disconnect was called.
ReportedIfLost == IF explicit THEN status ELSE "disconnected"
Reported == "disconnected"
Retried(t) == IF explicit THEN t ELSE Armed(t)

\* The end of a socket: onclose, and when the end is unclean onerror before
\* it, in the same task, which closes this.ws, whichever socket that is by now.
\* A dial that fails ends uncleanly.
Ends(s, clean) ==
    /\ sock[s] # "closed"
    /\ clean => sock[s] # "connecting"
    /\ LET ended == [sock EXCEPT ![s] = "closed"]
       IN  sock' = IF clean THEN ended ELSE Closing(ended, ws)
    /\ status' = Reported
    /\ timer' = Retried(timer)
    /\ UNCHANGED <<ws, explicit, refused, queueVars>>

----------------------------------------------------------------------------
(* What the page asks for.                                                 *)

Cleared(t) == IF t.set THEN Fired(t) ELSE t

Disconnect ==
    /\ explicit' = TRUE
    /\ timer' = Cleared(timer)
    /\ sock' = Closing(sock, ws)
    /\ ws' = None
    /\ UNCHANGED <<status, refused, queueVars>>

Send ==
    /\ sent < MaxSends
    /\ sent' = sent + 1
    /\ IF ws # None /\ sock[ws] = "open"
       THEN handed' = sent' /\ UNCHANGED queue
       ELSE queue' = Append(queue, sent') /\ UNCHANGED handed
    /\ UNCHANGED <<sock, ws, explicit, timer, status, refused>>

Next ==
    \/ TimerFires \/ BecomesVisible \/ RetryNow
    \/ \E s \in Socket : Opens(s) \/ PeerCloses(s) \/ \E clean \in BOOLEAN : Ends(s, clean)
    \/ Disconnect
    \/ Send

Spec == Init /\ [][Next]_vars

\* Timers fire, and a socket that is closing reports its end: the browser
\* gives up a closing handshake that gets no answer.  No dial need succeed.
Fairness ==
    /\ WF_vars(TimerFires)
    /\ \A s \in Socket :
         WF_vars(sock[s] = "closing" /\ \E clean \in BOOLEAN : Ends(s, clean))

FairSpec == Spec /\ Fairness

----------------------------------------------------------------------------
(* Properties.                                                             *)

\* Whoever dials, the browser never holds two connections: a socket that is
\* opening or open is the one this.ws names, so that no other delivers
\* messages or has to be closed.
NoOrphan == \A s \in Busy : s = ws

\* The page has disconnected, and has not dialled since.
Off == ws = None /\ explicit

\* However closes of old sockets, retries and visits interleave, a page that
\* did not disconnect will dial again: the timer is set, or the end of the
\* current socket is still to come and will set it.
RetryArmed == Off \/ timer.set \/ ws \in Socket \ Free

\* reconnectTimer stands for the only timer the browser still has to fire: no
\* storm of dials after several closes, none left after disconnect.
OneTimer == timer.live = IF timer.set THEN 1 ELSE 0

\* The banner is not hidden by mistake: "connected" is shown only while the
\* current socket is open or has yet to report its end, or after disconnect
\* until the socket it closed has.
ShownUp ==
    status = "connected" => \/ ws # None /\ sock[ws] \in {"open", "closing"}
                            \/ ws = None /\ \E s \in Socket : sock[s] = "closing"

\* Messages leave in the order they were sent, none is lost in the queue and
\* none overtakes one that waited there through closes and new sockets.
QueueIsTheRest == queue = [i \in 1 .. sent - handed |-> handed + i]

\* A page that does not disconnect, in a browser that lets it dial, has again
\* and again a socket that opens or is open, however many of them fail.
KeepsTrying == []<>(Off \/ refused \/ InUse)
=============================================================================
