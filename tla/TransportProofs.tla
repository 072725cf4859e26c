--------------------------- MODULE TransportProofs ---------------------------
(***************************************************************************)
(* Proofs about Transport, for any sockets and any number of messages.     *)
(***************************************************************************)
EXTENDS Transport, TLAPS

\* A message goes straight to the socket only when none waits.
DrainedWhenOpen == ws # None /\ sock[ws] = "open" => queue = <<>>

\* disconnect forgets the socket, and a dial clears its mark: the end of a
\* socket that is still named is always answered by a retry.
NamedIsWanted == ws # None => ~explicit

Inv ==
    /\ TypeOK
    /\ NoOrphan
    /\ RetryArmed
    /\ OneTimer
    /\ ShownUp
    /\ QueueIsTheRest
    /\ DrainedWhenOpen
    /\ NamedIsWanted

\* What a dial needs of the timer it is given: a timer's handle and the timer
\* itself go together.
Sound(t) == t \in [set : BOOLEAN, live : Nat] /\ t.live = IF t.set THEN 1 ELSE 0

\* scheduleReconnect leaves a sound timer set.
LEMMA ArmedSound ==
    ASSUME NEW t, Sound(t)
    PROVE  Sound(Armed(t)) /\ Armed(t).set
  BY DEF Sound, Armed

\* A timer that fires or is cleared is gone, and so is its handle.
LEMMA GoneSound ==
    ASSUME NEW t, Sound(t)
    PROVE  /\ Sound(Cleared(t))
           /\ t.live > 0 => Sound(Fired(t))
  BY DEF Sound, Cleared, Fired

\* Close leaves only the ready state of the socket it is called on, if that
\* was of use.
LEMMA ClosingEffect ==
    ASSUME NEW st \in [Socket -> {"connecting", "open", "closing", "closed"}],
           NEW s \in Socket \cup {None}
    PROVE  /\ Closing(st, s) \in [Socket -> {"connecting", "open", "closing", "closed"}]
           /\ \A x \in Socket : \/ Closing(st, s)[x] = st[x]
                                \/ /\ x = s
                                   /\ st[x] \in {"connecting", "open"}
                                   /\ Closing(st, s)[x] = "closing"
           /\ s # None => Closing(st, s)[s] \in {"closing", "closed"}
  BY TransportAssumption DEF Closing

\* A queue of which everything was handed on is empty.
LEMMA EmptyRest ==
    ASSUME NEW n \in Nat
    PROVE  <<>> = [i \in 1 .. n - n |-> n + i]
  OBVIOUS

\* The page has dialled once, or could not: the timer is set.
LEMMA InitInv == Init => Inv
<1> SUFFICES ASSUME Init PROVE Inv
  OBVIOUS
<1>1. queue = <<>> /\ sent = 0 /\ handed = 0 /\ explicit = FALSE
  BY DEF Init
<1>2. QueueIsTheRest /\ DrainedWhenOpen /\ NamedIsWanted /\ queue \in Seq(1 .. MaxSends)
  BY <1>1, EmptyRest DEF QueueIsTheRest, DrainedWhenOpen, NamedIsWanted
<1>3. TypeOK /\ NoOrphan /\ RetryArmed /\ OneTimer /\ ShownUp
  <2>1. ASSUME NEW s \in Socket,
               sock = [x \in Socket |-> IF x = s THEN "connecting" ELSE "closed"], ws = s,
               timer = [set |-> FALSE, live |-> 0], status = "connecting", refused = FALSE
        PROVE  TypeOK /\ NoOrphan /\ RetryArmed /\ OneTimer /\ ShownUp
    <3>1. TypeOK
      <4>1. sock \in [Socket -> {"connecting", "open", "closing", "closed"}]
        BY <2>1
      <4>2. timer \in [set : BOOLEAN, live : Nat] /\ explicit \in BOOLEAN /\ refused \in BOOLEAN
        BY <1>1, <2>1
      <4>3. sent \in 0 .. MaxSends /\ handed \in 0 .. sent
        BY <1>1, TransportAssumption
      <4> QED
        BY <1>2, <2>1, <4>1, <4>2, <4>3 DEF TypeOK
    <3>2. NoOrphan
      BY <2>1 DEF NoOrphan, Busy
    <3>3. RetryArmed
      BY <2>1 DEF RetryArmed, Free
    <3>4. OneTimer
      BY <2>1 DEF OneTimer
    <3>5. ShownUp
      BY <2>1 DEF ShownUp
    <3> QED
      BY <3>1, <3>2, <3>3, <3>4, <3>5
  <2>2. ASSUME sock = [s \in Socket |-> "closed"], ws = None,
               timer = [set |-> TRUE, live |-> 1], status = "disconnected", refused = TRUE
        PROVE  TypeOK /\ NoOrphan /\ RetryArmed /\ OneTimer /\ ShownUp
    <3>1. TypeOK
      <4>1. sock \in [Socket -> {"connecting", "open", "closing", "closed"}]
        BY <2>2
      <4>2. timer \in [set : BOOLEAN, live : Nat] /\ explicit \in BOOLEAN /\ refused \in BOOLEAN
        BY <1>1, <2>2
      <4>3. sent \in 0 .. MaxSends /\ handed \in 0 .. sent
        BY <1>1, TransportAssumption
      <4> QED
        BY <1>2, <2>2, <4>1, <4>2, <4>3 DEF TypeOK
    <3>2. NoOrphan
      BY <2>2 DEF NoOrphan, Busy
    <3>3. RetryArmed
      BY <2>2 DEF RetryArmed, Free
    <3>4. OneTimer
      BY <2>2 DEF OneTimer
    <3>5. ShownUp
      BY <2>2 DEF ShownUp
    <3> QED
      BY <3>1, <3>2, <3>3, <3>4, <3>5
  <2> QED
    BY <2>1, <2>2 DEF Init
<1> QED
  BY <1>2, <1>3 DEF Inv

\* connect, called with a sound timer, keeps everything, whoever calls it.
LEMMA ConnectInv ==
    ASSUME Inv, NEW t, Sound(t), Connect(t)
    PROVE  Inv'
<1> USE TransportAssumption DEF Connect
<1>1. CASE InUse
  BY <1>1 DEF Inv, TypeOK, NoOrphan, RetryArmed, OneTimer, ShownUp, QueueIsTheRest,
              DrainedWhenOpen, NamedIsWanted, NamedIsWanted, Busy, Free, Off, InUse, Sound, queueVars
<1>2. CASE ~InUse /\ Dialled(t)
  <2>1. PICK s \in Free : /\ sock' = [sock EXCEPT ![s] = "connecting"]
                          /\ ws' = s /\ timer' = t
                          /\ status' = "connecting" /\ refused' = FALSE
    BY <1>2 DEF Dialled
  <2>2. Busy = {} /\ explicit' = FALSE /\ UNCHANGED queueVars
    BY <1>2 DEF Inv, NoOrphan, InUse, Reopened
  <2> QED
    BY <1>2, <2>1, <2>2
       DEF Inv, TypeOK, NoOrphan, RetryArmed, OneTimer, ShownUp, QueueIsTheRest,
           DrainedWhenOpen, NamedIsWanted, Busy, Free, Off, Sound, queueVars
<1>3. CASE ~InUse /\ Threw(t)
  BY <1>3, ArmedSound DEF Threw, Reopened, Inv, TypeOK, NoOrphan, RetryArmed, OneTimer, ShownUp,
      QueueIsTheRest, DrainedWhenOpen, NamedIsWanted, Busy, Free, Off, Sound, queueVars
<1> QED
  BY <1>1, <1>2, <1>3

\* The handlers of one socket.
LEMMA SocketInv ==
    ASSUME Inv, NEW s \in Socket,
           Opens(s) \/ PeerCloses(s) \/ \E clean \in BOOLEAN : Ends(s, clean)
    PROVE  Inv'
<1> USE TransportAssumption
<1>1. CASE Opens(s)
  <2>1. ws = s
    BY <1>1 DEF Opens, Inv, NoOrphan, Busy
  <2>2. queue' = <<>> /\ sent' = sent /\ handed' = IF queue = <<>> THEN handed ELSE queue[Len(queue)]
    BY <1>1, <2>1 DEF Opens, Flush, Inv, TypeOK
  <2>3. handed' = sent
    <3>1. CASE queue = <<>>
      BY <2>2, <3>1 DEF Inv, QueueIsTheRest, TypeOK
    <3>2. CASE queue # <<>>
      BY <2>2, <3>2 DEF Inv, QueueIsTheRest, TypeOK
    <3> QED
      BY <3>1, <3>2
  <2>4. QueueIsTheRest' /\ DrainedWhenOpen'
    <3>1. sent \in Nat /\ handed' = sent' /\ sent' \in Nat
      BY <2>2, <2>3, TransportAssumption DEF Inv, TypeOK
    <3>2. <<>> = [i \in 1 .. sent' - handed' |-> handed' + i]
      BY <3>1, EmptyRest
    <3> QED
      BY <2>2, <3>2 DEF QueueIsTheRest, DrainedWhenOpen
  <2>5. TypeOK'
    BY <1>1, <2>2, <2>3 DEF Opens, Inv, TypeOK
  <2>6. NoOrphan' /\ RetryArmed' /\ OneTimer' /\ ShownUp' /\ NamedIsWanted'
    BY <1>1, <2>1 DEF Opens, Inv, NamedIsWanted, TypeOK, NoOrphan, RetryArmed, OneTimer, ShownUp, Busy, Free, Off
  <2> QED
    BY <2>4, <2>5, <2>6 DEF Inv
<1>2. CASE PeerCloses(s)
  BY <1>2 DEF PeerCloses, Inv, TypeOK, NoOrphan, RetryArmed, OneTimer, ShownUp, QueueIsTheRest,
              DrainedWhenOpen, NamedIsWanted, NamedIsWanted, Busy, Free, Off, queueVars
<1>3. ASSUME NEW clean \in BOOLEAN, Ends(s, clean)
      PROVE  Inv'
  <2> DEFINE ended == [sock EXCEPT ![s] = "closed"]
  <2>1. /\ ended \in [Socket -> {"connecting", "open", "closing", "closed"}]
        /\ sock' = IF clean THEN ended ELSE Closing(ended, ws)
        /\ status' = "disconnected"
        /\ timer' = Retried(timer)
        /\ UNCHANGED <<ws, explicit, refused, queueVars>>
    BY <1>3 DEF Ends, Inv, TypeOK, Reported
  <2>2. Sound(timer') /\ (~explicit => timer'.set) /\ (timer.set => timer'.set)
    BY <2>1, ArmedSound DEF Retried, Inv, TypeOK, OneTimer, Sound
  <2>3. /\ sock' \in [Socket -> {"connecting", "open", "closing", "closed"}]
        /\ \A x \in Socket : x \in Busy' => x \in Busy /\ sock'[x] = sock[x]
    <3>1. ws \in Socket \cup {None}
      BY DEF Inv, TypeOK
    <3>2. \A x \in Socket : ended[x] \in {"connecting", "open"} => ended[x] = sock[x]
      BY DEF Inv, TypeOK
    <3>3. CASE clean
      BY <2>1, <3>2, <3>3 DEF Busy
    <3>4. CASE ~clean
      <4>1. sock' = Closing(ended, ws)
        BY <2>1, <3>4
      <4> HIDE DEF ended
      <4>2. /\ sock' \in [Socket -> {"connecting", "open", "closing", "closed"}]
            /\ \A x \in Socket : sock'[x] = ended[x] \/ sock'[x] = "closing"
        BY <2>1, <3>1, <4>1, ClosingEffect
      <4> QED
        BY <3>2, <4>2 DEF Busy
    <3> QED
      BY <3>3, <3>4
  <2>4. ws \in Socket => ~explicit \/ timer.set \/ ws \notin Free
    BY DEF Inv, RetryArmed, Off
  <2> QED
    BY <2>1, <2>2, <2>3
       DEF Inv, TypeOK, NoOrphan, RetryArmed, OneTimer, ShownUp, QueueIsTheRest,
           DrainedWhenOpen, NamedIsWanted, Busy, Free, Off, Sound, queueVars
<1> QED
  BY <1>1, <1>2, <1>3

\* disconnect forgets the socket it closes and clears the timer.
LEMMA DisconnectInv == Inv /\ Disconnect => Inv'
<1> SUFFICES ASSUME Inv, Disconnect PROVE Inv'
  OBVIOUS
<1> USE TransportAssumption
<1>1. /\ explicit' = TRUE /\ ws' = None /\ timer' = Cleared(timer)
      /\ sock' = Closing(sock, ws)
      /\ UNCHANGED <<status, refused, queueVars>>
  BY DEF Disconnect
<1>2. sock \in [Socket -> {"connecting", "open", "closing", "closed"}] /\ ws \in Socket \cup {None}
  BY DEF Inv, TypeOK
<1>3. /\ sock' \in [Socket -> {"connecting", "open", "closing", "closed"}]
      /\ \A x \in Socket : \/ sock'[x] = sock[x]
                           \/ /\ x = ws
                              /\ sock[x] \in {"connecting", "open"}
                              /\ sock'[x] = "closing"
      /\ ws # None => sock'[ws] \in {"closing", "closed"}
  BY <1>1, <1>2, ClosingEffect
<1>4. Sound(timer')
  BY <1>1, GoneSound DEF Inv, TypeOK, OneTimer, Sound
<1>5. NoOrphan'
  BY <1>2, <1>3 DEF Inv, NoOrphan, Busy
<1>6. ShownUp'
  BY <1>1, <1>2, <1>3 DEF Inv, ShownUp
<1> QED
  BY <1>1, <1>3, <1>4, <1>5, <1>6
     DEF Inv, TypeOK, RetryArmed, OneTimer, QueueIsTheRest, DrainedWhenOpen, NamedIsWanted,
         Off, Sound, queueVars

\* A message appended to the rest is the rest with one more message sent.
LEMMA LongerRest ==
    ASSUME NEW n \in Nat, NEW h \in 0 .. n
    PROVE  Append([i \in 1 .. n - h |-> h + i], n + 1) = [i \in 1 .. (n + 1) - h |-> h + i]
<1> DEFINE rest == [i \in 1 .. n - h |-> h + i]
<1>1. n - h \in Nat /\ (n + 1) - h = (n - h) + 1
  OBVIOUS
<1>2. rest \in Seq(Nat) /\ Len(rest) = n - h
  BY <1>1
<1>3. \A i \in 1 .. (n - h) + 1 : Append(rest, n + 1)[i] = h + i
  BY <1>1, <1>2
<1> QED
  BY <1>1, <1>2, <1>3

\* A message is handed to an open socket only when none waits.
LEMMA SendInv == Inv /\ Send => Inv'
<1> SUFFICES ASSUME Inv, Send PROVE Inv'
  OBVIOUS
<1>1. /\ sent < MaxSends /\ sent' = sent + 1
      /\ UNCHANGED <<sock, ws, explicit, timer, status, refused>>
      /\ sent \in Nat /\ sent' \in 0 .. MaxSends /\ handed \in 0 .. sent
      /\ queue \in Seq(1 .. MaxSends)
  BY TransportAssumption DEF Send, Inv, TypeOK
<1>2. CASE ws # None /\ sock[ws] = "open"
  <2>1. queue' = <<>> /\ handed' = sent'
    BY <1>2 DEF Send, Inv, DrainedWhenOpen
  <2>2. <<>> = [i \in 1 .. sent' - handed' |-> handed' + i]
    BY <1>1, <2>1, EmptyRest
  <2> QED
    BY <1>1, <2>1, <2>2 DEF Inv, TypeOK, NoOrphan, RetryArmed, OneTimer, ShownUp,
       QueueIsTheRest, DrainedWhenOpen, NamedIsWanted, Busy, Free, Off
<1>3. CASE ~(ws # None /\ sock[ws] = "open")
  <2>1. queue' = Append(queue, sent + 1) /\ handed' = handed
    BY <1>1, <1>3 DEF Send
  <2>2. queue' = [i \in 1 .. sent' - handed' |-> handed' + i]
    BY <1>1, <2>1, LongerRest DEF Inv, QueueIsTheRest
  <2>3. queue' \in Seq(1 .. MaxSends)
    BY <1>1, <2>1
  <2> QED
    BY <1>1, <1>3, <2>1, <2>2, <2>3 DEF Inv, TypeOK, NoOrphan, RetryArmed, OneTimer, ShownUp,
       QueueIsTheRest, DrainedWhenOpen, NamedIsWanted, Busy, Free, Off
<1> QED
  BY <1>2, <1>3

\* Every step keeps the invariant: a dial by its caller's timer, the rest by
\* the lemma of its handler.
LEMMA NextInv == Inv /\ [Next]_vars => Inv'
<1> SUFFICES ASSUME Inv, [Next]_vars PROVE Inv'
  OBVIOUS
<1>1. Sound(timer)
  BY DEF Inv, TypeOK, OneTimer, Sound
<1>2. CASE TimerFires
  <2>1. Sound(Fired(timer)) /\ Connect(Fired(timer))
    BY <1>1, <1>2, GoneSound DEF TimerFires
  <2> QED
    BY <2>1, ConnectInv
<1>3. CASE BecomesVisible \/ RetryNow
  <2>1. Connect(timer)
    BY <1>3 DEF BecomesVisible, RetryNow
  <2> QED
    BY <1>1, <2>1, ConnectInv
<1>4. ASSUME NEW s \in Socket,
             Opens(s) \/ PeerCloses(s) \/ \E clean \in BOOLEAN : Ends(s, clean)
      PROVE  Inv'
  BY <1>4, SocketInv
<1>5. CASE Disconnect
  BY <1>5, DisconnectInv
<1>6. CASE Send
  BY <1>6, SendInv
<1>7. CASE UNCHANGED vars
  BY <1>7 DEF vars, queueVars, Inv, TypeOK, NoOrphan, RetryArmed, OneTimer, ShownUp,
              QueueIsTheRest, DrainedWhenOpen, NamedIsWanted, Busy, Free, Off
<1> QED
  BY <1>2, <1>3, <1>4, <1>5, <1>6, <1>7 DEF Next

\* The invariant holds throughout.
THEOREM Inductive == Spec => []Inv
  BY InitInv, NextInv, PTL DEF Spec

\* The state of the transport and of its sockets keeps its types.
THEOREM TypeCorrect == Spec => []TypeOK
<1>1. Inv => TypeOK
  BY DEF Inv
<1> QED BY <1>1, Inductive, PTL

\* The browser never holds two connections, whatever the order in which
\* handlers, timer and page act (transport.ts, connect).
THEOREM OneConnection == Spec => []NoOrphan
<1>1. Inv => NoOrphan
  BY DEF Inv
<1> QED
  BY <1>1, Inductive, PTL

\* A page that did not disconnect has a retry pending or a socket whose end
\* will cause one (transport.ts, onclose and scheduleReconnect).
THEOREM AlwaysRetried == Spec => []RetryArmed
<1>1. Inv => RetryArmed
  BY DEF Inv
<1> QED
  BY <1>1, Inductive, PTL

\* The banner is never hidden while there is no connection that could still
\* report its loss (transport.ts, notifyStatus; main.ts, the banner).
THEOREM BannerNotHidden == Spec => []ShownUp
<1>1. Inv => ShownUp
  BY DEF Inv
<1> QED
  BY <1>1, Inductive, PTL

\* The handle and the timer it stands for come and go together
\* (transport.ts, scheduleReconnect and disconnect).
THEOREM NoTimerLeaks == Spec => []OneTimer
<1>1. Inv => OneTimer
  BY DEF Inv
<1> QED
  BY <1>1, Inductive, PTL

\* Messages leave in order and none is lost in the queue, for any number of
\* messages and sockets (transport.ts, send and flushQueue).
THEOREM SentInOrder == Spec => []QueueIsTheRest
<1>1. Inv => QueueIsTheRest
  BY DEF Inv
<1> QED
  BY <1>1, Inductive, PTL
=============================================================================
