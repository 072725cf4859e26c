------------------------------ MODULE Supervisor ------------------------------
(***************************************************************************)
(* The auto-restart supervisor (internal/supervisor/supervisor.go) with    *)
(* everything that calls it: the event watcher, which hands it the die     *)
(* events with a non-zero exit code (cmd/dock-pulse/main.go), its own      *)
(* restart goroutines, and the Start, Stop and Restart handlers of the     *)
(* HTTP API (internal/httpapi/handlers.go).                                *)
(*                                                                         *)
(* BackoffManager and the map pendingRestarts have a mutex each, held only *)
(* within one method; HandleContainerExit and MarkIntentionalStop take     *)
(* them one after the other.  A step is therefore one critical section or  *)
(* one engine call, and any other process may run between two of them.     *)
(* Supervisor events are broadcasts that change nothing here; the one that *)
(* reports a refused restart may wait for the hub and keeps a step.        *)
(*                                                                         *)
(* The Docker daemon is external: docker, died and the engine calls are    *)
(* modelled from how the code uses them.                                   *)
(***************************************************************************)
EXTENDS Backoff, FiniteSets

CONSTANTS
    Container,      \* container IDs
    Goroutine,      \* slots for restart goroutines that exist at the same time
    Request,        \* HTTP mutations in progress at the same time
    Watcher,        \* the goroutine of events.Watcher.Run
    None,           \* "no entry" in pendingRestarts, "no container"
    Enabled,        \* Supervisor.enabled
    OptOut,         \* containers labelled dock-pulse.autorestart=off
    MaxBacklog,     \* bound: unhandled die events of one container
    MaxLeftover     \* bound: live restart goroutines of a container when its
                    \* age reaches StabilityThreshold

ASSUME SupervisorAssumption ==
    /\ None \notin Container \cup Goroutine
    /\ Watcher \notin Goroutine \cup Request
    /\ Goroutine \cap Request = {}
    /\ IsFiniteSet(Goroutine)
    /\ Enabled \in BOOLEAN
    /\ OptOut \subseteq Container
    /\ MaxBacklog \in Nat \ {0}
    /\ MaxLeftover \in Nat

VARIABLES
    st,         \* BackoffManager.states
    pending,    \* Supervisor.pendingRestarts: whose context the entry cancels
    pc,         \* where each process is
    on,         \* the container it works on
    delay,      \* delay computed by NextDelay, then what is left of time.After
    cancelled,  \* rCtx of each goroutine is done
    docker,     \* status of each container in the daemon
    died        \* die events with non-zero exit code not yet handled

vars == <<st, pending, pc, on, delay, cancelled, docker, died>>

Handler == {Watcher} \cup Goroutine
Process == Handler \cup Request

HandlerPC   == {"check", "budget", "refused", "unschedule", "register"}
GoroutinePC == {"waiting", "calling", "inflight", "starting", "done"}
RequestPC   == {"cancel", "stop", "start", "restart"}

TypeOK ==
    /\ st \in [Container -> BackoffState]
    /\ pending \in [Container -> Goroutine \cup {None}]
    /\ pc \in [Process -> {"idle"} \cup HandlerPC \cup GoroutinePC \cup RequestPC]
    /\ on \in [Process -> Container \cup {None}]
    /\ delay \in [Handler -> 0 .. MaxInterval - 1]
    /\ cancelled \in [Goroutine -> BOOLEAN]
    /\ docker \in [Container -> {"running", "exited", "removed"}]
    /\ died \in [Container -> 0 .. MaxBacklog]
    /\ \A p \in Process : on[p] = None <=> pc[p] = "idle"

Init ==
    /\ st = [c \in Container |-> Fresh]
    /\ pending = [c \in Container |-> None]
    /\ pc = [p \in Process |-> "idle"]
    /\ on = [p \in Process |-> None]
    /\ delay = [p \in Handler |-> 0]
    /\ cancelled = [g \in Goroutine |-> FALSE]
    /\ docker \in [Container -> {"running", "exited"}]
    /\ died = [c \in Container |-> 0]

Live(c) == {g \in Goroutine : on[g] = c}

Goto(p, label) == pc' = [pc EXCEPT ![p] = label]

----------------------------------------------------------------------------
(* HandleContainerExit, run by the watcher or by a restart goroutine.      *)

\* A return from HandleContainerExit: the watcher goes back to its loop, a
\* goroutine to its deferred delete.
Return(p) ==
    /\ pc' = [pc EXCEPT ![p] = IF p = Watcher THEN "idle" ELSE "done"]
    /\ on' = [on EXCEPT ![p] = IF p = Watcher THEN None ELSE @]

\* The native-policy test looks for a policy name in the container's Status,
\* which holds the daemon's status word.
NamesNativePolicy(status) == status \in {"always", "unless-stopped"}

IgnoredWhilePending(c) ==
    ~Enabled \/ c \in OptOut \/ st[c].intentional \/ pending[c] # None
Ignored(c) ==
    \/ ~Enabled
    \/ c \in OptOut
    \/ NamesNativePolicy(docker[c])
    \/ st[c].intentional

Check(p) ==
    /\ pc[p] = "check"
    /\ \/ Ignored(on[p]) /\ Return(p)
       \/ ~Ignored(on[p]) /\ Goto(p, "budget") /\ UNCHANGED on
    /\ UNCHANGED <<st, pending, delay, cancelled, docker, died>>

Refuse(p) ==
    /\ Goto(p, "refused")
    /\ UNCHANGED delay

Grant(p, s) ==
    /\ Goto(p, "unschedule")
    /\ \E d \in Delays(s.attempts) : delay' = [delay EXCEPT ![p] = d]

Budget(p) ==
    LET c == on[p]
        s == IF Suppressed(st[c]) THEN st[c] ELSE Charged(st[c])
    IN  /\ pc[p] = "budget"
        /\ st' = [st EXCEPT ![c] = s]
        /\ IF Suppressed(st[c]) \/ s.exhausted THEN Refuse(p) ELSE Grant(p, s)
        /\ UNCHANGED <<pending, on, cancelled, docker, died>>

\* The "exhausted" event is broadcast and the handler returns.
Refused(p) ==
    /\ pc[p] = "refused"
    /\ Return(p)
    /\ UNCHANGED <<st, pending, delay, cancelled, docker, died>>

\* cancelPending: cancel the registered goroutine and drop the entry.
CancelPending(c) ==
    /\ cancelled' = IF pending[c] = None THEN cancelled
                    ELSE [cancelled EXCEPT ![pending[c]] = TRUE]
    /\ pending' = [pending EXCEPT ![c] = None]

Unschedule(p) ==
    /\ pc[p] = "unschedule"
    /\ CancelPending(on[p])
    /\ Goto(p, "register")
    /\ UNCHANGED <<st, on, delay, docker, died>>

\* Register the cancel function and start goroutine g.  The handler returns.
Register(p, g) ==
    /\ pc[p] = "register"
    /\ pc[g] = "idle"
    /\ pending' = [pending EXCEPT ![on[p]] = g]
    /\ pc' = [pc EXCEPT ![g] = "waiting", ![p] = IF p = Watcher THEN "idle" ELSE "done"]
    /\ on' = [on EXCEPT ![g] = on[p], ![p] = IF p = Watcher THEN None ELSE @]
    /\ delay' = [delay EXCEPT ![g] = delay[p], ![p] = 0]
    /\ cancelled' = [cancelled EXCEPT ![g] = FALSE]
    /\ UNCHANGED <<st, docker, died>>

HandlerStep(p) ==
    \/ Check(p)
    \/ Budget(p)
    \/ Refused(p)
    \/ Unschedule(p)
    \/ \E g \in Goroutine : Register(p, g)

----------------------------------------------------------------------------
(* The watcher.  UpdateFromEvent has just refreshed the registry, so Get   *)
(* finds the container unless the daemon no longer knows it; a failed      *)
(* inspect leaves the old entry behind.                                    *)

TakeDie(c) ==
    /\ pc[Watcher] = "idle"
    /\ died[c] > 0
    /\ died' = [died EXCEPT ![c] = @ - 1]
    /\ \/ /\ Goto(Watcher, "check")
          /\ on' = [on EXCEPT ![Watcher] = c]
       \/ /\ docker[c] = "removed"
          /\ UNCHANGED <<pc, on>>
    /\ UNCHANGED <<st, pending, delay, cancelled, docker>>

----------------------------------------------------------------------------
(* The Docker daemon.  A container that exits with a non-zero code leaves  *)
(* a die event; one that exits with code 0 leaves none the supervisor      *)
(* looks at.                                                               *)

Exits(c) ==
    /\ docker[c] = "running"
    /\ docker' = [docker EXCEPT ![c] = "exited"]
    /\ \/ died[c] < MaxBacklog /\ died' = [died EXCEPT ![c] = @ + 1]
       \/ UNCHANGED died

Starts(c) ==
    /\ docker[c] = "exited"
    /\ docker' = [docker EXCEPT ![c] = "running"]
    /\ UNCHANGED died

\* The container crashes or finishes, is started by another client of the
\* daemon or by its native restart policy, or is removed for ever.
Removed(c) ==
    /\ docker[c] # "removed"
    /\ docker' = [docker EXCEPT ![c] = "removed"]
    /\ UNCHANGED died

Outside(c) ==
    /\ Exits(c) \/ Starts(c) \/ Removed(c)
    /\ UNCHANGED <<st, pending, pc, on, delay, cancelled>>

----------------------------------------------------------------------------
(* A restart goroutine.                                                    *)

\* <-rCtx.Done() in the select.
Abandon(g) ==
    /\ pc[g] = "waiting"
    /\ cancelled[g]
    /\ Goto(g, "done")
    /\ UNCHANGED <<st, pending, on, delay, cancelled, docker, died>>

\* <-time.After(delay) in the select, which may win over a done context.
Fire(g) ==
    /\ pc[g] = "waiting"
    /\ delay[g] = 0
    /\ Goto(g, "calling")
    /\ UNCHANGED <<st, pending, on, delay, cancelled, docker, died>>

\* engine.Restart(rCtx): a done context fails before anything is sent.
Call(g) ==
    /\ pc[g] = "calling"
    /\ Goto(g, IF cancelled[g] THEN "check" ELSE "inflight")
    /\ UNCHANGED <<st, pending, on, delay, cancelled, docker, died>>

\* The daemon stops a running container, then starts it.  Between the two,
\* and after a removal, the call may also fail.
RestartKills(p, label) ==
    /\ pc[p] = label
    /\ \/ Exits(on[p])
       \/ docker[on[p]] = "exited" /\ UNCHANGED <<docker, died>>
    /\ Goto(p, IF label = "inflight" THEN "starting" ELSE "start")
    /\ UNCHANGED <<st, pending, on, delay, cancelled>>

Up(c) ==
    \/ Starts(c)
    \/ docker[c] = "running" /\ UNCHANGED <<docker, died>>

RestartDone(g) ==
    /\ pc[g] = "starting"
    /\ Up(on[g])
    /\ Goto(g, "done")
    /\ UNCHANGED <<st, pending, on, delay, cancelled>>

\* The goroutine handles the failure of its call as another exit of the
\* container.
RestartFailsUncharged(g) ==
    /\ pc[g] \in {"inflight", "starting"}
    /\ Goto(g, "calling")
    /\ UNCHANGED <<st, pending, on, delay, cancelled, docker, died>>
RestartFails(g) ==
    /\ pc[g] \in {"inflight", "starting"}
    /\ Goto(g, "check")
    /\ UNCHANGED <<st, pending, on, delay, cancelled, docker, died>>

\* The deferred function deletes the entry of the container, whoever it is.
FreedForgetsEntry(g) == pending' = pending
Freed(g) == pending' = [pending EXCEPT ![on[g]] = None]

Finish(g) ==
    /\ pc[g] = "done"
    /\ Freed(g)
    /\ pc' = [pc EXCEPT ![g] = "idle"]
    /\ on' = [on EXCEPT ![g] = None]
    /\ cancelled' = [cancelled EXCEPT ![g] = FALSE]
    /\ delay' = [delay EXCEPT ![g] = 0]
    /\ UNCHANGED <<st, docker, died>>

GoroutineStep(g) ==
    \/ Abandon(g)
    \/ Fire(g)
    \/ Call(g)
    \/ RestartKills(g, "inflight")
    \/ RestartDone(g)
    \/ RestartFails(g)
    \/ Finish(g)

----------------------------------------------------------------------------
(* The HTTP handlers.  Each first looks the container up in the registry.  *)

\* StopContainer: MarkIntentionalStop is the mark, then cancelPending.
StopRequest(r, c) ==
    /\ pc[r] = "idle"
    /\ docker[c] # "removed"
    /\ st' = [st EXCEPT ![c] = Marked(@)]
    /\ Goto(r, "cancel")
    /\ on' = [on EXCEPT ![r] = c]
    /\ UNCHANGED <<pending, delay, cancelled, docker, died>>

StopCancels(r) ==
    /\ pc[r] = "cancel"
    /\ CancelPending(on[r])
    /\ Goto(r, "stop")
    /\ UNCHANGED <<st, on, delay, docker, died>>

\* StartContainer and RestartContainer: ClearIntentionalStop, then the call.
ClearRequest(r, c) ==
    /\ pc[r] = "idle"
    /\ docker[c] # "removed"
    /\ st' = [st EXCEPT ![c] = Cleared(@)]
    /\ \E call \in {"start", "restart"} : Goto(r, call)
    /\ on' = [on EXCEPT ![r] = c]
    /\ UNCHANGED <<pending, delay, cancelled, docker, died>>

\* The engine call returns: with its effect, or with an error.
EngineReturns(r) ==
    /\ pc[r] \in {"stop", "start", "restart"}
    /\ \/ pc[r] = "stop" /\ Exits(on[r])
       \/ pc[r] = "start" /\ Up(on[r])
       \/ UNCHANGED <<docker, died>>
    /\ Goto(r, "idle")
    /\ on' = [on EXCEPT ![r] = None]
    /\ UNCHANGED <<st, pending, delay, cancelled>>

RequestStep(r) ==
    \/ StopCancels(r)
    \/ RestartKills(r, "restart")
    \/ EngineReturns(r)

----------------------------------------------------------------------------
(* Time.  Both clocks advance together: the age of LastRestartAt and the   *)
(* timers of the waiting goroutines.  Two bounds: no tick falls between    *)
(* the grant of an attempt and the start of its goroutine, where the code  *)
(* waits for nothing but the broadcast of "scheduled", and an age reaches  *)
(* StabilityThreshold only when at most MaxLeftover restart goroutines of  *)
(* the container are still alive.                                          *)

Aging(c) == Older(st[c]).age = StabilityThreshold /\ st[c].age # StabilityThreshold

Tick ==
    /\ \A p \in Handler : pc[p] \notin {"unschedule", "register"}
    /\ \A c \in Container : Aging(c) => Cardinality(Live(c)) <= MaxLeftover
    /\ st' = [c \in Container |-> Older(st[c])]
    /\ delay' = [p \in Handler |->
                    IF pc[p] = "waiting" /\ delay[p] > 0 THEN delay[p] - 1 ELSE delay[p]]
    /\ UNCHANGED <<pending, pc, on, cancelled, docker, died>>

----------------------------------------------------------------------------
Next ==
    \/ \E p \in Handler : HandlerStep(p)
    \/ \E g \in Goroutine : GoroutineStep(g)
    \/ \E c \in Container : TakeDie(c) \/ Outside(c)
    \/ \E r \in Request : RequestStep(r)
    \/ \E r \in Request, c \in Container : StopRequest(r, c) \/ ClearRequest(r, c)
    \/ Tick

Spec == Init /\ [][Next]_vars

\* The Go scheduler runs every goroutine, timers fire, engine calls return.
\* Nothing obliges a container to exit or a user to send a request.
Fairness ==
    /\ \A p \in Handler : WF_vars(HandlerStep(p))
    /\ \A g \in Goroutine : WF_vars(GoroutineStep(g))
    /\ \A c \in Container : WF_vars(TakeDie(c))
    /\ \A r \in Request : WF_vars(RequestStep(r))
    /\ WF_vars(Tick)

FairSpec == Spec /\ Fairness

----------------------------------------------------------------------------
(* Properties.                                                             *)

\* Processes that hold a granted attempt: on their way to a restart.
Committed(c) ==
    {p \in Handler : on[p] = c /\ pc[p] \in {"unschedule", "register", "waiting",
                                            "calling", "inflight", "starting"}}

\* Every container's record is one NextDelay can decide from, whatever the
\* order of charges, marks, clears and ticks: exhausted exactly when MaxAttempts
\* is exceeded, and with the time of its last restart known once charged.
BudgetInv ==
    \A c \in Container : WellCharged(st[c])

\* The cancel function registered for a container is that of a goroutine that
\* still works on this container and has not been cancelled: cancelPending
\* never spends a stop on a goroutine that is already gone.
PendingInv ==
    \A c \in Container : pending[c] # None =>
        /\ on[pending[c]] = c
        /\ pc[pending[c]] # "idle"
        /\ ~cancelled[pending[c]]

\* While the intentional-stop mark of a container is set nothing charges its
\* budget: a stop that lands between the handler's GetState and its NextDelay
\* is still seen.
IntentFreezesBudget ==
    [][\A c \in Container : st[c].intentional =>
            /\ st'[c].attempts = st[c].attempts
            /\ st'[c].exhausted = st[c].exhausted]_vars

\* Once a container is exhausted no further attempt is granted for it: those
\* granted before may still run, and their number only goes down.
ExhaustedDrains ==
    [][\A c \in Container : st[c].exhausted =>
            Cardinality(Committed(c)') <= Cardinality(Committed(c))]_vars

\* Attempts charged that have not led to a call, and calls not yet returned.
Granted(c) ==
    {p \in Handler : on[p] = c /\ pc[p] \in {"unschedule", "register", "waiting", "calling"}}
Calling(c) == {g \in Goroutine : on[g] = c /\ pc[g] \in {"inflight", "starting"}}

Account(c) == INSTANCE RestartBudget WITH
    spent   <- st[c].attempts,
    closed  <- st[c].exhausted,
    frozen  <- st[c].intentional,
    calm    <- Stable(st[c]),
    granted <- Cardinality(Granted(c)),
    calls   <- Cardinality(Calling(c))

\* Whatever handlers, goroutines and users do to each other, every container's
\* restarts are kept by a RestartBudget: each call was charged for, once, and
\* no charge goes beyond the limit, past a stop or to an exhausted container.
KeepsAccounts ==
    /\ \A c \in Container : Account(c)!Init
    /\ [][\A c \in Container : [Account(c)!Next]_(Account(c)!vars)]_vars

\* An exhausted container is left alone for good after finitely many steps.
ExhaustedQuiesces ==
    \A c \in Container : st[c].exhausted ~> [](Committed(c) = {})

\* A crash the supervisor is to act on is answered: somebody calls Restart for
\* the container, unless it runs again or is gone, its attempts are used up, or
\* a user stopped it (the stop may have marked it and not yet cancelled).
Answered(c) ==
    \/ docker[c] # "exited"
    \/ \E g \in Goroutine : on[g] = c /\ pc[g] \in {"inflight", "starting"}
    \/ st[c].exhausted
    \/ st[c].intentional
    \/ \E r \in Request : on[r] = c /\ pc[r] = "cancel"

CrashIsAnswered ==
    Enabled => \A c \in Container \ OptOut : died[c] > 0 ~> Answered(c)

----------------------------------------------------------------------------
(* What the documentation says of the supervisor and the code does not do. *)

Begins(g) == pc[g] = "calling" /\ pc'[g] = "inflight"

\* "Manual container stop from the UI marks the container as intentionally
\* stopped and suppresses supervisor action": with the mark set and no stop
\* still on its way to cancelPending, no goroutine sends a restart.
StopSuppressesRestart ==
    [][\A g \in Goroutine : Begins(g) /\ st[on[g]].intentional =>
            \E r \in Request : on[r] = on[g] /\ pc[r] = "cancel"]_vars

\* "When attempts are exhausted [...] further automatic restarts stop until
\* user action": a Start or Restart request of a user gives
\* an exhausted container its automatic restarts back.
UserActionReopens ==
    [][\A r \in Request : (pc[r] = "idle" /\ pc'[r] \in {"start", "restart"})
            => ~st'[on'[r]].exhausted]_vars
=============================================================================
