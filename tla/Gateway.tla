------------------------------ MODULE Gateway ------------------------------
(***************************************************************************)
(* The program as its users meet it: it starts, serves HTTP and shuts down *)
(* (cmd/dock-pulse/main.go, run), each request goes through the router     *)
(* and the middleware chain (internal/httpapi/router.go, middleware.go) to *)
(* a handler (handlers.go, ws.go), under the configuration of Config.      *)
(*                                                                         *)
(* Authentication and the read-only test look at what never changes, and   *)
(* the rate limiter works under its mutex, so the chain is one step.  A    *)
(* handler's look at the registry and the daemon's answer are steps of     *)
(* their own.  What start, stop and restart do to the supervisor is in     *)
(* Supervisor, what a connected browser receives in LiveView.              *)
(*                                                                         *)
(* Times are ages in ticks that stop growing at Window, the only one the   *)
(* limiter compares them with.  passed is an auxiliary variable: the ages  *)
(* of the POST requests the chain really let through, those below Window.  *)
(***************************************************************************)
EXTENDS Config, Selection

CONSTANTS
    Environments, Commands,   \* what the environment and the flags may say
    Request,                  \* slots for requests in flight
    Remote,                   \* remote addresses, with their port
    Queries,                  \* the requests that are made
    None,
    Rate, Window              \* of the RateLimiter: 10 in a second

ASSUME GatewayAssumption ==
    /\ Rate \in Nat \ {0}
    /\ Window \in Nat \ {0}
    /\ None \notin Nat
    /\ \A q \in Queries : q # None /\ q.remote \in Remote

VARIABLES
    env, args,   \* the sources of the configuration
    cfg,
    stage,       \* how far run has come
    exit,        \* the exit code, -1 for a signal's
    watcher,     \* the watcher's goroutine
    timedOut,    \* Shutdown gave up after its ten seconds
    store,       \* containers of the registry
    at, req,     \* progress of each request, and what it asks for
    reply,       \* the status it was answered with
    limits,      \* RateLimiter.limits
    passed

sources == <<env, args>>
program == <<sources, cfg, stage, exit, watcher, timedOut>>
requests == <<at, req, reply>>
vars == <<program, store, requests, limits, passed>>

Mutations == {"start", "stop", "restart"}
Posts == Mutations \cup {"stray"}    \* a path no handler has
Routes == Posts \cup {"health", "page", "list", "get", "logs", "stream"}

Starting == {"load", "ping", "sync"}
Stopping == {"failing", "draining", "waiting"}

TypeOK ==
    /\ cfg # None => (Loads(env, args) /\ cfg = Loaded(env, args))
    /\ stage \in Starting \cup {"serving"} \cup Stopping \cup {"exited"}
    /\ exit \in {None, 0, 1, 2, -1}
    /\ watcher \in {"none", "running", "ended"}
    /\ timedOut \in BOOLEAN
    /\ store \subseteq Container
    /\ at \in [Request -> {"idle", "arrived", "handler", "calling", "upgraded"}]
    /\ req \in [Request -> Queries \cup {None}]
    /\ reply \in [Request -> {None, 200, 401, 403, 404, 429, 500, 501, 503}]
    /\ limits \in [Remote -> Seq(0 .. Window)]
    /\ passed \in [Remote -> Seq(0 .. Window - 1)]
    /\ \A r \in Request : at[r] = "idle" <=> req[r] = None

Init ==
    /\ env \in Environments
    /\ args \in Commands
    /\ cfg = None
    /\ stage = "load"
    /\ exit = None
    /\ watcher = "none"
    /\ timedOut = FALSE
    /\ store = {}
    /\ at = [r \in Request |-> "idle"]
    /\ req = [r \in Request |-> None]
    /\ reply = [r \in Request |-> None]
    /\ limits = [a \in Remote |-> <<>>]
    /\ passed = [a \in Remote |-> <<>>]

----------------------------------------------------------------------------
(* run, up to the server.                                                  *)

StepTo(next) ==
    /\ stage' = next
    /\ UNCHANGED <<sources, exit, timedOut, requests, limits, passed>>

ExitWith(code) ==
    /\ stage' = "exited"
    /\ exit' = code
    /\ UNCHANGED <<sources, cfg, watcher, timedOut, store, requests, limits, passed>>

LoadsConfig ==
    /\ stage = "load"
    /\ Loads(env, args)
    /\ cfg' = Loaded(env, args)
    /\ StepTo("ping")
    /\ UNCHANGED <<watcher, store>>

RejectsConfig ==
    /\ stage = "load"
    /\ ~Loads(env, args)
    /\ ExitWith(2)

\* A client for the daemon is made, and the daemon answers its ping.
Pings ==
    /\ stage = "ping"
    /\ StepTo("sync")
    /\ UNCHANGED <<cfg, watcher, store>>

PingFails == stage = "ping" /\ ExitWith(1)

Allowed == {c \in Container : IsAllowed(cfg, c)}

\* The first resync, of whatever containers there are; if it fails, that is
\* logged.  Then the watcher starts, and the server.
Syncs ==
    /\ stage = "sync"
    /\ \E found \in SUBSET Container : store' = found \cap Allowed
    /\ watcher' = "running"
    /\ StepTo("serving")
    /\ UNCHANGED cfg

\* Until signal.Notify a signal is the end.
Killed == stage \in Starting /\ ExitWith(-1)

----------------------------------------------------------------------------
(* run, after the server: the select, appCancel, Shutdown and wg.Wait.     *)

InFlight(r) == at[r] \in {"arrived", "handler", "calling"}

ServerFails ==
    /\ stage = "serving"
    /\ StepTo("failing")
    /\ UNCHANGED <<cfg, watcher, store>>

Signalled ==
    /\ stage = "serving"
    /\ StepTo("draining")
    /\ UNCHANGED <<cfg, watcher, store>>

\* Shutdown waits for the requests in flight, or for ten seconds.  (The name
\* of a faulty variant says what is wrong with it.)
DrainedAtOnce == TRUE
Drained == \A r \in Request : ~InFlight(r)

ShutdownEnds ==
    /\ stage = "draining"
    /\ Drained
    /\ StepTo("waiting")
    /\ UNCHANGED <<cfg, watcher, store>>

ShutdownTimesOut ==
    /\ stage = "draining"
    /\ ~Drained
    /\ stage' = "waiting"
    /\ timedOut' = TRUE
    /\ UNCHANGED <<sources, cfg, exit, watcher, store, requests, limits, passed>>

\* appCancel ended its context; it returns from wherever it is.
WatcherIgnoresCancel == FALSE
WatcherCancelled == watcher = "running" /\ stage \in Stopping

WatcherEnds ==
    /\ WatcherCancelled
    /\ watcher' = "ended"
    /\ UNCHANGED <<sources, cfg, stage, exit, timedOut, store, requests, limits, passed>>

Exits ==
    /\ watcher = "ended"
    /\ \/ stage = "failing" /\ ExitWith(1)
       \/ stage = "waiting" /\ ExitWith(0)

\* The watcher meanwhile: EventFeed has the details.
WatcherWrites ==
    /\ watcher = "running" /\ stage # "exited"
    /\ \E c \in Container :
          store' \in {store \ {c}} \cup (IF IsAllowed(cfg, c) THEN {store \cup {c}} ELSE {})
    /\ UNCHANGED <<program, requests, limits, passed>>

----------------------------------------------------------------------------
(* The rate limiter.                                                       *)

\* A timestamp counts while it is after now minus the window.
StillCountsTooShort(age) == age < Window - 1
StillCounts(age) == age < Window

Valid(list) == Selected(list, {i \in DOMAIN list : StillCounts(list[i])})

HasRoom(list) == Len(list) < Rate

ExtendedOnRefusal(list) == IF Len(list) < Rate + 1 THEN Append(list, 0) ELSE list
AfterRefusal(list) == list

\* What passed within the window, however the limiter counts.
Recent(list) == Selected(list, {i \in DOMAIN list : list[i] < Window})

Older(list) == [i \in DOMAIN list |-> IF list[i] < Window THEN list[i] + 1 ELSE list[i]]

Tick ==
    /\ stage # "exited"
    /\ limits' = [a \in Remote |-> Older(limits[a])]
    /\ passed' = [a \in Remote |-> Recent(Older(passed[a]))]
    /\ UNCHANGED <<program, store, requests>>

----------------------------------------------------------------------------
(* The router and the middleware chain.                                    *)

Arrives(r) ==
    /\ stage = "serving"
    /\ at[r] = "idle"
    /\ \E q \in Queries :
          /\ cfg.base_path = "/" => q.below
          /\ req' = [req EXCEPT ![r] = q]
    /\ at' = [at EXCEPT ![r] = "arrived"]
    /\ reply' = [reply EXCEPT ![r] = None]
    /\ UNCHANGED <<program, store, limits, passed>>

AnswerKeepsRequest(r, status) ==
    /\ at' = [at EXCEPT ![r] = "idle"]
    /\ reply' = [reply EXCEPT ![r] = status]
    /\ UNCHANGED req
Answer(r, status) ==
    /\ at' = [at EXCEPT ![r] = "idle"]
    /\ req' = [req EXCEPT ![r] = None]
    /\ reply' = [reply EXCEPT ![r] = status]

\* The chain's tests, in their order.
Authenticated(q) == q.route = "health" \/ AuthenticateRequest(cfg, q.tokens)
NothingFrozen(q) == FALSE
Frozen(q) == cfg.read_only /\ q.route \in Posts
Limited(q) == q.route \in Posts /\ ~HasRoom(Valid(limits[q.remote]))

\* A path outside the base path does not reach the chain.
Misses(r) ==
    /\ at[r] = "arrived"
    /\ ~req[r].below
    /\ Answer(r, 404)
    /\ UNCHANGED <<program, store, limits, passed>>

Refuses(r) ==
    /\ at[r] = "arrived"
    /\ LET q == req[r]
       IN  /\ q.below
           /\ \/ ~Authenticated(q) /\ Answer(r, 401)
              \/ Authenticated(q) /\ Frozen(q) /\ Answer(r, 403)
    /\ UNCHANGED <<program, store, limits, passed>>

TooMany(r) ==
    /\ at[r] = "arrived"
    /\ LET q == req[r]
       IN  /\ q.below /\ Authenticated(q) /\ ~Frozen(q) /\ Limited(q)
           /\ limits' = [limits EXCEPT ![q.remote] = AfterRefusal(Valid(@))]
    /\ Answer(r, 429)
    /\ UNCHANGED <<program, store, passed>>

Admits(r) ==
    /\ at[r] = "arrived"
    /\ LET q == req[r]
       IN  /\ q.below /\ Authenticated(q) /\ ~Frozen(q) /\ ~Limited(q)
           /\ IF q.route \in Posts
              THEN /\ limits' = [limits EXCEPT ![q.remote] = Append(Valid(@), 0)]
                   /\ passed' = [passed EXCEPT ![q.remote] = Append(@, 0)]
              ELSE UNCHANGED <<limits, passed>>
    /\ at' = [at EXCEPT ![r] = "handler"]
    /\ UNCHANGED <<program, store, req, reply>>

----------------------------------------------------------------------------
(* The handlers.                                                           *)

\* Health asks the daemon, the others need nobody; a path of no handler is
\* not found.
AnswersAtOnce(r) ==
    /\ at[r] = "handler"
    /\ \/ req[r].route \in {"health", "page", "list"} /\ Answer(r, 200)
       \/ req[r].route = "health" /\ Answer(r, 503)
       \/ req[r].route = "stray" /\ Answer(r, 404)
    /\ UNCHANGED <<program, store, limits, passed>>

\* registry.Get.
KnownToDocker(id) == TRUE
Known(id) == id \in store

NotFound(r) ==
    /\ req[r].route \in {"get", "logs"} \cup Mutations
    /\ ~Known(req[r].id)
    /\ Answer(r, 404)

Shows(r) ==
    /\ req[r].route \in {"get", "logs"}
    /\ Known(req[r].id)
    /\ Answer(r, 200)

\* The call to the daemon begins.
Invokes(r) ==
    /\ req[r].route \in Mutations
    /\ Known(req[r].id)
    /\ at' = [at EXCEPT ![r] = "calling"]
    /\ UNCHANGED <<req, reply>>

LooksUp(r) ==
    /\ at[r] = "handler"
    /\ NotFound(r) \/ Shows(r) \/ Invokes(r)
    /\ UNCHANGED <<program, store, limits, passed>>

\* The daemon has done it, or an error, the handler's timeout or the user's
\* leaving ends the call.
EngineReturns(r) ==
    /\ at[r] = "calling"
    /\ Answer(r, 200) \/ Answer(r, 500)
    /\ UNCHANGED <<program, store, limits, passed>>

\* What the chain hands on is a writer with these methods, and no Unwrap.
WriterMethods == {"Header", "Write", "WriteHeader"}

\* websocket.Accept takes the connection over with Hijack, or answers 501.
Upgrades(r) ==
    /\ at[r] = "handler"
    /\ req[r].route = "stream"
    /\ IF "Hijack" \in WriterMethods
       THEN at' = [at EXCEPT ![r] = "upgraded"] /\ UNCHANGED <<req, reply>>
       ELSE Answer(r, 501)
    /\ UNCHANGED <<program, store, limits, passed>>

Chain(r)   == Misses(r) \/ Refuses(r) \/ TooMany(r) \/ Admits(r)
Handler(r) == AnswersAtOnce(r) \/ LooksUp(r) \/ EngineReturns(r) \/ Upgrades(r)

----------------------------------------------------------------------------
ShutdownStep == ShutdownEnds \/ ShutdownTimesOut \/ WatcherEnds \/ Exits

Next ==
    \/ LoadsConfig \/ RejectsConfig \/ Pings \/ PingFails \/ Syncs \/ Killed
    \/ ServerFails \/ Signalled \/ ShutdownStep
    \/ WatcherWrites
    \/ Tick
    \/ \E r \in Request :
          stage # "exited" /\ (Arrives(r) \/ Chain(r) \/ Handler(r))

Spec == Init /\ [][Next]_vars

\* Shutdown gives up after its timeout, and the watcher's every wait ends with
\* its context.  Nobody has to ask, to answer, to signal or to fail.
Fairness == WF_vars(ShutdownStep)

FairSpec == Spec /\ Fairness

----------------------------------------------------------------------------
(* Properties.                                                             *)

Calls(r) == at[r] # "calling" /\ at'[r] = "calling"

\* An answer that shows containers, and those it shows.
Reveals(r) ==
    /\ at[r] = "handler" /\ req[r].route \in {"get", "logs", "list"}
    /\ reply[r] # 200 /\ reply'[r] = 200
Shown(r) == IF req[r].route = "list" THEN store ELSE {req[r].id}

\* However requests, refusals and time interleave, no remote address gets
\* more than Rate POST requests through in any Window instants, the
\* boundary included.
BurstBound == \A a \in Remote : Len(passed[a]) <= Rate

\* And none is refused for its rate unless that many really got through: a
\* refusal does not count against the next request.
RefusedOnlyWhenFull ==
    [][\A r \in Request :
          (reply[r] # 429 /\ reply'[r] = 429) => Len(passed[req[r].remote]) >= Rate]_vars

\* The program was told to be read-only, by the flag, or by a readable
\* environment variable that no flag overrides.
ReadOnlyAsked ==
    \/ "read_only" \in DOMAIN args /\ args["read_only"] = TRUE
    \/ /\ "read_only" \notin DOMAIN args
       /\ "read_only" \in DOMAIN env /\ env["read_only"] = TRUE

\* Whatever else is configured and whoever asks, a program that was told to be
\* read-only starts, stops and restarts no container.
ReadOnlyHolds == [][\A r \in Request : Calls(r) => ~ReadOnlyAsked]_vars

\* A request acts on a container or sees one only with the token, or without
\* one where none is set and only this machine can connect.
Guarded ==
    [][\A r \in Request : (Calls(r) \/ Reveals(r)) =>
          \/ cfg.token # Empty /\ cfg.token \in req[r].tokens
          \/ cfg.token = Empty /\ cfg.listen_addr \in Loopback]_vars

\* It acts on and sees only containers that the patterns let through, whatever
\* the watcher does meanwhile.
OnlyAllowed ==
    [][\A r \in Request :
          /\ Calls(r) => IsAllowed(cfg, req[r].id)
          /\ Reveals(r) => Shown(r) \subseteq Allowed]_vars

\* A program that ends with code 0 has stopped its watcher, and has cut no
\* request off unless it had waited ten seconds for it.
CleanExit ==
    (stage = "exited" /\ exit = 0) =>
        /\ watcher = "ended"
        /\ timedOut \/ \A r \in Request : ~InFlight(r)

\* A signal or a failing server ends the program, whatever is in flight.
Terminates == (stage \in Stopping) ~> (stage = "exited")

\* "Clients communicate with /api/stream using a JSON envelope": a request for
\* the stream that reaches the handler becomes a WebSocket connection.
StreamUpgrades ==
    [][\A r \in Request :
          (at[r] = "handler" /\ req[r].route = "stream" /\ at'[r] # "handler")
              => at'[r] = "upgraded"]_vars
=============================================================================
