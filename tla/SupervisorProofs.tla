--------------------------- MODULE SupervisorProofs ---------------------------
(***************************************************************************)
(* Theorems about the supervisor for any number of containers, goroutines  *)
(* and requests and any backoff configuration.                             *)
(*                                                                         *)
(* None of the three invariants is inductive alone.  A charge stays within *)
(* the type only because BudgetInv says that a record that is not          *)
(* exhausted has an attempt left; PendingInv needs the types to know which *)
(* process an entry may name.  Their conjunction is inductive.             *)
(***************************************************************************)
EXTENDS Supervisor, FiniteSetTheorems, TLAPS

IInv == TypeOK /\ BudgetInv /\ PendingInv

USE BackoffAssumption, SupervisorAssumption

----------------------------------------------------------------------------
(* The operators of Backoff keep a record well formed.                     *)

\* The record of a container nobody has charged.
LEMMA FreshRecord == Fresh \in BackoffState /\ WellCharged(Fresh)
BY DEF Fresh, BackoffState, WellCharged, Never

\* A mark and its removal touch nothing the budget is decided from.
LEMMA MarkedRecord ==
    ASSUME NEW s \in BackoffState, WellCharged(s)
    PROVE  /\ Marked(s) \in BackoffState /\ WellCharged(Marked(s))
           /\ Cleared(s) \in BackoffState /\ WellCharged(Cleared(s))
BY DEF Marked, Cleared, BackoffState, WellCharged, Never

\* The clock keeps a record well formed and changes only its age.
LEMMA OlderRecord ==
    ASSUME NEW s \in BackoffState, WellCharged(s)
    PROVE  /\ Older(s) \in BackoffState /\ WellCharged(Older(s))
           /\ Older(s).attempts = s.attempts
           /\ Older(s).exhausted = s.exhausted
           /\ Older(s).intentional = s.intentional
BY DEF Older, BackoffState, WellCharged, Never

\* A charge that NextDelay makes keeps a record well formed.
LEMMA ChargedRecord ==
    ASSUME NEW s \in BackoffState, WellCharged(s), ~Suppressed(s)
    PROVE  Charged(s) \in BackoffState /\ WellCharged(Charged(s))
<1>1. s.attempts \in 0 .. MaxAttempts
  BY DEF BackoffState, WellCharged, Suppressed
<1>2. /\ Refreshed(s) \in BackoffState
      /\ Refreshed(s).attempts \in 0 .. MaxAttempts
      /\ ~Refreshed(s).exhausted
  <2>1. CASE Stable(s)
    BY <2>1 DEF Refreshed, Counted, BackoffState
  <2>2. CASE ~Stable(s)
    BY <1>1, <2>2 DEF Refreshed, BackoffState, Suppressed
  <2> QED BY <2>1, <2>2
<1> QED BY <1>2 DEF Charged, Counted, BackoffState, WellCharged, Never

----------------------------------------------------------------------------
(* Every action keeps the inductive invariant.                             *)

\* HandleContainerExit's early tests change no budget and no entry.
LEMMA CheckKeeps ==
    ASSUME IInv, NEW p \in Handler, Check(p)
    PROVE  IInv'
<1>1. TypeOK'
  BY DEF IInv, TypeOK, Check, Return, Goto, Process, Handler, HandlerPC, GoroutinePC
<1>2. BudgetInv'
  BY DEF IInv, BudgetInv, Check
<1>3. PendingInv'
  BY DEF IInv, TypeOK, PendingInv, Check, Return, Goto, Process, Handler
<1> QED BY <1>1, <1>2, <1>3 DEF IInv

\* A charge stays within the type because an attempt is left, by BudgetInv.
LEMMA BudgetKeeps ==
    ASSUME IInv, NEW p \in Handler, Budget(p)
    PROVE  IInv'
<1> DEFINE c == on[p]
           s == IF Suppressed(st[c]) THEN st[c] ELSE Charged(st[c])
<1>1. /\ p \in Process
      /\ c \in Container
      /\ st[c] \in BackoffState
      /\ WellCharged(st[c])
  BY DEF IInv, TypeOK, BudgetInv, Budget, Process, Handler
<1>2. s \in BackoffState /\ WellCharged(s)
  BY <1>1, ChargedRecord
<1>3. st' = [st EXCEPT ![c] = s]
  BY DEF Budget
<1> HIDE DEF c, s
<1>4. TypeOK'
  <2>1. st' \in [Container -> BackoffState]
    BY <1>1, <1>2, <1>3 DEF IInv, TypeOK
  <2>2. delay' \in [Handler -> 0 .. MaxInterval - 1]
    BY DEF IInv, TypeOK, Budget, Refuse, Grant, Delays
  <2>3. \/ pc' = [pc EXCEPT ![p] = "refused"]
        \/ pc' = [pc EXCEPT ![p] = "unschedule"]
    BY DEF Budget, Refuse, Grant, Goto
  <2> QED BY <1>1, <2>1, <2>2, <2>3 DEF IInv, TypeOK, Budget, HandlerPC
<1>5. BudgetInv'
  BY <1>2, <1>3 DEF IInv, TypeOK, BudgetInv
<1>6. PendingInv'
  BY DEF IInv, TypeOK, PendingInv, Budget, Refuse, Grant, Goto, Process, Handler
<1> QED BY <1>4, <1>5, <1>6 DEF IInv

\* The broadcast of "exhausted" and the return.
LEMMA RefusedKeeps ==
    ASSUME IInv, NEW p \in Handler, Refused(p)
    PROVE  IInv'
<1>1. TypeOK'
  BY DEF IInv, TypeOK, Refused, Return, Process, Handler, GoroutinePC
<1>2. BudgetInv'
  BY DEF IInv, BudgetInv, Refused
<1>3. PendingInv'
  BY DEF IInv, TypeOK, PendingInv, Refused, Return, Process, Handler
<1> QED BY <1>1, <1>2, <1>3 DEF IInv

\* cancelPending drops the entry of the goroutine it cancels; no other entry
\* names that goroutine, which works on one container.
LEMMA CancelKeeps ==
    ASSUME IInv, NEW c \in Container, CancelPending(c)
    PROVE  /\ pending' \in [Container -> Goroutine \cup {None}]
           /\ cancelled' \in [Goroutine -> BOOLEAN]
           /\ \A d \in Container : pending'[d] # None =>
                /\ pending'[d] = pending[d]
                /\ ~cancelled'[pending'[d]]
BY DEF IInv, TypeOK, PendingInv, CancelPending

\* cancelPending on behalf of the next restart.
LEMMA UnscheduleKeeps ==
    ASSUME IInv, NEW p \in Handler, Unschedule(p)
    PROVE  IInv'
<1>1. on[p] \in Container /\ p \in Process
  BY DEF IInv, TypeOK, Unschedule, Process, Handler
<1>2. CancelPending(on[p])
  BY DEF Unschedule
<1>3. TypeOK'
  BY <1>1, <1>2, CancelKeeps DEF IInv, TypeOK, Unschedule, Goto, HandlerPC
<1>4. BudgetInv'
  BY DEF IInv, BudgetInv, Unschedule
<1>5. PendingInv'
  BY <1>1, <1>2, CancelKeeps DEF IInv, TypeOK, PendingInv, Unschedule, Goto, Process, Handler
<1> QED BY <1>3, <1>4, <1>5 DEF IInv

\* A new goroutine takes the entry: it is in a free slot no entry names.
LEMMA RegisterKeeps ==
    ASSUME IInv, NEW p \in Handler, NEW g \in Goroutine, Register(p, g)
    PROVE  IInv'
<1>1. on[p] \in Container /\ p # g /\ p \in Process /\ g \in Process /\ g # Watcher
  BY DEF IInv, TypeOK, Register, Process, Handler
<1>2. TypeOK'
  <2>1. on' \in [Process -> Container \cup {None}]
    BY <1>1 DEF IInv, TypeOK, Register
  <2>2. pc' \in [Process -> {"idle"} \cup HandlerPC \cup GoroutinePC \cup RequestPC]
    BY <1>1 DEF IInv, TypeOK, Register, GoroutinePC
  <2>3. delay' \in [Handler -> 0 .. MaxInterval - 1]
    BY <1>1 DEF IInv, TypeOK, Register, Handler
  <2>4. \A q \in Process : on'[q] = None <=> pc'[q] = "idle"
    BY <1>1 DEF IInv, TypeOK, Register
  <2> QED BY <1>1, <2>1, <2>2, <2>3, <2>4 DEF IInv, TypeOK, Register
<1>3. BudgetInv'
  BY DEF IInv, BudgetInv, Register
<1>4. PendingInv'
  BY <1>1 DEF IInv, TypeOK, PendingInv, Register, Process, Handler
<1> QED BY <1>2, <1>3, <1>4 DEF IInv

\* The watcher takes a die event.
LEMMA TakeDieKeeps ==
    ASSUME IInv, NEW c \in Container, TakeDie(c)
    PROVE  IInv'
<1>1. TypeOK'
  <2>1. died' \in [Container -> 0 .. MaxBacklog]
    BY DEF IInv, TypeOK, TakeDie
  <2> QED BY <2>1 DEF IInv, TypeOK, TakeDie, Goto, Process, Handler, HandlerPC
<1>2. BudgetInv'
  BY DEF IInv, BudgetInv, TakeDie
<1>3. PendingInv'
  BY DEF IInv, TypeOK, PendingInv, TakeDie, Goto, Process, Handler
<1> QED BY <1>1, <1>2, <1>3 DEF IInv

\* What the daemon does to a container keeps its two variables in their types.
LEMMA DaemonTypes ==
    ASSUME TypeOK, NEW c \in Container,
           Exits(c) \/ Up(c) \/ Removed(c) \/ UNCHANGED <<docker, died>>
    PROVE  /\ docker' \in [Container -> {"running", "exited", "removed"}]
           /\ died' \in [Container -> 0 .. MaxBacklog]
<1>1. CASE Exits(c)
  BY <1>1 DEF TypeOK, Exits
<1>2. CASE Up(c)
  BY <1>2 DEF TypeOK, Up, Starts
<1>3. CASE Removed(c)
  BY <1>3 DEF TypeOK, Removed
<1>4. CASE UNCHANGED <<docker, died>>
  BY <1>4 DEF TypeOK
<1> QED BY <1>1, <1>2, <1>3, <1>4

\* A container exits, starts or goes away by itself.
LEMMA OutsideKeeps ==
    ASSUME IInv, NEW c \in Container, Outside(c)
    PROVE  IInv'
<1>1. Exits(c) \/ Up(c) \/ Removed(c)
  BY DEF Outside, Up
<1>2. TypeOK'
  BY <1>1, DaemonTypes DEF IInv, TypeOK, Outside
<1>3. BudgetInv' /\ PendingInv'
  BY DEF IInv, BudgetInv, PendingInv, Outside
<1> QED BY <1>2, <1>3 DEF IInv

\* The select of a restart goroutine, and the call that follows it.
LEMMA GoroutineMovesKeep ==
    ASSUME IInv, NEW g \in Goroutine, Abandon(g) \/ Fire(g) \/ Call(g)
    PROVE  IInv'
<1>1. \E label \in {"done", "calling", "check", "inflight"} : Goto(g, label)
  BY DEF Abandon, Fire, Call
<1>2. /\ UNCHANGED <<st, pending, on, delay, cancelled, docker, died>>
      /\ g \in Process /\ pc[g] # "idle"
  BY DEF Abandon, Fire, Call, Process, Handler
<1>3. TypeOK'
  BY <1>1, <1>2 DEF IInv, TypeOK, Goto, HandlerPC, GoroutinePC
<1>4. BudgetInv' /\ PendingInv'
  BY <1>1, <1>2 DEF IInv, TypeOK, BudgetInv, PendingInv, Goto
<1> QED BY <1>3, <1>4 DEF IInv

\* The engine calls of goroutines, and the kill of a restart request.
LEMMA RestartsKeep ==
    ASSUME IInv, NEW p \in Process, NEW label \in {"inflight", "restart"},
           RestartKills(p, label) \/ RestartDone(p) \/ RestartFails(p)
    PROVE  IInv'
<1>1. \E to \in {"starting", "start", "done", "check"} : Goto(p, to)
  BY DEF RestartKills, RestartDone, RestartFails
<1>2. /\ UNCHANGED <<st, pending, on, delay, cancelled>>
      /\ pc[p] # "idle"
      /\ on[p] \in Container
  BY DEF IInv, TypeOK, RestartKills, RestartDone, RestartFails
<1>3. Exits(on[p]) \/ Up(on[p]) \/ UNCHANGED <<docker, died>>
  BY DEF RestartKills, RestartDone, RestartFails
<1>4. TypeOK'
  BY <1>1, <1>2, <1>3, DaemonTypes
  DEF IInv, TypeOK, Goto, HandlerPC, GoroutinePC, RequestPC
<1>5. BudgetInv' /\ PendingInv'
  BY <1>1, <1>2 DEF IInv, TypeOK, BudgetInv, PendingInv, Goto
<1> QED BY <1>4, <1>5 DEF IInv

\* A goroutine ends: the only entry that may name it is the one it deletes.
LEMMA FinishKeeps ==
    ASSUME IInv, NEW g \in Goroutine, Finish(g)
    PROVE  IInv'
<1>1. g \in Process /\ g \in Handler /\ on[g] \in Container
  BY DEF IInv, TypeOK, Finish, Process, Handler
<1>2. TypeOK'
  BY <1>1 DEF IInv, TypeOK, Finish, Freed
<1>3. BudgetInv' /\ PendingInv'
  BY <1>1 DEF IInv, TypeOK, BudgetInv, PendingInv, Finish, Freed, Process, Handler
<1> QED BY <1>2, <1>3 DEF IInv

\* A request marks or clears the record of its container.
LEMMA RequestsKeep ==
    ASSUME IInv, NEW r \in Request, NEW c \in Container,
           StopRequest(r, c) \/ ClearRequest(r, c)
    PROVE  IInv'
<1>1. \E s \in {Marked(st[c]), Cleared(st[c])} : st' = [st EXCEPT ![c] = s]
  BY DEF StopRequest, ClearRequest
<1>2. Marked(st[c]) \in BackoffState /\ WellCharged(Marked(st[c]))
  BY MarkedRecord DEF IInv, TypeOK, BudgetInv
<1>3. Cleared(st[c]) \in BackoffState /\ WellCharged(Cleared(st[c]))
  BY MarkedRecord DEF IInv, TypeOK, BudgetInv
<1>4. \E label \in {"cancel", "start", "restart"} : Goto(r, label)
  BY DEF StopRequest, ClearRequest
<1>5. /\ on' = [on EXCEPT ![r] = c]
      /\ r \in Process /\ r \notin Goroutine /\ pc[r] = "idle"
      /\ UNCHANGED <<pending, delay, cancelled, docker, died>>
  BY DEF StopRequest, ClearRequest, Process
<1>6. st' \in [Container -> BackoffState]
  BY <1>1, <1>2, <1>3 DEF IInv, TypeOK
<1>7. TypeOK'
  BY <1>4, <1>5, <1>6 DEF IInv, TypeOK, Goto, RequestPC
<1>8. BudgetInv'
  BY <1>1, <1>2, <1>3 DEF IInv, TypeOK, BudgetInv
<1>9. PendingInv'
  BY <1>4, <1>5 DEF IInv, TypeOK, PendingInv, Goto
<1> QED BY <1>7, <1>8, <1>9 DEF IInv

\* cancelPending on behalf of a stop.
LEMMA StopCancelsKeeps ==
    ASSUME IInv, NEW r \in Request, StopCancels(r)
    PROVE  IInv'
<1>1. on[r] \in Container /\ r \in Process
  BY DEF IInv, TypeOK, StopCancels, Process
<1>2. CancelPending(on[r])
  BY DEF StopCancels
<1>3. TypeOK'
  BY <1>1, <1>2, CancelKeeps DEF IInv, TypeOK, StopCancels, Goto, RequestPC
<1>4. BudgetInv'
  BY DEF IInv, BudgetInv, StopCancels
<1>5. PendingInv'
  BY <1>1, <1>2, CancelKeeps DEF IInv, TypeOK, PendingInv, StopCancels, Goto, Process, Handler
<1> QED BY <1>3, <1>4, <1>5 DEF IInv

\* The engine call of a request returns.
LEMMA EngineReturnsKeeps ==
    ASSUME IInv, NEW r \in Request, EngineReturns(r)
    PROVE  IInv'
<1>1. on[r] \in Container /\ r \in Process /\ r \notin Goroutine
  BY DEF IInv, TypeOK, EngineReturns, Process
<1>2. Exits(on[r]) \/ Up(on[r]) \/ UNCHANGED <<docker, died>>
  BY DEF EngineReturns
<1>3. TypeOK'
  BY <1>1, <1>2, DaemonTypes DEF IInv, TypeOK, EngineReturns, Goto
<1>4. BudgetInv' /\ PendingInv'
  BY <1>1 DEF IInv, TypeOK, BudgetInv, PendingInv, EngineReturns, Goto
<1> QED BY <1>3, <1>4 DEF IInv

\* The clock.
LEMMA TickKeeps ==
    ASSUME IInv, Tick
    PROVE  IInv'
<1>1. \A c \in Container : Older(st[c]) \in BackoffState /\ WellCharged(Older(st[c]))
  BY OlderRecord DEF IInv, TypeOK, BudgetInv
<1>2. delay' \in [Handler -> 0 .. MaxInterval - 1]
  BY DEF IInv, TypeOK, Tick
<1>3. TypeOK'
  BY <1>1, <1>2 DEF IInv, TypeOK, Tick
<1>4. BudgetInv' /\ PendingInv'
  BY <1>1 DEF IInv, BudgetInv, PendingInv, Tick
<1> QED BY <1>3, <1>4 DEF IInv

----------------------------------------------------------------------------
(* The invariants.                                                         *)

\* Nothing is charged or scheduled at the start (NewSupervisor).
LEMMA InitHolds == Init => IInv
<1> SUFFICES ASSUME Init PROVE IInv
  OBVIOUS
<1>1. TypeOK
  BY FreshRecord DEF Init, TypeOK
<1>2. BudgetInv /\ PendingInv
  BY FreshRecord DEF Init, BudgetInv, PendingInv
<1> QED BY <1>1, <1>2 DEF IInv

\* Every step of every process keeps the inductive invariant.
LEMMA NextKeeps == IInv /\ [Next]_vars => IInv'
<1> SUFFICES ASSUME IInv, [Next]_vars PROVE IInv'
  OBVIOUS
<1>1. ASSUME NEW p \in Handler, HandlerStep(p) PROVE IInv'
  BY <1>1, CheckKeeps, BudgetKeeps, RefusedKeeps, UnscheduleKeeps, RegisterKeeps
  DEF HandlerStep
<1>2. ASSUME NEW g \in Goroutine, GoroutineStep(g) PROVE IInv'
  BY <1>2, GoroutineMovesKeep, RestartsKeep, FinishKeeps
  DEF GoroutineStep, Process, Handler
<1>3. ASSUME NEW c \in Container, TakeDie(c) \/ Outside(c) PROVE IInv'
  BY <1>3, TakeDieKeeps, OutsideKeeps
<1>4. ASSUME NEW r \in Request, RequestStep(r) PROVE IInv'
  BY <1>4, StopCancelsKeeps, RestartsKeep, EngineReturnsKeeps DEF RequestStep, Process
<1>5. ASSUME NEW r \in Request, NEW c \in Container,
             StopRequest(r, c) \/ ClearRequest(r, c)
      PROVE  IInv'
  BY <1>5, RequestsKeep
<1>6. CASE Tick
  BY <1>6, TickKeeps
<1>7. CASE UNCHANGED vars
  BY <1>7 DEF vars, IInv, TypeOK, BudgetInv, PendingInv
<1> QED BY <1>1, <1>2, <1>3, <1>4, <1>5, <1>6, <1>7 DEF Next

\* The inductive invariant holds in every reachable state.
THEOREM Inductive == Spec => []IInv
BY InitHolds, NextKeeps, PTL DEF Spec

\* Every variable keeps its type: attempts never pass MaxAttempts + 1, and a
\* process works on a container exactly while it is not idle.
THEOREM TypeCorrect == Spec => []TypeOK
<1>1. IInv => TypeOK
  BY DEF IInv
<1> QED BY <1>1, Inductive, PTL

\* The backoff record of every container stays one NextDelay can decide from.
THEOREM BudgetSafe == Spec => []BudgetInv
<1>1. IInv => BudgetInv
  BY DEF IInv
<1> QED BY <1>1, Inductive, PTL

\* cancelPending always reaches a goroutine that is still at work.
THEOREM PendingSafe == Spec => []PendingInv
<1>1. IInv => PendingInv
  BY DEF IInv
<1> QED BY <1>1, Inductive, PTL

----------------------------------------------------------------------------
(* What a step may never do.                                               *)

\* The steps that change a record, and how.
LEMMA RecordSteps ==
    ASSUME IInv, [Next]_vars, NEW c \in Container
    PROVE  \/ st'[c] \in {st[c], Older(st[c]), Marked(st[c]), Cleared(st[c])}
           \/ /\ st'[c] = Charged(st[c])
              /\ ~Suppressed(st[c])
<1>1. ASSUME NEW p \in Handler, HandlerStep(p)
      PROVE  \/ st'[c] = st[c]
             \/ st'[c] = Charged(st[c]) /\ ~Suppressed(st[c])
  <2>1. CASE Budget(p)
    BY <2>1 DEF Budget, IInv, TypeOK
  <2>2. CASE ~Budget(p)
    BY <1>1, <2>2 DEF HandlerStep, Check, Refused, Unschedule, Register
  <2> QED BY <2>1, <2>2
<1>2. ASSUME NEW g \in Goroutine, GoroutineStep(g) PROVE st'[c] = st[c]
  BY <1>2 DEF GoroutineStep, Abandon, Fire, Call, RestartKills, RestartDone,
              RestartFails, Finish
<1>3. ASSUME NEW d \in Container, TakeDie(d) \/ Outside(d) PROVE st'[c] = st[c]
  BY <1>3 DEF TakeDie, Outside
<1>4. ASSUME NEW r \in Request, RequestStep(r) PROVE st'[c] = st[c]
  BY <1>4 DEF RequestStep, StopCancels, RestartKills, EngineReturns
<1>5. ASSUME NEW r \in Request, NEW d \in Container,
             StopRequest(r, d) \/ ClearRequest(r, d)
      PROVE  st'[c] \in {st[c], Marked(st[c]), Cleared(st[c])}
  BY <1>5 DEF StopRequest, ClearRequest, IInv, TypeOK
<1>6. CASE Tick
  BY <1>6 DEF Tick
<1>7. CASE UNCHANGED vars
  BY <1>7 DEF vars
<1> QED BY <1>1, <1>2, <1>3, <1>4, <1>5, <1>6, <1>7 DEF Next

\* A stop that has set its mark freezes the budget, whatever a handler that
\* read the record before the mark goes on to do.
THEOREM IntentFreezes == Spec => IntentFreezesBudget
<1>1. ASSUME IInv, [Next]_vars, NEW c \in Container, st[c].intentional
      PROVE  st'[c].attempts = st[c].attempts /\ st'[c].exhausted = st[c].exhausted
  <2>1. ~(~Suppressed(st[c]))
    BY <1>1 DEF Suppressed
  <2>2. st[c] \in BackoffState /\ WellCharged(st[c])
    BY <1>1 DEF IInv, TypeOK, BudgetInv
  <2>3. st'[c] \in {st[c], Older(st[c]), Marked(st[c]), Cleared(st[c])}
    BY <1>1, <2>1, RecordSteps
  <2> QED BY <2>2, <2>3, OlderRecord DEF Marked, Cleared, BackoffState
<1>2. IInv /\ [Next]_vars =>
        [\A c \in Container : st[c].intentional =>
            /\ st'[c].attempts = st[c].attempts
            /\ st'[c].exhausted = st[c].exhausted]_vars
  BY <1>1
<1> QED BY <1>2, Inductive, PTL DEF Spec, IntentFreezesBudget

\* A committed process of an exhausted container goes on, stops, or hands its
\* commitment to the goroutine it starts.
LEMMA CommittedSteps ==
    ASSUME IInv, [Next]_vars, NEW c \in Container, st[c].exhausted
    PROVE  \/ Committed(c)' \subseteq Committed(c)
           \/ \E p \in Committed(c) : \E g \in Handler :
                 /\ g \notin Committed(c)
                 /\ Committed(c)' \subseteq (Committed(c) \ {p}) \cup {g}
<1>1. ASSUME NEW p \in Handler, HandlerStep(p)
      PROVE  \/ Committed(c)' \subseteq Committed(c)
             \/ \E q \in Committed(c) : \E g \in Handler :
                   /\ g \notin Committed(c)
                   /\ Committed(c)' \subseteq (Committed(c) \ {q}) \cup {g}
  <2>1. CASE Check(p)
    BY <2>1 DEF Check, Return, Goto, Committed, IInv, TypeOK, Process
  <2>2. CASE Budget(p)
    <3>1. CASE on[p] = c
      <4>1. Refuse(p)
        BY <2>2, <3>1 DEF Budget, Suppressed
      <4> QED BY <2>2, <4>1 DEF Budget, Refuse, Goto, Committed, IInv, TypeOK, Process
    <3>2. CASE on[p] # c
      BY <2>2, <3>2
      DEF Budget, Refuse, Grant, Goto, Committed, IInv, TypeOK, Process
    <3> QED BY <3>1, <3>2
  <2>3. CASE Refused(p)
    BY <2>3 DEF Refused, Return, Committed, IInv, TypeOK, Process
  <2>4. CASE Unschedule(p)
    BY <2>4 DEF Unschedule, Goto, Committed, IInv, TypeOK, Process
  <2>5. ASSUME NEW g \in Goroutine, Register(p, g)
        PROVE  \/ Committed(c)' \subseteq Committed(c)
               \/ \E q \in Committed(c) : \E h \in Handler :
                     /\ h \notin Committed(c)
                     /\ Committed(c)' \subseteq (Committed(c) \ {q}) \cup {h}
    <3>1. g # p /\ g \in Handler /\ g \notin Committed(c)
      BY <2>5 DEF Register, Handler, Committed
    <3>2. \A q \in Handler \ {p, g} : on'[q] = on[q] /\ pc'[q] = pc[q]
      BY <2>5 DEF Register, IInv, TypeOK, Process
    <3>3. /\ pc'[p] \in {"idle", "done"}
          /\ on'[g] = on[p]
      BY <2>5, <3>1 DEF Register, IInv, TypeOK, Process
    <3>4. CASE on[p] = c
      <4>1. p \in Committed(c)
        BY <2>5, <3>4 DEF Register, Committed
      <4>2. Committed(c)' \subseteq (Committed(c) \ {p}) \cup {g}
        BY <3>2, <3>3 DEF Committed
      <4> QED BY <3>1, <4>1, <4>2
    <3>5. CASE on[p] # c
      BY <3>2, <3>3, <3>5 DEF Committed
    <3> QED BY <3>4, <3>5
  <2> QED BY <1>1, <2>1, <2>2, <2>3, <2>4, <2>5 DEF HandlerStep
<1>2. ASSUME NEW g \in Goroutine, GoroutineStep(g)
      PROVE  Committed(c)' \subseteq Committed(c)
  BY <1>2 DEF GoroutineStep, Abandon, Fire, Call, RestartKills, RestartDone,
              RestartFails, Finish, Goto, Committed, IInv, TypeOK, Process
<1>3. ASSUME NEW d \in Container, TakeDie(d) \/ Outside(d)
      PROVE  Committed(c)' \subseteq Committed(c)
  BY <1>3 DEF TakeDie, Outside, Goto, Committed, IInv, TypeOK, Process
<1>4. ASSUME NEW r \in Request, RequestStep(r)
      PROVE  Committed(c)' \subseteq Committed(c)
  BY <1>4 DEF RequestStep, StopCancels, RestartKills, EngineReturns, Goto,
              Committed, IInv, TypeOK, Process, Handler
<1>5. ASSUME NEW r \in Request, NEW d \in Container,
             StopRequest(r, d) \/ ClearRequest(r, d)
      PROVE  Committed(c)' \subseteq Committed(c)
  BY <1>5 DEF StopRequest, ClearRequest, Goto, Committed, IInv, TypeOK, Process, Handler
<1>6. CASE Tick
  BY <1>6 DEF Tick, Committed
<1>7. CASE UNCHANGED vars
  BY <1>7 DEF vars, Committed
<1> QED BY <1>1, <1>2, <1>3, <1>4, <1>5, <1>6, <1>7 DEF Next

\* A set that loses one element for each it gains does not grow.
LEMMA SwapDoesNotGrow ==
    ASSUME NEW S, IsFiniteSet(S), NEW T, NEW p \in S, NEW g, g \notin S,
           T \subseteq (S \ {p}) \cup {g}
    PROVE  Cardinality(T) <= Cardinality(S)
<1> DEFINE R == S \ {p}
<1>1. /\ IsFiniteSet(R)
      /\ Cardinality(R) = Cardinality(S) - 1
      /\ Cardinality(S) \in Nat
  BY FS_RemoveElement, FS_CardinalityType
<1>2. g \notin R /\ T \in SUBSET (R \cup {g})
  OBVIOUS
<1> HIDE DEF R
<1>3. /\ IsFiniteSet(R \cup {g})
      /\ Cardinality(R \cup {g}) = Cardinality(R) + 1
  BY <1>1, <1>2, FS_AddElement
<1>4. Cardinality(T) <= Cardinality(R \cup {g})
  BY <1>2, <1>3, FS_Subset
<1> QED BY <1>1, <1>3, <1>4

\* After exhaustion the restarts already granted are all there is: no
\* interleaving of handlers, goroutines and requests adds one.
THEOREM ExhaustionDrains == Spec => ExhaustedDrains
<1>1. \A c : IsFiniteSet(Committed(c))
  <2>1. IsFiniteSet(Handler)
    BY FS_Singleton, FS_Union DEF Handler
  <2>2. \A c : Committed(c) \subseteq Handler
    BY DEF Committed
  <2> QED BY <2>1, <2>2, FS_Subset
<1>2. ASSUME IInv, [Next]_vars, NEW c \in Container, st[c].exhausted
      PROVE  Cardinality(Committed(c)') <= Cardinality(Committed(c))
  <2>1. CASE Committed(c)' \subseteq Committed(c)
    BY <1>1, <2>1, FS_Subset
  <2>2. CASE \E p \in Committed(c) : \E g \in Handler :
                 /\ g \notin Committed(c)
                 /\ Committed(c)' \subseteq (Committed(c) \ {p}) \cup {g}
    <3> DEFINE S == Committed(c)
               T == Committed(c)'
    <3>1. PICK p \in S, g \in Handler : g \notin S /\ T \subseteq (S \ {p}) \cup {g}
      BY <2>2
    <3>2. IsFiniteSet(S)
      BY <1>1
    <3> HIDE DEF S, T
    <3>3. Cardinality(T) <= Cardinality(S)
      BY <3>1, <3>2, SwapDoesNotGrow
    <3> QED BY <3>3 DEF S, T
  <2> QED BY <1>2, <2>1, <2>2, CommittedSteps
<1>3. IInv /\ [Next]_vars =>
        [\A c \in Container : st[c].exhausted =>
            Cardinality(Committed(c)') <= Cardinality(Committed(c))]_vars
  BY <1>2
<1> QED BY <1>3, Inductive, PTL DEF Spec, ExhaustedDrains

----------------------------------------------------------------------------
(* The supervisor keeps a RestartBudget for every container.               *)

\* The counts the account is made of move by one.
LEMMA Counting ==
    ASSUME NEW S, IsFiniteSet(S), NEW p
    PROVE  /\ Cardinality(S) \in Nat
           /\ p \notin S => Cardinality(S \cup {p}) = Cardinality(S) + 1
           /\ p \in S => /\ Cardinality(S) > 0
                         /\ Cardinality(S \ {p}) = Cardinality(S) - 1
<1>1. Cardinality(S) \in Nat
  BY FS_CardinalityType
<1>2. p \notin S => Cardinality(S \cup {p}) = Cardinality(S) + 1
  BY FS_AddElement
<1>3. ASSUME p \in S
      PROVE  Cardinality(S) > 0 /\ Cardinality(S \ {p}) = Cardinality(S) - 1
  <2> DEFINE R == S \ {p}
  <2>1. IsFiniteSet(R) /\ Cardinality(R) = Cardinality(S) - 1
    BY <1>3, FS_RemoveElement
  <2>2. Cardinality(R) \in Nat
    BY <2>1, FS_CardinalityType
  <2> HIDE DEF R
  <2>3. Cardinality(S) > 0
    BY <1>1, <2>1, <2>2
  <2> QED BY <2>1, <2>3 DEF R
<1> QED BY <1>1, <1>2, <1>3

\* Replacing an element keeps the count.
LEMMA Swapping ==
    ASSUME NEW S, IsFiniteSet(S), NEW p \in S, NEW g, g \notin S
    PROVE  Cardinality((S \ {p}) \cup {g}) = Cardinality(S)
<1> DEFINE R == S \ {p}
<1>1. IsFiniteSet(R) /\ Cardinality(R) = Cardinality(S) - 1
  BY FS_RemoveElement
<1>2. g \notin R /\ Cardinality(S) \in Nat
  BY FS_CardinalityType
<1> HIDE DEF R
<1>3. Cardinality(R \cup {g}) = Cardinality(R) + 1
  BY <1>1, <1>2, FS_AddElement
<1>4. Cardinality(R \cup {g}) = Cardinality(S)
  BY <1>1, <1>2, <1>3
<1> QED BY <1>4 DEF R

\* Only goroutines that exist, and the watcher, can hold an attempt.
LEMMA HoldersFinite ==
    ASSUME NEW c
    PROVE  IsFiniteSet(Granted(c)) /\ IsFiniteSet(Calling(c))
<1>1. IsFiniteSet(Handler)
  BY FS_Singleton, FS_Union DEF Handler
<1>2. Granted(c) \subseteq Handler /\ Calling(c) \subseteq Handler
  BY DEF Granted, Calling, Handler
<1> QED BY <1>1, <1>2, FS_Subset

\* What the account says of the record of a container.
SameRecord(c) ==
    /\ st'[c].attempts = st[c].attempts
    /\ st'[c].exhausted = st[c].exhausted
    /\ st'[c].intentional = st[c].intentional
    /\ Stable(st[c])' = Stable(st[c])

SameHolders(c) == Granted(c)' = Granted(c) /\ Calling(c)' = Calling(c)

\* A step that moves neither the record nor a holder is none of the account.
LEMMA NothingMoves ==
    ASSUME NEW c \in Container, SameRecord(c), SameHolders(c)
    PROVE  [Account(c)!Next]_(Account(c)!vars)
BY DEF Account!vars, SameRecord, SameHolders

\* A record that is the old one is the same to the account.
LEMMA RecordStays ==
    ASSUME NEW c \in Container, st'[c] = st[c]
    PROVE  SameRecord(c)
BY DEF SameRecord, Stable

\* HandleContainerExit outside its charge: the refusals, the cancelled
\* predecessor and the goroutine that takes the attempt over.
LEMMA HandlerKeepsAccount ==
    ASSUME IInv, NEW c \in Container, NEW p \in Handler,
           Check(p) \/ Refused(p) \/ Unschedule(p) \/ \E g \in Goroutine : Register(p, g)
    PROVE  [Account(c)!Next]_(Account(c)!vars)
<1>1. SameRecord(c)
  BY RecordStays DEF Check, Refused, Unschedule, Register
<1>2. CASE Check(p)
  <2>1. SameHolders(c)
    BY <1>2 DEF SameHolders, Granted, Calling, Check, Return, Goto, IInv, TypeOK, Process, Handler
  <2> QED BY <1>1, <2>1, NothingMoves
<1>3. CASE Refused(p)
  <2>1. SameHolders(c)
    BY <1>3 DEF SameHolders, Granted, Calling, Refused, Return, IInv, TypeOK, Process, Handler
  <2> QED BY <1>1, <2>1, NothingMoves
<1>4. CASE Unschedule(p)
  <2>1. SameHolders(c)
    BY <1>4 DEF SameHolders, Granted, Calling, Unschedule, Goto, IInv, TypeOK, Process, Handler
  <2> QED BY <1>1, <2>1, NothingMoves
<1>5. ASSUME NEW g \in Goroutine, Register(p, g)
      PROVE  [Account(c)!Next]_(Account(c)!vars)
  <2>1. g # p /\ g \in Handler /\ g \notin Granted(c) /\ g # Watcher
    BY <1>5 DEF Register, Handler, Granted
  <2>2. \A q \in Handler \ {p, g} : on'[q] = on[q] /\ pc'[q] = pc[q]
    BY <1>5 DEF Register, IInv, TypeOK, Process
  <2>3. /\ pc[p] = "register" /\ pc[g] = "idle"
        /\ pc'[p] \in {"idle", "done"} /\ pc'[g] = "waiting"
        /\ on'[g] = on[p]
    BY <1>5, <2>1 DEF Register, IInv, TypeOK, Process
  <2>4. Calling(c)' = Calling(c)
    BY <2>2, <2>3 DEF Calling, Handler
  <2>5. CASE on[p] = c
    <3>1. p \in Granted(c)
      BY <2>3, <2>5 DEF Granted
    <3>2. Granted(c)' = (Granted(c) \ {p}) \cup {g}
      BY <2>1, <2>2, <2>3, <2>5 DEF Granted
    <3>3. Cardinality(Granted(c)') = Cardinality(Granted(c))
      BY <2>1, <3>1, <3>2, HoldersFinite, Swapping
    <3> QED BY <1>1, <2>4, <3>3 DEF Account!vars, SameRecord
  <2>6. CASE on[p] # c
    <3>1. Granted(c)' = Granted(c)
      BY <2>1, <2>2, <2>3, <2>6 DEF Granted
    <3> QED BY <1>1, <2>4, <3>1, NothingMoves DEF SameHolders
  <2> QED BY <2>5, <2>6
<1> QED BY <1>2, <1>3, <1>4, <1>5

\* What NextDelay's charge does to a record: it grants an attempt that is
\* left, counted from zero after a calm, or it closes the account.
LEMMA ChargeAsAccount ==
    ASSUME NEW s \in BackoffState, WellCharged(s), ~Suppressed(s)
    PROVE  LET t == Charged(s)
               used == IF Stable(s) THEN 0 ELSE s.attempts
           IN  /\ t.attempts = used + 1
               /\ t.intentional = s.intentional
               /\ \/ used < MaxAttempts /\ ~t.exhausted /\ ~Stable(t)
                  \/ used = MaxAttempts /\ t.exhausted /\ Stable(t) = Stable(s)
<1>1. s.attempts \in 0 .. MaxAttempts /\ ~s.exhausted /\ s.age \in Never .. StabilityThreshold
  BY DEF BackoffState, WellCharged, Suppressed
<1>2. CASE Stable(s)
  BY <1>1, <1>2 DEF Charged, Refreshed, Counted, Stable, BackoffState, Never
<1>3. CASE ~Stable(s)
  BY <1>1, <1>3 DEF Charged, Refreshed, Counted, Stable, BackoffState, Never
<1> QED BY <1>2, <1>3

\* NextDelay is Grant or Close, or nothing for a record that is frozen or
\* closed, whatever happened since the handler looked.
LEMMA BudgetKeepsAccount ==
    ASSUME IInv, NEW c \in Container, NEW p \in Handler, Budget(p)
    PROVE  [Account(c)!Next]_(Account(c)!vars)
<1>1. /\ st[c] \in BackoffState /\ WellCharged(st[c])
      /\ p \in Process /\ pc[p] = "budget"
      /\ on' = on
      /\ \A q \in Handler \ {p} : pc'[q] = pc[q]
  BY DEF IInv, TypeOK, BudgetInv, Budget, Refuse, Grant, Goto, Process, Handler
<1>2. pc'[p] \in {"refused", "unschedule"}
  BY DEF Budget, Refuse, Grant, Goto, IInv, TypeOK, Process, Handler
<1>3. Calling(c)' = Calling(c)
  BY <1>1, <1>2 DEF Calling, Handler
<1>4. CASE on[p] # c
  <2>1. Granted(c)' = Granted(c)
    BY <1>1, <1>2, <1>4 DEF Granted
  <2>2. st'[c] = st[c]
    BY <1>4 DEF Budget, IInv, TypeOK
  <2> QED BY <1>3, <2>1, <2>2, RecordStays, NothingMoves DEF SameHolders
<1>5. CASE on[p] = c /\ Suppressed(st[c])
  <2>1. pc'[p] = "refused" /\ st'[c] = st[c]
    BY <1>5 DEF Budget, Refuse, Goto, IInv, TypeOK, Process, Handler
  <2>2. Granted(c)' = Granted(c)
    BY <1>1, <2>1 DEF Granted
  <2> QED BY <1>3, <2>1, <2>2, RecordStays, NothingMoves DEF SameHolders
<1>6. CASE on[p] = c /\ ~Suppressed(st[c])
  <2> DEFINE s == st[c]
             t == Charged(s)
             used == IF Stable(s) THEN 0 ELSE s.attempts
  <2>1. st'[c] = t
    BY <1>6 DEF Budget, IInv, TypeOK
  <2>2. /\ t.attempts = used + 1
        /\ t.intentional = s.intentional
        /\ \/ used < MaxAttempts /\ ~t.exhausted /\ ~Stable(t)
           \/ used = MaxAttempts /\ t.exhausted /\ Stable(t) = Stable(s)
    BY <1>1, <1>6, ChargeAsAccount
  <2>3. ~s.intentional /\ ~s.exhausted
    BY <1>6 DEF Suppressed
  <2>4. t \in BackoffState
    BY <1>1, <1>6, ChargedRecord
  <2>5. CASE ~t.exhausted
    <3>1. pc'[p] = "unschedule"
      BY <1>6, <2>5 DEF Budget, Grant, Goto, IInv, TypeOK, Process, Handler
    <3>2. p \notin Granted(c) /\ Granted(c)' = Granted(c) \cup {p}
      BY <1>1, <1>6, <3>1 DEF Granted
    <3>3. Cardinality(Granted(c)') = Cardinality(Granted(c)) + 1
      BY <3>2, HoldersFinite, Counting
    <3>4. st'[c].exhausted = s.exhausted
      BY <1>1, <2>1, <2>3, <2>4, <2>5 DEF BackoffState
    <3>5. Stable(st[c])' = FALSE
      BY <2>1, <2>2, <2>5 DEF Stable
    <3>6. Account(c)!Grant
      BY <1>3, <2>1, <2>2, <2>3, <2>5, <3>3, <3>4, <3>5 DEF Account!Grant, Account!Used
    <3> QED BY <3>6 DEF Account!Next
  <2>6. CASE t.exhausted
    <3>1. pc'[p] = "refused"
      BY <1>6, <2>6 DEF Budget, Refuse, Goto, IInv, TypeOK, Process, Handler
    <3>2. Granted(c)' = Granted(c)
      BY <1>1, <3>1 DEF Granted
    <3>3. Stable(st[c])' = Stable(st[c])
      BY <2>1, <2>2, <2>6 DEF Stable
    <3>4. st'[c].exhausted = TRUE
      BY <2>1, <2>4, <2>6 DEF BackoffState
    <3>5. Account(c)!Close
      BY <1>3, <2>1, <2>2, <2>3, <2>6, <3>2, <3>3, <3>4 DEF Account!Close, Account!Used
    <3> QED BY <3>5 DEF Account!Next
  <2> QED BY <2>5, <2>6
<1> QED BY <1>4, <1>5, <1>6

\* The select of a goroutine and its call: an attempt ends without a call, or
\* with one.
LEMMA GoroutineKeepsAccount ==
    ASSUME IInv, NEW c \in Container, NEW g \in Goroutine, GoroutineStep(g)
    PROVE  [Account(c)!Next]_(Account(c)!vars)
<1>1. /\ SameRecord(c)
      /\ g \in Handler /\ g \in Process /\ on[g] \in Container \cup {None}
  BY RecordStays
  DEF GoroutineStep, Abandon, Fire, Call, RestartKills, RestartDone, RestartFails, Finish,
      IInv, TypeOK, Process, Handler
<1>2. ASSUME NEW label, Goto(g, label), on' = on
      PROVE  /\ on'[g] = on[g] /\ pc'[g] = label
             /\ \A q \in Handler \ {g} : on'[q] = on[q] /\ pc'[q] = pc[q]
  BY <1>1, <1>2 DEF Goto, IInv, TypeOK, Process
<1>3. CASE Abandon(g)
  <2>1. /\ pc[g] = "waiting" /\ pc'[g] = "done" /\ on'[g] = on[g]
        /\ \A q \in Handler \ {g} : on'[q] = on[q] /\ pc'[q] = pc[q]
    BY <1>2, <1>3 DEF Abandon
  <2>2. Calling(c)' = Calling(c)
    BY <2>1 DEF Calling, Handler
  <2>3. CASE on[g] = c
    <3>1. g \in Granted(c) /\ Granted(c)' = Granted(c) \ {g}
      BY <1>1, <2>1, <2>3 DEF Granted
    <3>2. Account(c)!Begin
      BY <1>1, <2>2, <3>1, HoldersFinite, Counting DEF Account!Begin, SameRecord
    <3> QED BY <3>2 DEF Account!Next
  <2>4. CASE on[g] # c
    <3>1. Granted(c)' = Granted(c)
      BY <2>1, <2>4 DEF Granted
    <3> QED BY <1>1, <2>2, <3>1, NothingMoves DEF SameHolders
  <2> QED BY <2>3, <2>4
<1>4. CASE Call(g)
  <2>1. /\ pc[g] = "calling" /\ pc'[g] \in {"check", "inflight"} /\ on'[g] = on[g]
        /\ \A q \in Handler \ {g} : on'[q] = on[q] /\ pc'[q] = pc[q]
    BY <1>2, <1>4 DEF Call
  <2>2. CASE on[g] # c
    <3>1. SameHolders(c)
      BY <2>1, <2>2 DEF SameHolders, Granted, Calling, Handler
    <3> QED BY <1>1, <3>1, NothingMoves
  <2>3. CASE on[g] = c
    <3>1. g \in Granted(c) /\ g \notin Calling(c) /\ Granted(c)' = Granted(c) \ {g}
      BY <1>1, <2>1, <2>3 DEF Granted, Calling
    <3>2. Calling(c)' = Calling(c) \/ Calling(c)' = Calling(c) \cup {g}
      BY <2>1, <2>3 DEF Calling, Handler
    <3>3. Cardinality(Calling(c)') \in {Cardinality(Calling(c)), Cardinality(Calling(c)) + 1}
      BY <3>1, <3>2, HoldersFinite, Counting
    <3>4. Account(c)!Begin
      BY <1>1, <3>1, <3>3, HoldersFinite, Counting DEF Account!Begin, SameRecord
    <3> QED BY <3>4 DEF Account!Next
  <2> QED BY <2>2, <2>3
<1>5. CASE RestartDone(g) \/ RestartFails(g)
  <2>1. /\ pc[g] \in {"inflight", "starting"} /\ pc'[g] \in {"done", "check"} /\ on'[g] = on[g]
        /\ \A q \in Handler \ {g} : on'[q] = on[q] /\ pc'[q] = pc[q]
    BY <1>2, <1>5 DEF RestartDone, RestartFails
  <2>2. Granted(c)' = Granted(c)
    BY <2>1 DEF Granted
  <2>3. CASE on[g] # c
    <3>1. Calling(c)' = Calling(c)
      BY <2>1, <2>3 DEF Calling, Handler
    <3> QED BY <1>1, <2>2, <3>1, NothingMoves DEF SameHolders
  <2>4. CASE on[g] = c
    <3>1. g \in Calling(c) /\ Calling(c)' = Calling(c) \ {g}
      BY <2>1, <2>4 DEF Calling, Handler
    <3>2. Account(c)!End
      BY <1>1, <2>2, <3>1, HoldersFinite, Counting DEF Account!End, SameRecord
    <3> QED BY <3>2 DEF Account!Next
  <2> QED BY <2>3, <2>4
<1>6. CASE Fire(g) \/ RestartKills(g, "inflight")
  <2>1. /\ \/ pc[g] = "waiting" /\ pc'[g] = "calling"
           \/ pc[g] = "inflight" /\ pc'[g] = "starting"
        /\ on'[g] = on[g]
        /\ \A q \in Handler \ {g} : on'[q] = on[q] /\ pc'[q] = pc[q]
    BY <1>2, <1>6 DEF Fire, RestartKills
  <2>2. SameHolders(c)
    BY <2>1 DEF SameHolders, Granted, Calling, Handler
  <2> QED BY <1>1, <2>2, NothingMoves
<1>7. CASE Finish(g)
  <2>1. /\ pc[g] = "done" /\ pc'[g] = "idle"
        /\ \A q \in Handler \ {g} : on'[q] = on[q] /\ pc'[q] = pc[q]
    BY <1>1, <1>7 DEF Finish, IInv, TypeOK, Process
  <2>2. SameHolders(c)
    BY <2>1 DEF SameHolders, Granted, Calling, Handler
  <2> QED BY <1>1, <2>2, NothingMoves
<1> QED BY <1>3, <1>4, <1>5, <1>6, <1>7 DEF GoroutineStep

\* The watcher, the daemon and the requests hold no attempt; a request may
\* set or remove the mark.
LEMMA OthersKeepAccount ==
    ASSUME IInv, NEW c \in Container,
           \/ \E d \in Container : TakeDie(d) \/ Outside(d)
           \/ \E r \in Request : RequestStep(r)
           \/ \E r \in Request, d \in Container : StopRequest(r, d) \/ ClearRequest(r, d)
    PROVE  [Account(c)!Next]_(Account(c)!vars)
<1>1. ASSUME NEW d \in Container, TakeDie(d) \/ Outside(d)
      PROVE  [Account(c)!Next]_(Account(c)!vars)
  <2>1. SameRecord(c)
    BY <1>1, RecordStays DEF TakeDie, Outside
  <2>2. SameHolders(c)
    BY <1>1 DEF SameHolders, Granted, Calling, TakeDie, Outside, Goto, IInv, TypeOK,
                Process, Handler
  <2> QED BY <2>1, <2>2, NothingMoves
<1>2. ASSUME NEW r \in Request,
             \/ RequestStep(r)
             \/ \E d \in Container : StopRequest(r, d) \/ ClearRequest(r, d)
      PROVE  SameHolders(c)
  <2>1. r \notin Handler
    BY DEF Handler
  <2>2. \A q \in Handler : pc'[q] = pc[q] /\ on'[q] = on[q]
    BY <1>2, <2>1 DEF RequestStep, StopCancels, RestartKills, EngineReturns, StopRequest,
                      ClearRequest, Goto, IInv, TypeOK, Process
  <2> QED BY <2>2 DEF SameHolders, Granted, Calling, Handler
<1>3. ASSUME NEW r \in Request, RequestStep(r)
      PROVE  [Account(c)!Next]_(Account(c)!vars)
  <2>1. SameRecord(c)
    BY <1>3, RecordStays DEF RequestStep, StopCancels, RestartKills, EngineReturns
  <2> QED BY <1>2, <1>3, <2>1, NothingMoves
<1>4. ASSUME NEW r \in Request, NEW d \in Container, StopRequest(r, d) \/ ClearRequest(r, d)
      PROVE  [Account(c)!Next]_(Account(c)!vars)
  <2>1. SameHolders(c)
    BY <1>2, <1>4
  <2>2. st'[c] \in {st[c], Marked(st[c]), Cleared(st[c])}
    BY <1>4 DEF StopRequest, ClearRequest, IInv, TypeOK
  <2>3. st[c] \in BackoffState
    BY DEF IInv, TypeOK
  <2>4. /\ st'[c].attempts = st[c].attempts
        /\ st'[c].exhausted = st[c].exhausted
        /\ st'[c].age = st[c].age
        /\ st'[c].intentional \in BOOLEAN
    BY <2>2, <2>3 DEF Marked, Cleared, BackoffState
  <2>5. Stable(st[c])' = Stable(st[c])
    BY <2>4 DEF Stable
  <2>6. Account(c)!Marked
    BY <2>1, <2>4, <2>5 DEF Account!Marked, SameHolders
  <2> QED BY <2>6 DEF Account!Next
<1> QED BY <1>1, <1>3, <1>4

\* The clock only ever makes a container calm.
LEMMA TickKeepsAccount ==
    ASSUME IInv, NEW c \in Container, Tick
    PROVE  [Account(c)!Next]_(Account(c)!vars)
<1>1. SameHolders(c)
  BY DEF Tick, SameHolders, Granted, Calling
<1>2. st[c] \in BackoffState /\ WellCharged(st[c]) /\ st'[c] = Older(st[c])
  BY DEF Tick, IInv, TypeOK, BudgetInv
<1>3. /\ st'[c].attempts = st[c].attempts
      /\ st'[c].exhausted = st[c].exhausted
      /\ st'[c].intentional = st[c].intentional
  BY <1>2, OlderRecord
<1>4. Stable(st[c])' = Stable(st[c]) \/ Stable(st[c])' = TRUE
  BY <1>2 DEF Stable, Older, BackoffState, Never
<1>5. CASE Stable(st[c])' = Stable(st[c])
  BY <1>1, <1>3, <1>5, NothingMoves DEF SameRecord
<1>6. CASE Stable(st[c])' = TRUE
  <2>1. Account(c)!Calms
    BY <1>1, <1>3, <1>6 DEF Account!Calms, SameHolders
  <2> QED BY <2>1 DEF Account!Next
<1> QED BY <1>4, <1>5, <1>6

\* At the start nothing is charged and nobody holds an attempt.
LEMMA AccountOpens ==
    ASSUME Init, NEW c \in Container
    PROVE  Account(c)!Init
<1>1. st[c] = Fresh
  BY DEF Init
<1>2. /\ st[c].attempts = 0 /\ ~st[c].exhausted /\ ~st[c].intentional
      /\ ~Stable(st[c])
  BY <1>1 DEF Fresh, Stable, Never
<1>3. Granted(c) = {} /\ Calling(c) = {}
  BY DEF Init, Granted, Calling, Process, Handler
<1> QED BY <1>2, <1>3, FS_EmptySet DEF Account!Init

\* The restarts of every container are kept by a RestartBudget: each call was
\* charged for, once, and no charge goes beyond the limit, past a stop or to a
\* container whose attempts are used up, however processes interleave.
THEOREM KeepsEveryAccount == Spec => KeepsAccounts
<1>1. Init => \A c \in Container : Account(c)!Init
  BY AccountOpens
<1>2. ASSUME IInv, [Next]_vars, NEW c \in Container
      PROVE  [Account(c)!Next]_(Account(c)!vars)
  <2>1. CASE UNCHANGED vars
    <3>1. SameRecord(c) /\ SameHolders(c)
      BY <2>1 DEF vars, SameRecord, SameHolders, Granted, Calling, Stable
    <3> QED BY <3>1, NothingMoves
  <2> QED BY <1>2, <2>1, HandlerKeepsAccount, BudgetKeepsAccount, GoroutineKeepsAccount,
             OthersKeepAccount, TickKeepsAccount
          DEF Next, HandlerStep
<1>3. IInv /\ [Next]_vars => [\A c \in Container : [Account(c)!Next]_(Account(c)!vars)]_vars
  BY <1>2
<1> QED BY <1>1, <1>3, Inductive, PTL DEF Spec, KeepsAccounts
=============================================================================
