------------------------------- MODULE Backoff -------------------------------
(***************************************************************************)
(* The restart budget of one container: internal/supervisor/backoff.go.    *)
(*                                                                         *)
(* BackoffManager keeps one ContainerBackoffState per container and every  *)
(* method runs under its mutex, so each method is one operator from the    *)
(* old record to the new one.  A container without an entry in bm.states   *)
(* behaves as one whose record is Fresh: every method creates the zero     *)
(* record or reads it as one.                                              *)
(*                                                                         *)
(* LastRestartAt is kept as its age in clock ticks.  The code only asks    *)
(* whether it is the zero time and whether it is at least                  *)
(* StabilityThreshold old, so the age stops growing there.                 *)
(***************************************************************************)
EXTENDS Integers

CONSTANTS
    BaseInterval,        \* BackoffConfig.BaseInterval, in ticks
    MaxInterval,         \* BackoffConfig.MaxInterval, in ticks
    MaxAttempts,         \* BackoffConfig.MaxAttempts
    StabilityThreshold   \* BackoffConfig.StabilityThreshold, in ticks

ASSUME BackoffAssumption ==
    /\ BaseInterval \in Nat \ {0}
    /\ MaxInterval \in Nat \ {0}
    /\ MaxAttempts \in Nat
    /\ StabilityThreshold \in Nat \ {0}

Never == -1              \* the age of a zero LastRestartAt

BackoffState ==
    [attempts    : 0 .. MaxAttempts + 1,
     age         : Never .. StabilityThreshold,
     exhausted   : BOOLEAN,
     intentional : BOOLEAN]

Fresh == [attempts |-> 0, age |-> Never, exhausted |-> FALSE, intentional |-> FALSE]

Marked(s)  == [s EXCEPT !.intentional = TRUE]
Cleared(s) == [s EXCEPT !.intentional = FALSE]

----------------------------------------------------------------------------
(* NextDelay: two early returns, then the charge.  A definition named for  *)
(* what it forgets is a faulty variant of the one that follows it.         *)

SuppressedForgetsIntent(s)     == s.exhausted
SuppressedForgetsExhaustion(s) == s.intentional
Suppressed(s) == s.intentional \/ s.exhausted

Stable(s) == s.age # Never /\ s.age >= StabilityThreshold

Counted(s, n, when, used) ==
    [attempts |-> n, age |-> when, exhausted |-> used, intentional |-> s.intentional]

Refreshed(s) == IF Stable(s) THEN Counted(s, 0, s.age, FALSE) ELSE s

ChargedOneEarly(s) ==
    LET n == Refreshed(s).attempts + 1
    IN  IF n >= MaxAttempts THEN Counted(s, n, s.age, TRUE) ELSE Counted(s, n, 0, FALSE)
Charged(s) ==
    LET r == Refreshed(s)
        n == r.attempts + 1
    IN  IF n > MaxAttempts
        THEN Counted(s, n, r.age, TRUE)
        ELSE Counted(s, n, 0, r.exhausted)

RawDelay(n) ==
    LET doubled == 2 ^ (n - 1) * BaseInterval
    IN  IF doubled > MaxInterval THEN MaxInterval ELSE doubled

\* rawDelay scaled by a random factor in [0, 1), in whole ticks.
Delays(n) == {d \in 0 .. MaxInterval - 1 : d < RawDelay(n)}

----------------------------------------------------------------------------
(* The clock: one tick older, up to the only threshold anybody reads.      *)

Older(s) ==
    IF s.age \in 0 .. StabilityThreshold - 1 THEN [s EXCEPT !.age = @ + 1] ELSE s

\* A record NextDelay can decide from: it is exhausted exactly when one attempt
\* more than MaxAttempts was charged, and a charged attempt left its time.
WellCharged(s) ==
    /\ s.exhausted <=> s.attempts = MaxAttempts + 1
    /\ s.attempts \in 1 .. MaxAttempts => s.age # Never
=============================================================================
