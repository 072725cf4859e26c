---------------------------- MODULE RestartBudget ----------------------------
(***************************************************************************)
(* What the supervisor promises of one container, with no goroutine, no    *)
(* lock, no map and no clock in it: an account of restart attempts.  A     *)
(* restart of the container is called only against an attempt that was     *)
(* charged, each attempt pays for one call at most, attempts are charged   *)
(* up to the limit, and only to a container that no user stopped and that  *)
(* has not used them up.  Nothing but a calm gives attempts back.          *)
(***************************************************************************)
EXTENDS Integers

CONSTANT MaxAttempts

VARIABLES
    spent,      \* attempts charged since the container was calm
    closed,     \* they are used up, for good
    frozen,     \* a user stopped the container
    calm,       \* the last attempt was charged long ago
    granted,    \* attempts charged that have not led to a call yet
    calls       \* calls of restart that have not returned

vars == <<spent, closed, frozen, calm, granted, calls>>

Init ==
    /\ spent = 0
    /\ ~closed
    /\ ~frozen
    /\ ~calm
    /\ granted = 0
    /\ calls = 0

Used == IF calm THEN 0 ELSE spent

Grant ==
    /\ ~frozen /\ ~closed
    /\ Used < MaxAttempts
    /\ spent' = Used + 1
    /\ granted' = granted + 1
    /\ calm' = FALSE
    /\ UNCHANGED <<closed, frozen, calls>>

Close ==
    /\ ~frozen /\ ~closed
    /\ Used = MaxAttempts
    /\ spent' = Used + 1
    /\ closed' = TRUE
    /\ UNCHANGED <<frozen, calm, granted, calls>>

\* An attempt leads to a call, or to none.
Begin ==
    /\ granted > 0
    /\ granted' = granted - 1
    /\ calls' \in {calls, calls + 1}
    /\ UNCHANGED <<spent, closed, frozen, calm>>

End ==
    /\ calls > 0
    /\ calls' = calls - 1
    /\ UNCHANGED <<spent, closed, frozen, calm, granted>>

\* A user stops the container, or starts it.
Marked ==
    /\ frozen' \in BOOLEAN
    /\ UNCHANGED <<spent, closed, calm, granted, calls>>

Calms ==
    /\ calm' = TRUE
    /\ UNCHANGED <<spent, closed, frozen, granted, calls>>

Next == Grant \/ Close \/ Begin \/ End \/ Marked \/ Calms

Spec == Init /\ [][Next]_vars
=============================================================================
