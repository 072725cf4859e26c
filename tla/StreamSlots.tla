---------------------------- MODULE StreamSlots -----------------------------
(***************************************************************************)
(* What the stats collector promises about the streams it holds open at    *)
(* the daemon, with no semaphore, no map of cancel functions and no queue  *)
(* of events in it: there are never more than Max, and an owner has one at *)
(* most that has not been retired.  A retired stream is never revived.     *)
(***************************************************************************)
EXTENDS Integers, FiniteSets

CONSTANTS Owner, Reader, None, Max

VARIABLES
    holding,    \* whose stream each reader holds open
    retired     \* readers whose stream is to be given up

vars == <<holding, retired>>

Holder == {r \in Reader : holding[r] # None}

Init ==
    /\ holding = [r \in Reader |-> None]
    /\ retired = {}

\* A reader that was told to give up while it waited may still win a slot.
Take(r, o, late) ==
    /\ holding[r] = None
    /\ Cardinality(Holder) < Max
    /\ late \/ \A h \in Reader : holding[h] = o => h \in retired
    /\ holding' = [holding EXCEPT ![r] = o]
    /\ retired' = IF late THEN retired \cup {r} ELSE retired

Retire(owners) ==
    /\ retired' = retired \cup {r \in Reader : holding[r] \in owners}
    /\ UNCHANGED holding

Drop(r) ==
    /\ holding[r] # None
    /\ holding' = [holding EXCEPT ![r] = None]
    /\ retired' = retired \ {r}

Next ==
    \/ \E r \in Reader, o \in Owner, late \in BOOLEAN : Take(r, o, late)
    \/ \E owners \in SUBSET Owner : Retire(owners)
    \/ \E r \in Reader : Drop(r)

Spec == Init /\ [][Next]_vars
=============================================================================
