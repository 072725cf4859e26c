------------------------------- MODULE Mirror -------------------------------
(***************************************************************************)
(* What the way from the registry to one browser promises, with no hub, no *)
(* queue and no lock in it: a source, a copy, and for each key the states  *)
(* on their way.  While the copy is linked every state that is announced   *)
(* reaches it, in order, none skipped and none twice; a state that had     *)
(* been on its way before the link is delivered once more, and then what   *)
(* came after it.  What an unlinked copy receives is old or incomplete,    *)
(* but it is never anything else than a state of the source.               *)
(***************************************************************************)
EXTENDS Integers, Sequences

CONSTANTS Key, State

VARIABLES source, feed, copy, linked

vars == <<source, feed, copy, linked>>

Init ==
    /\ source \in [Key -> State]
    /\ feed = [k \in Key |-> <<>>]
    /\ copy \in [Key -> State]
    /\ linked = FALSE

\* Some keys' states are announced, at least of those that change.
Write ==
    /\ source' \in [Key -> State]
    /\ \E announced \in SUBSET Key :
          /\ \A k \in Key \ announced : source'[k] = source[k]
          /\ feed' = [k \in Key |-> IF linked /\ k \in announced
                                    THEN Append(feed[k], source'[k]) ELSE feed[k]]
    /\ UNCHANGED <<copy, linked>>

Receive(k) ==
    /\ feed[k] # <<>>
    /\ copy' = [copy EXCEPT ![k] = Head(feed[k])]
    /\ feed' = [feed EXCEPT ![k] = Tail(@)]
    /\ UNCHANGED <<source, linked>>

\* The copy becomes the source.  What is still on its way ends with it, too.
Link ==
    /\ ~linked
    /\ linked' = TRUE
    /\ copy' = source
    /\ \A k \in Key : feed'[k] = <<>> \/ feed'[k][Len(feed'[k])] = source[k]
    /\ UNCHANGED source

Shortened ==
    \A k \in Key : /\ Len(feed'[k]) <= Len(feed[k])
                   /\ feed'[k] = SubSeq(feed[k], 1, Len(feed'[k]))

\* The end of what was on its way is lost.
Unlink ==
    /\ linked
    /\ linked' = FALSE
    /\ Shortened
    /\ UNCHANGED <<source, copy>>

\* Without a link, a state is sent or not, the rest is lost or not, and the
\* copy may still become the source.
Drift ==
    /\ ~linked
    /\ \/ UNCHANGED copy /\ Shortened
       \/ copy' = source /\ UNCHANGED feed
       \/ UNCHANGED copy /\ \E k \in Key : feed' = [feed EXCEPT ![k] = Append(@, source[k])]
    /\ UNCHANGED <<source, linked>>

Next == Write \/ (\E k \in Key : Receive(k)) \/ Link \/ Unlink \/ Drift

Spec == Init /\ [][Next]_vars
=============================================================================
