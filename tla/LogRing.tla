------------------------------- MODULE LogRing -------------------------------
(***************************************************************************)
(* The ring buffer of one container's log lines: internal/logs/ring.go.    *)
(*                                                                         *)
(* Every method runs under the buffer's lock, so each is an operator on    *)
(* the record of its fields.  A line keeps its sequence number and its     *)
(* text; stream and timestamp follow the text.                             *)
(***************************************************************************)
EXTENDS Selection

CONSTANTS
    Capacity,   \* RingBuffer.capacity, -log-ring-size
    Text,       \* what a line may say
    Blank       \* the zero LogLine of a slot never written

ASSUME LogRingAssumption ==
    /\ Capacity \in Nat \ {0}
    /\ Blank \notin [seq : Nat, text : Text]

Line == [seq : Nat, text : Text]

RingBuffer ==
    [lines : [0 .. Capacity - 1 -> Line \cup {Blank}],
     head  : 0 .. Capacity - 1,
     count : 0 .. Capacity,
     seq   : Nat]

NewRingBuffer ==
    [lines |-> [i \in 0 .. Capacity - 1 |-> Blank], head |-> 0, count |-> 0, seq |-> 0]

LineOf(n, t) == [seq |-> n, text |-> t]

\* A definition named for its fault is a faulty variant of the one after it.
NextCountTooLate(n) == IF n <= Capacity THEN n + 1 ELSE n
NextCount(n) == IF n < Capacity THEN n + 1 ELSE n

Push(r, t) ==
    [lines |-> [r.lines EXCEPT ![r.head] = LineOf(r.seq + 1, t)],
     head  |-> (r.head + 1) % Capacity,
     count |-> NextCount(r.count),
     seq   |-> r.seq + 1]

\* The n newest lines that are there, oldest first.
Newest(r, n) ==
    LET start == (r.head - n + Capacity) % Capacity
    IN  [i \in 1 .. n |-> r.lines[(start + (i - 1)) % Capacity]]

ReadTail(r, n) ==
    IF n <= 0 \/ r.count = 0 THEN <<>>
    ELSE Newest(r, IF n > r.count THEN r.count ELSE n)

\* The lines of s with a number above from, in their order.
Later(s, from) == Selected(s, {i \in DOMAIN s : s[i].seq > from})

ReadSinceSeq(r, from) ==
    IF r.count = 0 THEN <<>> ELSE Later(Newest(r, r.count), from)

----------------------------------------------------------------------------
\* A line lies in the slot its sequence number says, until it is overwritten.
Slot(n) == (n - 1) % Capacity

\* The buffer holds the lines that were pushed last, as many as fit, each in
\* its slot and under its own number, and writes the next one behind them.
WellFormed(r) ==
    /\ r \in RingBuffer
    /\ r.head = r.seq % Capacity
    /\ r.count = IF r.seq < Capacity THEN r.seq ELSE Capacity
    /\ \A n \in r.seq - r.count + 1 .. r.seq :
          r.lines[Slot(n)] \in Line /\ r.lines[Slot(n)].seq = n
=============================================================================
