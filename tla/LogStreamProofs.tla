--------------------------- MODULE LogStreamProofs ---------------------------
(***************************************************************************)
(* The ring buffer is correct for every capacity and any number of lines:  *)
(* its arithmetic modulo the capacity never loses, repeats or reorders a   *)
(* line that fits.  Then the invariants of LogStream, for any number of    *)
(* connections, streams and lines and any capacity of the ring.            *)
(*                                                                         *)
(* RingInv follows step by step from what is proved of Push, once a        *)
(* stream's position is known to be that of a line the container has       *)
(* written.  SubscribedIsStreamed needs that a stream that has ended is    *)
(* not cancelled: its slot may be the next stream's.  NoGap rests on what  *)
(* a reader finds in the ring, and goes on the way of a line: pushed,      *)
(* broadcast, queued or replayed, received.                                *)
(***************************************************************************)
EXTENDS LogStream, FiniteSetTheorems, TLAPS

\* The assumption, in the form the proofs need it.
LEMMA CapacityPositive == Capacity \in Nat /\ Capacity > 0 /\ Capacity \in Nat \ {0}
BY LogRingAssumption

USE CapacityPositive

----------------------------------------------------------------------------
(* The ring: division.                                                     *)

\* A remainder in range is the remainder.
LEMMA ModUnique ==
    ASSUME NEW n \in Nat \ {0}, NEW q \in Int, NEW k \in 0 .. n - 1
    PROVE  (n * q + k) % n = k
OBVIOUS

\* Every number is a multiple of n and a remainder below n.
LEMMA ModQuotient ==
    ASSUME NEW n \in Nat \ {0}, NEW a \in Int
    PROVE  /\ a % n \in 0 .. n - 1
           /\ \E q \in Int : a = n * q + (a % n)
<1>1. a % n \in 0 .. n - 1
    OBVIOUS
<1>2. a = n * (a \div n) + (a % n) /\ (a \div n) \in Int
    OBVIOUS
<1> QED
    BY <1>1, <1>2

\* Numbers that differ by a multiple of n have the same remainder.
LEMMA ModSame ==
    ASSUME NEW n \in Nat \ {0}, NEW a \in Int, NEW b \in Int, NEW q \in Int, a = b + n * q
    PROVE  a % n = b % n
<1>1. PICK p \in Int : b = n * p + (b % n)
    BY ModQuotient
<1>2. b % n \in 0 .. n - 1
    BY ModQuotient
<1>3. a = n * (p + q) + (b % n) /\ p + q \in Int
    BY <1>1, <1>2
<1> QED
    BY <1>2, <1>3, ModUnique

\* Numbers that differ by less than n have different remainders.
LEMMA ModDiffer ==
    ASSUME NEW n \in Nat \ {0}, NEW a \in Int, NEW b \in Int, a < b, b - a < n
    PROVE  a % n # b % n
<1> SUFFICES ASSUME a % n = b % n PROVE FALSE
    OBVIOUS
<1>1. PICK p \in Int : a = n * p + (a % n)
    BY ModQuotient
<1>2. PICK q \in Int : b = n * q + (b % n)
    BY ModQuotient
<1>3. a % n \in 0 .. n - 1
    BY ModQuotient
<1>4. b - a = n * (q - p)
    BY <1>1, <1>2, <1>3
<1>5. q - p >= 1
    BY <1>4
<1>6. n * (q - p) >= n
    BY <1>5
<1> QED
    BY <1>4, <1>6

----------------------------------------------------------------------------
(* The ring: slots.                                                        *)

\* The slot of a line is a slot of the buffer, and lines that can be in the
\* buffer together are in different slots.
LEMMA SlotsDiffer ==
    ASSUME NEW a \in Int, NEW b \in Int, a < b, b - a < Capacity
    PROVE  Slot(a) # Slot(b) /\ Slot(a) \in 0 .. Capacity - 1
<1> DEFINE x == a - 1
           y == b - 1
<1>1. x \in Int /\ y \in Int /\ x < y /\ y - x < Capacity
    OBVIOUS
<1> HIDE DEF x, y
<1>2. x % Capacity # y % Capacity
    BY <1>1, ModDiffer
<1>3. x % Capacity \in 0 .. Capacity - 1
    BY <1>1, ModQuotient
<1> QED
    BY <1>2, <1>3 DEF Slot, x, y

\* Counting k slots back from the head and i forward finds line seq - k + i.
LEMMA NewestSlot ==
    ASSUME NEW s \in Nat, NEW k \in 1 .. Capacity, NEW i \in 1 .. k
    PROVE  ((((s % Capacity) - k + Capacity) % Capacity) + (i - 1)) % Capacity
               = Slot(s - k + i)
<1> DEFINE h == s % Capacity
           b == h - k + Capacity
           start == b % Capacity
<1>0. s \in Int
    OBVIOUS
<1>1. PICK p \in Int : s = Capacity * p + h
    BY <1>0, ModQuotient
<1>2. h \in 0 .. Capacity - 1
    BY ModQuotient
<1>3. b \in Int
    BY <1>2
<1> HIDE DEF h, b
<1>4. PICK q \in Int : b = Capacity * q + start
    BY <1>3, ModQuotient
<1>5. start \in 0 .. Capacity - 1
    BY <1>3, ModQuotient
<1> HIDE DEF start
<1> DEFINE x == start + (i - 1)
           y == (s - k + i) - 1
           m == 1 - p - q
<1>6. x = y + Capacity * m
    BY <1>1, <1>2, <1>4, <1>5 DEF b
<1>7. x \in Int /\ y \in Int /\ m \in Int
    BY <1>5
<1> HIDE DEF x, y, m
<1>8. x % Capacity = y % Capacity
    BY <1>6, <1>7, ModSame
<1> QED
    BY <1>8 DEF Slot, x, y, start, b, h

----------------------------------------------------------------------------
(* The ring: its operations.                                               *)

\* A new buffer is well-formed: it holds no line.
THEOREM NewIsWellFormed == WellFormed(NewRingBuffer)
<1>1. 0 % Capacity = 0
    OBVIOUS
<1> QED
    BY <1>1 DEF WellFormed, NewRingBuffer, RingBuffer

\* Push keeps the buffer well-formed (ring.go, Push): the line it overwrites
\* is the oldest one, and the others stay where their numbers say.
THEOREM PushKeepsWellFormed ==
    ASSUME NEW r, WellFormed(r), NEW t \in Text
    PROVE  WellFormed(Push(r, t))
<1> DEFINE p == Push(r, t)
<1> DEFINE s == r.seq
           s1 == p.seq
           h1 == r.head + 1
           c == r.count
           c1 == p.count
<1>1. /\ s \in Nat /\ r.head \in 0 .. Capacity - 1 /\ c \in 0 .. Capacity
      /\ r.lines \in [0 .. Capacity - 1 -> Line \cup {Blank}]
    BY DEF WellFormed, RingBuffer
<1>h. r.head = s % Capacity
    BY DEF WellFormed
<1>c. c = IF s < Capacity THEN s ELSE Capacity
    BY DEF WellFormed
<1>2. /\ p.lines = [r.lines EXCEPT ![r.head] = LineOf(s + 1, t)]
      /\ p = [lines |-> p.lines, head |-> p.head, count |-> p.count, seq |-> p.seq]
      /\ p.head = h1 % Capacity
    BY DEF Push
<1>n. s1 = s + 1 /\ c1 = NextCount(c)
    BY DEF Push
<1>t. h1 \in Int /\ s1 \in Int /\ h1 = r.head + 1
    BY <1>1, <1>n
<1> HIDE DEF p, s, s1, h1, c, c1
<1>3. c1 = IF s1 < Capacity THEN s1 ELSE Capacity
    BY <1>1, <1>c, <1>n DEF NextCount
<1>4. p.head = s1 % Capacity
    <2>0. s \in Int
        BY <1>1
    <2>1. PICK q \in Int : s = Capacity * q + r.head
        BY <2>0, <1>h, ModQuotient
    <2>2. s1 = h1 + Capacity * q
        BY <1>1, <1>n, <1>t, <2>1
    <2>3. s1 % Capacity = h1 % Capacity
        BY <1>t, <2>2, ModSame
    <2> QED
        BY <1>2, <2>3
<1>5. LineOf(s + 1, t) \in Line /\ LineOf(s + 1, t).seq = s + 1
    BY <1>1 DEF LineOf, Line
<1>6. p \in RingBuffer
    <2>1. p.lines \in [0 .. Capacity - 1 -> Line \cup {Blank}]
        BY <1>1, <1>2, <1>5
    <2>2. p.head \in 0 .. Capacity - 1
        BY <1>t, <1>4, ModQuotient
    <2>3. c1 \in 0 .. Capacity /\ s1 \in Nat
        BY <1>1, <1>n, <1>3
    <2> QED
        BY <1>2, <2>1, <2>2, <2>3 DEF RingBuffer, c1, s1
<1>7. r.head = Slot(s + 1)
    BY <1>1, <1>h DEF Slot
<1>8. ASSUME NEW n \in s1 - c1 + 1 .. s1
      PROVE  p.lines[Slot(n)] \in Line /\ p.lines[Slot(n)].seq = n
    <2>1. CASE n = s + 1
        BY <1>1, <1>2, <1>5, <1>7, <2>1
    <2>2. CASE n # s + 1
        <3>1. n \in s - c + 1 .. s /\ n \in Int /\ n < s + 1 /\ (s + 1) - n < Capacity
            BY <1>1, <1>c, <1>n, <1>3, <2>2
        <3>2. r.lines[Slot(n)] \in Line /\ r.lines[Slot(n)].seq = n
            BY <3>1 DEF WellFormed, s, c
        <3>3. s + 1 \in Int
            BY <1>1
        <3>4. Slot(n) # r.head /\ Slot(n) \in 0 .. Capacity - 1
            BY <1>7, <3>1, <3>3, SlotsDiffer
        <3> QED
            BY <1>1, <1>2, <3>2, <3>4
    <2> QED
        BY <2>1, <2>2
<1>9. WellFormed(p)
    BY <1>3, <1>4, <1>6, <1>8 DEF WellFormed, s1, c1
<1> QED
    BY <1>9 DEF p

\* ReadTail returns the lines pushed last, as many as asked for and there are,
\* oldest first and without a gap (ring.go, ReadTail).
THEOREM TailIsNewest ==
    ASSUME NEW r, WellFormed(r), NEW n \in Int
    PROVE  LET k == IF n <= 0 THEN 0 ELSE IF n > r.count THEN r.count ELSE n
           IN  /\ ReadTail(r, n) \in Seq(Line)
               /\ Len(ReadTail(r, n)) = k
               /\ \A i \in 1 .. k : ReadTail(r, n)[i].seq = r.seq - k + i
<1> DEFINE k == IF n <= 0 THEN 0 ELSE IF n > r.count THEN r.count ELSE n
<1>1. /\ r.seq \in Nat /\ r.count \in 0 .. Capacity
      /\ r.head = r.seq % Capacity
    BY DEF WellFormed, RingBuffer
<1>2. k \in 0 .. r.count
    BY <1>1
<1>3. CASE k = 0
    <2>1. ReadTail(r, n) = <<>>
        BY <1>1, <1>3 DEF ReadTail
    <2> QED
        BY <1>3, <2>1
<1>4. CASE k # 0
    <2>1. ReadTail(r, n) = Newest(r, k)
        BY <1>1, <1>4 DEF ReadTail
    <2> HIDE DEF k
    <2>2. ASSUME NEW i \in 1 .. k
          PROVE  Newest(r, k)[i] \in Line /\ Newest(r, k)[i].seq = r.seq - k + i
        <3>1. k \in 1 .. Capacity
            BY <1>1, <1>2, <1>4
        <3>2. Newest(r, k)[i] = r.lines[Slot(r.seq - k + i)]
            BY <1>1, <3>1, NewestSlot DEF Newest
        <3>3. r.seq - k + i \in r.seq - r.count + 1 .. r.seq
            BY <1>1, <1>2
        <3> QED
            BY <3>2, <3>3 DEF WellFormed
    <2>3. Newest(r, k) = [i \in 1 .. k |-> Newest(r, k)[i]]
        BY DEF Newest
    <2>4. Newest(r, k) \in Seq(Line) /\ Len(Newest(r, k)) = k
        <3> DEFINE s == Newest(r, k)
        <3>1. k \in Nat
            BY <1>1, <1>2
        <3>2. DOMAIN s = 1 .. k
            BY <2>3
        <3>3. s \in [1 .. k -> Line]
            BY <2>2, <2>3
        <3> HIDE DEF s
        <3>4. s \in Seq(Line) /\ Len(s) = k
            BY <3>1, <3>2, <3>3
        <3> QED
            BY <3>4 DEF s
    <2>5. /\ ReadTail(r, n) \in Seq(Line)
          /\ Len(ReadTail(r, n)) = k
          /\ \A i \in 1 .. k : ReadTail(r, n)[i].seq = r.seq - k + i
        BY <2>1, <2>2, <2>4
    <2> QED
        BY <2>5 DEF k
<1> QED
    BY <1>3, <1>4

\* Of lines numbered one after another those above a number are the last ones.
LEMMA LaterIsEnd ==
    ASSUME NEW s \in Seq(Line), NEW first \in Int, NEW from \in Int,
           \A i \in 1 .. Len(s) : s[i].seq = first + i
    PROVE  LET m == IF from <= first THEN 0
                    ELSE IF from - first > Len(s) THEN Len(s) ELSE from - first
           IN  /\ Later(s, from) \in Seq(Line)
               /\ Len(Later(s, from)) = Len(s) - m
               /\ \A j \in 1 .. Len(s) - m : Later(s, from)[j] = s[m + j]
<1> DEFINE c == Len(s)
           m == IF from <= first THEN 0 ELSE IF from - first > c THEN c ELSE from - first
           kept == {i \in DOMAIN s : s[i].seq > from}
           below(i) == {h \in kept : h <= i}
           UpTo(i) == Cardinality(below(i))
<1>1. c \in Nat /\ m \in 0 .. c /\ DOMAIN s = 1 .. c
    OBVIOUS
<1>2. kept = (m + 1) .. c
    BY <1>1
<1>3. Cardinality(kept) = c - m
    <2> HIDE DEF kept, m, c
    <2>0. m + 1 \in Int /\ c \in Int
        BY <1>1
    <2>1. Cardinality((m + 1) .. c) = IF m + 1 > c THEN 0 ELSE c - (m + 1) + 1
        BY <2>0, FS_Interval
    <2> QED
        BY <1>1, <1>2, <2>1
<1>4. Later(s, from) = [j \in 1 .. c - m |-> s[CHOOSE i \in kept : UpTo(i) = j]]
    BY <1>3 DEF Later, Selected
<1>5. \A i \in kept : UpTo(i) = i - m
    <2> SUFFICES ASSUME NEW i \in kept PROVE Cardinality(below(i)) = i - m
        OBVIOUS
    <2> HIDE DEF kept, m, c
    <2>1. i \in (m + 1) .. c
        BY <1>2
    <2>2. below(i) = (m + 1) .. i
        BY <1>1, <1>2, <2>1
    <2> HIDE DEF below
    <2>3. m + 1 \in Int /\ i \in Int /\ ~(m + 1 > i)
        BY <1>1, <2>1
    <2>4. Cardinality((m + 1) .. i) = i - (m + 1) + 1
        BY <2>3, FS_Interval
    <2>5. i - (m + 1) + 1 = i - m
        BY <1>1, <2>3
    <2> QED
        BY <2>2, <2>4, <2>5
<1>6. ASSUME NEW j \in 1 .. c - m
      PROVE  (CHOOSE i \in kept : UpTo(i) = j) = m + j /\ m + j \in 1 .. c
    <2> HIDE DEF kept, m, c, UpTo
    <2>1. m + j \in kept /\ m + j \in 1 .. c
        BY <1>1, <1>2
    <2>2. \A i \in kept : UpTo(i) = j <=> i = m + j
        BY <1>1, <1>2, <1>5
    <2> QED
        BY <2>1, <2>2
<1>7. \A j \in 1 .. c - m : Later(s, from)[j] = s[m + j] /\ s[m + j] \in Line
    <2> SUFFICES ASSUME NEW j \in 1 .. c - m
                 PROVE  Later(s, from)[j] = s[m + j] /\ s[m + j] \in Line
        OBVIOUS
    <2>1. s[m + j] \in Line
        <3>1. m + j \in 1 .. c
            BY <1>6
        <3> HIDE DEF m
        <3> QED
            BY <3>1
    <2> DEFINE it == CHOOSE i \in kept : UpTo(i) = j
    <2>2. it = m + j
        BY <1>6
    <2>3. Later(s, from)[j] = s[it]
        <3> HIDE DEF kept, m, UpTo, c
        <3> QED
            BY <1>4
    <2> HIDE DEF it
    <2> QED
        BY <2>1, <2>2, <2>3
<1>8. Later(s, from) \in Seq(Line) /\ Len(Later(s, from)) = c - m
    <2> HIDE DEF kept, m, UpTo, c
    <2>1. Later(s, from) = [j \in 1 .. c - m |-> Later(s, from)[j]]
        BY <1>4
    <2>2. c - m \in Nat
        BY <1>1
    <2> QED
        BY <1>7, <2>1, <2>2
<1> QED
    BY <1>7, <1>8

\* ReadSinceSeq returns the lines pushed last, those after the given number
\* that are still there, oldest first and without a gap (ring.go,
\* ReadSinceSeq).
THEOREM SinceIsNewest ==
    ASSUME NEW r, WellFormed(r), NEW from \in Nat
    PROVE  LET k == IF from >= r.seq THEN 0
                    ELSE IF r.seq - from > r.count THEN r.count ELSE r.seq - from
           IN  /\ ReadSinceSeq(r, from) \in Seq(Line)
               /\ Len(ReadSinceSeq(r, from)) = k
               /\ \A i \in 1 .. k : ReadSinceSeq(r, from)[i].seq = r.seq - k + i
<1>1. r.seq \in Nat /\ r.count \in 0 .. Capacity /\ r.count <= r.seq
    BY DEF WellFormed, RingBuffer
<1>2. CASE r.count = 0
    <2>1. ReadSinceSeq(r, from) = <<>>
        BY <1>2 DEF ReadSinceSeq
    <2> QED
        BY <1>1, <1>2, <2>1
<1>3. CASE r.count # 0
    <2> DEFINE s == Newest(r, r.count)
               first == r.seq - r.count
    <2>1. s = ReadTail(r, r.count) /\ r.count \in Int
        BY <1>1, <1>3 DEF ReadTail
    <2>2. /\ s \in Seq(Line) /\ Len(s) = r.count
          /\ \A i \in 1 .. r.count : s[i].seq = first + i
        <3>1. LET k == IF r.count <= 0 THEN 0 ELSE IF r.count > r.count THEN r.count ELSE r.count
              IN  /\ ReadTail(r, r.count) \in Seq(Line)
                  /\ Len(ReadTail(r, r.count)) = k
                  /\ \A i \in 1 .. k : ReadTail(r, r.count)[i].seq = r.seq - k + i
            BY <2>1, TailIsNewest
        <3> QED
            BY <1>1, <1>3, <2>1, <3>1
    <2>3. ReadSinceSeq(r, from) = Later(s, from)
        BY <1>3 DEF ReadSinceSeq
    <2>4. first \in Int
        BY <1>1
    <2> HIDE DEF s, first
    <2> DEFINE m == IF from <= first THEN 0
                    ELSE IF from - first > Len(s) THEN Len(s) ELSE from - first
    <2>5. /\ Later(s, from) \in Seq(Line)
          /\ Len(Later(s, from)) = Len(s) - m
          /\ \A j \in 1 .. Len(s) - m : Later(s, from)[j] = s[m + j]
        <3>1. \A i \in 1 .. Len(s) : s[i].seq = first + i
            BY <2>2
        <3>2. s \in Seq(Line) /\ from \in Int
            BY <2>2
        <3> QED
            BY <2>4, <3>1, <3>2, LaterIsEnd
    <2> DEFINE k == IF from >= r.seq THEN 0
                    ELSE IF r.seq - from > r.count THEN r.count ELSE r.seq - from
    <2>6. Len(s) - m = k /\ m \in 0 .. r.count
        BY <1>1, <2>2 DEF first
    <2> HIDE DEF m, k
    <2>7. \A i \in 1 .. k : s[m + i].seq = r.seq - k + i
        <3> SUFFICES ASSUME NEW i \in 1 .. k PROVE s[m + i].seq = r.seq - k + i
            OBVIOUS
        <3>1. m = r.count - k /\ k \in 0 .. r.count
            BY <1>1, <2>2, <2>6
        <3>2. m + i \in 1 .. r.count
            BY <1>1, <3>1
        <3>3. s[m + i].seq = first + (m + i)
            BY <2>2, <3>2
        <3>4. first + (m + i) = r.seq - k + i
            BY <1>1, <3>1 DEF first
        <3> QED
            BY <3>3, <3>4
    <2>8. /\ ReadSinceSeq(r, from) \in Seq(Line)
          /\ Len(ReadSinceSeq(r, from)) = k
          /\ \A i \in 1 .. k : ReadSinceSeq(r, from)[i].seq = r.seq - k + i
        BY <2>3, <2>5, <2>6, <2>7
    <2> QED
        BY <2>8 DEF k
<1> QED
    BY <1>2, <1>3

----------------------------------------------------------------------------
(* The streamer: its ring and its streams.                                 *)

\* The variables these two invariants speak of have their types.
Types ==
    /\ written \in 0 .. MaxLines
    /\ subscribers \in Nat
    /\ registered \in Stream \cup {None}
    /\ spc \in [Stream -> {"idle", "opening", "reading", "pushed"}]
    /\ pos \in [Stream -> 0 .. MaxLines]
    /\ cancelled \in [Stream -> BOOLEAN]

\* No stream is at a line the container has yet to write.
PosWritten == \A s \in Stream : pos[s] <= written

\* A slot without a stream carries no cancellation.
IdleIsFresh == \A s \in Stream : spc[s] = "idle" => ~cancelled[s]

IInv == Types /\ PosWritten /\ IdleIsFresh /\ RingInv /\ SubscribedIsStreamed

USE LogStreamAssumption

\* The two maps start empty, and so does the ring (NewStreamer).
LEMMA InitHolds == Init => IInv
<1> SUFFICES ASSUME Init PROVE IInv
    OBVIOUS
<1>1. Types /\ PosWritten /\ IdleIsFresh /\ SubscribedIsStreamed
    BY DEF Init, Types, PosWritten, IdleIsFresh, SubscribedIsStreamed
<1>2. RingInv
    BY NewIsWellFormed DEF Init, RingInv
<1> QED
    BY <1>1, <1>2 DEF IInv

\* Subscribe starts a stream for the first subscriber (streamer.go, Subscribe):
\* its slot was free, so the function it registers has cancelled nothing.
LEMMA SubscribeKeeps ==
    ASSUME IInv, NEW k \in Conn, SubscribeStreamer(k)
    PROVE  IInv'
<1>1. UNCHANGED <<written, ring, pos, cancelled>> /\ subscribers' = subscribers + 1
    BY DEF SubscribeStreamer, StartStream, streamVars
<1>2. RingInv' /\ PosWritten'
    BY <1>1 DEF IInv, RingInv, PosWritten
<1>3. CASE subscribers > 0
    <2>1. UNCHANGED <<registered, spc>>
        BY <1>3 DEF SubscribeStreamer, streamVars, IInv, Types
    <2> QED
        BY <1>1, <1>2, <1>3, <2>1 DEF IInv, Types, IdleIsFresh, SubscribedIsStreamed
<1>4. CASE subscribers = 0
    <2> DEFINE s == CHOOSE s \in Idle : TRUE
    <2>1. Idle # {} /\ StartStream(s)
        BY <1>4 DEF SubscribeStreamer
    <2>2. s \in Idle
        BY <2>1
    <2> HIDE DEF s
    <2>3. s \in Stream /\ ~cancelled[s]
        BY <2>2 DEF Idle, IInv, IdleIsFresh
    <2>4. registered' = s /\ spc' = [spc EXCEPT ![s] = "opening"]
        BY <2>1 DEF StartStream
    <2>5. Types'
        BY <1>1, <2>3, <2>4 DEF IInv, Types
    <2>6. IdleIsFresh' /\ SubscribedIsStreamed'
        BY <1>1, <2>3, <2>4 DEF IInv, Types, IdleIsFresh, SubscribedIsStreamed
    <2> QED
        BY <1>2, <2>5, <2>6 DEF IInv
<1> QED
    BY <1>3, <1>4 DEF IInv, Types

\* The sleep of Unsubscribe ends (streamer.go, Unsubscribe): it cancels only
\* when nobody subscribes.
LEMMA GraceKeeps ==
    ASSUME IInv, GraceEnds
    PROVE  IInv'
<1>1. UNCHANGED <<written, ring, subscribers, spc, pos>>
    BY DEF GraceEnds
<1>2. RingInv' /\ PosWritten'
    BY <1>1 DEF IInv, RingInv, PosWritten
<1>3. CASE Unused /\ registered # None
    <2>1. /\ cancelled' = [cancelled EXCEPT ![registered] = registered \notin Idle]
          /\ registered' = None
        BY <1>3 DEF GraceEnds
    <2>2. Types'
        BY <1>1, <2>1 DEF IInv, Types
    <2>3. IdleIsFresh'
        BY <1>1, <1>3, <2>1 DEF IInv, Types, IdleIsFresh, Idle
    <2>4. SubscribedIsStreamed'
        BY <1>1, <1>3 DEF SubscribedIsStreamed, Unused
    <2> QED
        BY <1>2, <2>2, <2>3, <2>4 DEF IInv
<1>4. CASE ~(Unused /\ registered # None)
    <2>1. UNCHANGED <<cancelled, registered>>
        BY <1>4 DEF GraceEnds
    <2> QED
        BY <1>1, <1>2, <2>1 DEF IInv, Types, IdleIsFresh, SubscribedIsStreamed
<1> QED
    BY <1>3, <1>4

\* A stream opens, reads, broadcasts or ends (streamer.go, streamLogs): only a
\* push touches the ring, and no stream is cancelled by its own doing.
LEMMA StreamKeeps ==
    ASSUME IInv, NEW s \in Stream, StreamStep(s) \/ EndStream(s)
    PROVE  IInv'
<1>1. UNCHANGED <<written, subscribers, registered>>
    BY DEF StreamStep, OpenStream, PushLine, BroadcastLine, EndStream
<1>2. CASE OpenStream(s) \/ BroadcastLine(s) \/ EndStream(s)
    <2>1. RingInv'
        BY <1>2 DEF IInv, RingInv, OpenStream, BroadcastLine, EndStream
    <2>2. \E p \in 0 .. written : pos' = [pos EXCEPT ![s] = p]
        <3>1. CASE UNCHANGED pos
            <4>1. pos[s] \in 0 .. written
                BY DEF IInv, Types, PosWritten
            <4>2. pos = [pos EXCEPT ![s] = pos[s]]
                BY DEF IInv, Types
            <4> QED
                BY <3>1, <4>1, <4>2
        <3>2. CASE OpenStream(s) /\ ~UNCHANGED pos
            <4> DEFINE p == IF written > OldLines THEN written - OldLines ELSE 0
            <4>1. p \in 0 .. written
                BY DEF IInv, Types
            <4> QED
                BY <3>2, <4>1 DEF OpenStream
        <3>3. CASE EndStream(s)
            <4>1. 0 \in 0 .. written
                BY DEF IInv, Types
            <4> QED
                BY <3>3, <4>1 DEF EndStream
        <3> QED
            BY <1>2, <3>1, <3>2, <3>3 DEF BroadcastLine
    <2>3. Types' /\ PosWritten'
        <3>1. PICK p \in 0 .. written : pos' = [pos EXCEPT ![s] = p]
            BY <2>2
        <3>2. pos' \in [Stream -> 0 .. MaxLines] /\ PosWritten'
            BY <1>1, <3>1 DEF IInv, Types, PosWritten
        <3>3. /\ spc' \in [Stream -> {"idle", "opening", "reading", "pushed"}]
              /\ cancelled' \in [Stream -> BOOLEAN]
            BY <1>2 DEF IInv, Types, OpenStream, BroadcastLine, EndStream
        <3> QED
            BY <1>1, <3>2, <3>3 DEF IInv, Types
    <2>4. \/ UNCHANGED cancelled /\ \A q \in Stream : spc'[q] = "idle" => spc[q] = "idle"
          \/ cancelled' = [cancelled EXCEPT ![s] = FALSE] /\ spc' = [spc EXCEPT ![s] = "idle"]
        BY <1>2 DEF IInv, Types, OpenStream, BroadcastLine, EndStream
    <2>5. IdleIsFresh'
        BY <2>4 DEF IInv, Types, IdleIsFresh
    <2>6. SubscribedIsStreamed'
        BY <1>1, <2>4 DEF IInv, Types, SubscribedIsStreamed
    <2> QED
        BY <2>1, <2>3, <2>5, <2>6 DEF IInv
<1>3. CASE PushLine(s)
    <2>1. /\ ring' = Push(ring, pos[s] + 1)
          /\ pos[s] < written
          /\ pos' = [pos EXCEPT ![s] = @ + 1]
          /\ spc' = [spc EXCEPT ![s] = "pushed"]
          /\ UNCHANGED cancelled
        BY <1>3 DEF PushLine
    <2>2. pos[s] + 1 \in Text
        BY <2>1 DEF IInv, Types
    <2>3. RingInv'
        BY <2>1, <2>2, PushKeepsWellFormed DEF IInv, RingInv
    <2>4. Types' /\ PosWritten'
        BY <1>1, <2>1 DEF IInv, Types, PosWritten
    <2>5. IdleIsFresh' /\ SubscribedIsStreamed'
        BY <1>1, <2>1 DEF IInv, Types, IdleIsFresh, SubscribedIsStreamed
    <2> QED
        BY <2>3, <2>4, <2>5 DEF IInv
<1> QED
    BY <1>2, <1>3 DEF StreamStep

\* Every step of the container, the connections, the timers and the streams
\* keeps the invariant.
LEMMA NextKeeps == IInv /\ [Next]_vars => IInv'
<1> SUFFICES ASSUME IInv, [Next]_vars PROVE IInv'
    OBVIOUS
<1>1. CASE ContainerWrites
    BY <1>1 DEF ContainerWrites, IInv, Types, PosWritten, IdleIsFresh, RingInv,
                SubscribedIsStreamed, streamVars
<1>2. ASSUME NEW k \in Conn, SubscribeStreamer(k) PROVE IInv'
    BY <1>2, SubscribeKeeps
<1>3. ASSUME NEW k \in Conn, UnsubscribeStreamer(k) PROVE IInv'
    BY <1>3 DEF UnsubscribeStreamer, IInv, Types, PosWritten, IdleIsFresh, RingInv,
                SubscribedIsStreamed, streamVars
<1>4. ASSUME NEW k \in Conn,
             \/ SubscribeHub(k) \/ UnsubscribeHub(k) \/ ReadRing(k) \/ Replay(k)
             \/ Leave(k) \/ Deliver(k) \/ Disconnect(k)
      PROVE  IInv'
    <2>1. UNCHANGED <<written, ring, subscribers, registered, streamVars>>
        BY <1>4 DEF SubscribeHub, UnsubscribeHub, ReadRing, Replay, Leave, Deliver,
                    Disconnect
    <2> QED
        BY <2>1 DEF IInv, Types, PosWritten, IdleIsFresh, RingInv, SubscribedIsStreamed,
                    streamVars
<1>5. CASE GraceEnds
    BY <1>5, GraceKeeps
<1>6. ASSUME NEW s \in Stream, StreamStep(s) \/ EndStream(s) PROVE IInv'
    BY <1>6, StreamKeeps
<1>7. CASE UNCHANGED vars
    BY <1>7 DEF vars, IInv, Types, PosWritten, IdleIsFresh, RingInv,
                SubscribedIsStreamed, streamVars
<1> QED
    BY <1>1, <1>2, <1>3, <1>4, <1>5, <1>6, <1>7 DEF Next, ReadLoop

\* The strengthening is an invariant of the specification.
THEOREM Inductive == Spec => []IInv
BY InitHolds, NextKeeps, PTL DEF Spec

\* However many streams push (streamLogs, Push), a reader of the ring finds the
\* last lines pushed, each in its slot and under its number.
THEOREM RingStaysWellFormed == Spec => []RingInv
<1>1. IInv => RingInv
    BY DEF IInv
<1> QED
    BY <1>1, Inductive, PTL

\* No grace period that began before a subscription cancels its stream
\* (streamer.go, Subscribe and the goroutine of Unsubscribe).
THEOREM StreamNotCancelled == Spec => []SubscribedIsStreamed
<1>1. IInv => SubscribedIsStreamed
    BY DEF IInv
<1> QED
    BY <1>1, Inductive, PTL

----------------------------------------------------------------------------
(* Nothing is missed.                                                      *)

\* What is counted and what is about to be counted stays within the bound.
Counted ==
    /\ subscribers + At("streamer") <= MaxCount
    /\ timers + At("unsubscribe") <= MaxCount

\* Only a number the ring has given out is being broadcast.
Numbered ==
    /\ ring.seq <= MaxPushes
    /\ \A s \in Stream : spc[s] = "pushed" => pushed[s] # 0

\* A read loop on its way to the replay belongs to a subscribed client, has
\* nothing to replay before it has read the ring, and a promise is kept only
\* for a client that is there.
Following ==
    \A k \in Conn :
        /\ rpc[k] \in {"streamer", "ring", "replay"} => subscribed[k]
        /\ rpc[k] # "replay" => todo[k] = <<>>
        /\ since[k] # 0 => open[k] /\ subscribed[k]

FollowInv == IInv /\ TypeOK /\ Counted /\ Numbered /\ Following /\ NoGap

\* What a queue is made of.
LEMMA HeadAndTail ==
    ASSUME NEW S, NEW q \in Seq(S), q # <<>>
    PROVE  Head(q) \in S /\ Tail(q) \in Seq(S)
OBVIOUS

\* What a queue contains after an append.
LEMMA ContainsAppend ==
    ASSUME NEW S, NEW q \in Seq(S), NEW m \in S, NEW n, n = m \/ Contains(q, n)
    PROVE  Contains(Append(q, m), n)
<1>1. /\ DOMAIN Append(q, m) = 1 .. Len(q) + 1 /\ DOMAIN q = 1 .. Len(q) /\ Len(q) \in Nat
      /\ Append(q, m)[Len(q) + 1] = m
      /\ \A i \in 1 .. Len(q) : Append(q, m)[i] = q[i]
    OBVIOUS
<1>2. CASE n = m
    BY <1>1, <1>2 DEF Contains
<1>3. CASE Contains(q, n)
    BY <1>1, <1>3 DEF Contains
<1> QED
    BY <1>2, <1>3

\* What a queue contains is its head or in its tail.
LEMMA ContainsTail ==
    ASSUME NEW S, NEW q \in Seq(S), q # <<>>, NEW n, Contains(q, n)
    PROVE  n = Head(q) \/ Contains(Tail(q), n)
<1>1. PICK i \in DOMAIN q : q[i] = n
    BY DEF Contains
<1>2. DOMAIN q = 1 .. Len(q) /\ Len(q) \in Nat /\ Head(q) = q[1]
    OBVIOUS
<1>3. CASE i = 1
    BY <1>1, <1>2, <1>3
<1>4. CASE i # 1
    <2>1. i - 1 \in DOMAIN Tail(q) /\ Tail(q)[i - 1] = q[i]
        BY <1>1, <1>2, <1>4
    <2> QED
        BY <1>1, <2>1 DEF Contains
<1> QED
    BY <1>3, <1>4

\* What a client may ask the ring for are the lines pushed last, however many.
LEMMA ReplayIsNewest ==
    ASSUME RingInv, NEW lines \in Replays
    PROVE  \E k \in 0 .. ring.count :
              /\ lines \in Seq(Line) /\ Len(lines) = k
              /\ \A i \in 1 .. k : lines[i].seq = ring.seq - k + i
<1> DEFINE Last(ls, k) == /\ ls \in Seq(Line) /\ Len(ls) = k
                          /\ \A i \in 1 .. k : ls[i].seq = ring.seq - k + i
<1>0. ring.seq \in Nat /\ ring.count \in Nat
    BY DEF RingInv, WellFormed, RingBuffer
<1>1. ASSUME NEW n \in 1 .. Capacity, lines = ReadTail(ring, n)
      PROVE  \E k \in 0 .. ring.count : Last(lines, k)
    <2> DEFINE k == IF n <= 0 THEN 0 ELSE IF n > ring.count THEN ring.count ELSE n
    <2>1. WellFormed(ring) /\ n \in Int
        BY DEF RingInv
    <2>2. Last(ReadTail(ring, n), k)
        BY <2>1, TailIsNewest
    <2>3. k \in 0 .. ring.count
        BY <1>0
    <2> HIDE DEF k, Last
    <2> QED
        BY <1>1, <2>2, <2>3
<1>2. ASSUME NEW n \in 1 .. MaxPushes, lines = ReadSinceSeq(ring, n)
      PROVE  \E k \in 0 .. ring.count : Last(lines, k)
    <2> DEFINE k == IF n >= ring.seq THEN 0
                    ELSE IF ring.seq - n > ring.count THEN ring.count ELSE ring.seq - n
    <2>1. WellFormed(ring) /\ n \in Nat
        BY DEF RingInv
    <2>2. Last(ReadSinceSeq(ring, n), k)
        BY <2>1, SinceIsNewest
    <2>3. k \in 0 .. ring.count
        BY <1>0
    <2> HIDE DEF k, Last
    <2> QED
        BY <1>2, <2>2, <2>3
<1>3. \E k \in 0 .. ring.count : Last(lines, k)
    <2> HIDE DEF Last
    <2> QED
        BY <1>1, <1>2 DEF Replays
<1> QED
    BY <1>3

\* At counts one more or one less as a read loop goes on.
LEMMA AtMoves ==
    ASSUME NEW k \in Conn, NEW label, NEW x, rpc[k] # label, Goto(k, label),
           DOMAIN rpc = Conn
    PROVE  /\ At(x) \in Nat /\ At(x)' \in Nat
           /\ x = label => At(x)' = At(x) + 1
           /\ x = rpc[k] => At(x)' = At(x) - 1
           /\ x # label /\ x # rpc[k] => At(x)' = At(x)
<1> DEFINE C == {c \in Conn : rpc[c] = x}
           D == {c \in Conn : rpc'[c] = x}
<1>1. IsFiniteSet(C) /\ IsFiniteSet(D)
    BY FS_Subset
<1>2. Cardinality(C) \in Nat /\ Cardinality(D) \in Nat
    BY <1>1, FS_CardinalityType
<1>3. At(x) = Cardinality(C) /\ At(x)' = Cardinality(D)
    BY DEF At
<1>4. ASSUME x = label PROVE Cardinality(D) = Cardinality(C) + 1
    <2>1. D = C \cup {k} /\ k \notin C
        BY <1>4 DEF Goto
    <2> HIDE DEF C, D
    <2> QED
        BY <1>1, <1>2, <2>1, FS_AddElement
<1>5. ASSUME x = rpc[k] PROVE Cardinality(D) = Cardinality(C) - 1
    <2>1. D = C \ {k} /\ k \in C
        BY <1>5 DEF Goto
    <2> HIDE DEF C, D
    <2> QED
        BY <1>1, <1>2, <2>1, FS_RemoveElement
<1>6. ASSUME x # label, x # rpc[k] PROVE D = C
    BY <1>6 DEF Goto
<1> HIDE DEF C, D
<1> QED
    BY <1>2, <1>3, <1>4, <1>5, <1>6

\* Where a read loop may be.
Labels == {"idle", "streamer", "ring", "replay", "unsubscribe"}

\* At the start nobody follows and nothing has been pushed.
LEMMA InitFollows == Init => FollowInv
<1> SUFFICES ASSUME Init PROVE FollowInv
    OBVIOUS
<1>1. IInv
    BY InitHolds
<1>2. ring \in RingBuffer /\ ring.seq = 0
    BY <1>1 DEF IInv, RingInv, WellFormed, Init, NewRingBuffer
<1>3. TypeOK
    BY <1>2 DEF Init, TypeOK
<1>4. ASSUME NEW x \in {"streamer", "unsubscribe"} PROVE At(x) = 0
    <2>1. {k \in Conn : rpc[k] = x} = {}
        BY DEF Init
    <2> QED
        BY <2>1, FS_EmptySet DEF At
<1>5. Counted
    BY <1>4 DEF Counted, Init
<1>6. Numbered /\ Following
    BY <1>2 DEF Numbered, Following, Init
<1>7. NoGap
    BY DEF NoGap, Init
<1> QED
    BY <1>1, <1>3, <1>5, <1>6, <1>7 DEF FollowInv

\* A step that leaves the connections, the ring and what is being broadcast
\* alone keeps the rest of the invariant but for the counts.
LEMMA QuietStep ==
    ASSUME FollowInv, IInv', UNCHANGED <<ring, connVars>>,
           \A s \in Stream : spc'[s] = "pushed" <=> spc[s] = "pushed",
           UNCHANGED pushed
    PROVE  Numbered' /\ Following' /\ NoGap'
<1>1. Numbered' /\ Following'
    BY DEF FollowInv, Numbered, Following, connVars
<1>2. \A n : InFlight(n) <=> InFlight(n)'
    BY DEF InFlight
<1>3. NoGap'
    BY <1>2 DEF FollowInv, NoGap, connVars
<1> QED
    BY <1>1, <1>3

\* The container writes, a sleep ends, Docker answers, a stream ends: no line
\* is on its way in such a step.
LEMMA QuietKeeps ==
    ASSUME FollowInv, IInv',
           ContainerWrites \/ GraceEnds \/ \E s \in Stream : OpenStream(s) \/ EndStream(s)
    PROVE  FollowInv'
<1>1. UNCHANGED <<ring, connVars, pushed, subscribers>>
    BY DEF ContainerWrites, GraceEnds, OpenStream, EndStream, streamVars
<1>2. \A s \in Stream : spc'[s] = "pushed" <=> spc[s] = "pushed"
    BY DEF ContainerWrites, GraceEnds, OpenStream, EndStream, streamVars, FollowInv, TypeOK
<1>3. timers' <= timers /\ timers' \in 0 .. MaxCount
    BY DEF ContainerWrites, GraceEnds, OpenStream, EndStream, FollowInv, TypeOK
<1>4. TypeOK'
    <2>1. Types'
        BY DEF IInv
    <2> QED
        BY <1>1, <1>3, <2>1 DEF FollowInv, TypeOK, Types, connVars
<1>5. Counted'
    <2>1. At("streamer")' = At("streamer") /\ At("unsubscribe")' = At("unsubscribe")
        BY <1>1 DEF At, connVars
    <2>2. At("unsubscribe") \in Int
        <3>1. IsFiniteSet({k \in Conn : rpc[k] = "unsubscribe"})
            BY FS_Subset
        <3> QED
            BY <3>1, FS_CardinalityType DEF At
    <2> QED
        BY <1>1, <1>3, <2>1, <2>2 DEF FollowInv, Counted, TypeOK
<1> QED
    BY <1>1, <1>2, <1>4, <1>5, QuietStep DEF FollowInv

\* subscribe_logs and unsubscribe_logs at the hub and the streamer: a client
\* that subscribes has been promised nothing before, and one that leaves
\* gives its promise up (ws.go, hub.go).
LEMMA HubStepKeeps ==
    ASSUME FollowInv, IInv', NEW k \in Conn,
           \/ SubscribeHub(k) \/ SubscribeStreamer(k)
           \/ UnsubscribeHub(k) \/ UnsubscribeStreamer(k)
    PROVE  FollowInv'
<1>1. UNCHANGED <<ring, pushed, open, todo, queue>>
    BY DEF SubscribeHub, SubscribeStreamer, UnsubscribeHub, UnsubscribeStreamer,
           StartStream, streamVars
<1>2. /\ DOMAIN rpc = Conn
      /\ subscribers \in Nat /\ timers \in Nat
    BY DEF FollowInv, TypeOK
<1>3. Counted' /\ At("streamer")' \in Nat /\ At("unsubscribe")' \in Nat
    <2>1. CASE SubscribeHub(k)
        <3>1. /\ rpc[k] = "idle" /\ Goto(k, "streamer") /\ UNCHANGED <<subscribers, timers>>
              /\ subscribers + At("streamer") < MaxCount
            BY <2>1 DEF SubscribeHub
        <3>2. At("streamer") \in Nat /\ At("streamer")' = At("streamer") + 1
            BY <1>2, <3>1, AtMoves
        <3>3. At("unsubscribe")' = At("unsubscribe") /\ At("unsubscribe") \in Nat
            BY <1>2, <3>1, AtMoves
        <3> QED
            BY <1>2, <3>1, <3>2, <3>3 DEF Counted, FollowInv
    <2>2. CASE SubscribeStreamer(k)
        <3>1. /\ rpc[k] = "streamer" /\ Goto(k, "ring") /\ UNCHANGED timers
              /\ subscribers' = subscribers + 1
            BY <2>2 DEF SubscribeStreamer
        <3>2. /\ At("streamer") \in Nat /\ At("streamer")' \in Nat
              /\ At("streamer")' = At("streamer") - 1
            BY <1>2, <3>1, AtMoves
        <3>3. At("unsubscribe")' = At("unsubscribe") /\ At("unsubscribe") \in Nat
            BY <1>2, <3>1, AtMoves
        <3> QED
            BY <1>2, <3>1, <3>2, <3>3 DEF Counted, FollowInv
    <2>3. CASE UnsubscribeHub(k)
        <3>1. /\ rpc[k] = "idle" /\ Goto(k, "unsubscribe")
              /\ UNCHANGED <<subscribers, timers>>
              /\ timers + At("unsubscribe") < MaxCount
            BY <2>3 DEF UnsubscribeHub
        <3>2. At("streamer") \in Nat /\ At("streamer")' = At("streamer")
            BY <1>2, <3>1, AtMoves
        <3>3. At("unsubscribe")' = At("unsubscribe") + 1 /\ At("unsubscribe") \in Nat
            BY <1>2, <3>1, AtMoves
        <3> QED
            BY <1>2, <3>1, <3>2, <3>3 DEF Counted, FollowInv
    <2>4. CASE UnsubscribeStreamer(k)
        <3>1. /\ rpc[k] = "unsubscribe" /\ Goto(k, "idle")
              /\ subscribers' <= subscribers /\ timers' <= timers + 1
              /\ subscribers' \in Int /\ timers' \in Int
            BY <1>2, <2>4 DEF UnsubscribeStreamer
        <3>2. At("streamer") \in Nat /\ At("streamer")' = At("streamer")
            BY <1>2, <3>1, AtMoves
        <3>3. /\ At("unsubscribe")' = At("unsubscribe") - 1
              /\ At("unsubscribe") \in Nat /\ At("unsubscribe")' \in Nat
            BY <1>2, <3>1, AtMoves
        <3> QED
            BY <1>2, <3>1, <3>2, <3>3 DEF Counted, FollowInv
    <2> QED
        BY <2>1, <2>2, <2>3, <2>4
<1>4. /\ subscribers' \in Nat /\ timers' \in Nat
      /\ subscribed' \in [Conn -> BOOLEAN]
      /\ rpc' \in [Conn -> Labels]
      /\ since' \in [Conn -> 0 .. MaxPushes + 1]
      /\ got' \in [Conn -> SUBSET (1 .. MaxPushes)]
    <2>1. subscribers' \in Nat /\ timers' \in Nat
        BY <1>2 DEF SubscribeHub, SubscribeStreamer, UnsubscribeHub, UnsubscribeStreamer
    <2>2. subscribed' \in [Conn -> BOOLEAN]
        <3>1. \E b \in BOOLEAN :
                  UNCHANGED subscribed \/ subscribed' = [subscribed EXCEPT ![k] = b]
            BY DEF SubscribeHub, SubscribeStreamer, UnsubscribeHub, UnsubscribeStreamer
        <3> QED
            BY <3>1 DEF FollowInv, TypeOK
    <2>3. rpc' \in [Conn -> Labels]
        <3>1. \E label \in Labels : rpc' = [rpc EXCEPT ![k] = label]
            BY DEF SubscribeHub, SubscribeStreamer, UnsubscribeHub, UnsubscribeStreamer,
                   Goto, Labels
        <3>2. rpc \in [Conn -> Labels]
            BY DEF FollowInv, TypeOK, Labels
        <3> QED
            BY <3>1, <3>2
    <2>4. \/ UNCHANGED <<since, got>>
          \/ since' = [since EXCEPT ![k] = 0] /\ got' = [got EXCEPT ![k] = {}]
        BY DEF SubscribeHub, SubscribeStreamer, UnsubscribeHub, UnsubscribeStreamer
    <2>5. since' \in [Conn -> 0 .. MaxPushes + 1]
        <3>1. since \in [Conn -> 0 .. MaxPushes + 1] /\ 0 \in 0 .. MaxPushes + 1
            BY DEF FollowInv, TypeOK
        <3> QED
            BY <2>4, <3>1
    <2>6. got' \in [Conn -> SUBSET (1 .. MaxPushes)]
        BY <2>4 DEF FollowInv, TypeOK
    <2> QED
        BY <2>1, <2>2, <2>3, <2>5, <2>6
<1>5. TypeOK'
    <2>1. subscribers' \in 0 .. MaxCount /\ timers' \in 0 .. MaxCount
        BY <1>3, <1>4 DEF Counted
    <2>2. Types'
        BY DEF IInv
    <2> QED
        BY <1>1, <1>4, <2>1, <2>2 DEF FollowInv, TypeOK, Types, Labels
<1>6. \A s \in Stream : spc'[s] = "pushed" <=> spc[s] = "pushed"
    <2>1. CASE UNCHANGED spc
        BY <2>1
    <2>2. CASE SubscribeStreamer(k) /\ ~UNCHANGED spc
        <3> DEFINE new == CHOOSE s \in Idle : TRUE
        <3>1. Idle # {} /\ StartStream(new)
            BY <2>2 DEF SubscribeStreamer, streamVars
        <3>2. new \in Idle
            BY <3>1
        <3>3. spc' = [spc EXCEPT ![new] = "opening"]
            BY <3>1 DEF StartStream
        <3> HIDE DEF new
        <3> QED
            BY <3>2, <3>3 DEF Idle, FollowInv, TypeOK
    <2> QED
        BY <2>1, <2>2 DEF SubscribeHub, UnsubscribeHub, UnsubscribeStreamer, streamVars
<1>7. Numbered'
    BY <1>1, <1>6 DEF FollowInv, Numbered
<1>8. Following'
    BY <1>1 DEF SubscribeHub, SubscribeStreamer, UnsubscribeHub, UnsubscribeStreamer,
                Goto, FollowInv, Following, TypeOK
<1>9. NoGap'
    <2>1. \A n : InFlight(n) <=> InFlight(n)'
        BY <1>1, <1>6 DEF InFlight
    <2>2. \A c \in Conn : since'[c] # 0 =>
              since'[c] = since[c] /\ got'[c] = got[c] /\ subscribed[c] /\ open[c]
        BY DEF SubscribeHub, SubscribeStreamer, UnsubscribeHub, UnsubscribeStreamer,
               FollowInv, Following, TypeOK
    <2> QED
        BY <1>1, <2>1, <2>2 DEF FollowInv, NoGap
<1> QED
    BY <1>3, <1>5, <1>7, <1>8, <1>9 DEF FollowInv

\* A step of a read loop that leaves the counts, the ring and the streams alone.
LEMMA CountsStay ==
    ASSUME FollowInv, NEW k \in Conn, NEW label,
           UNCHANGED <<subscribers, timers>>,
           UNCHANGED rpc \/ (Goto(k, label) /\ rpc[k] # label),
           \A x \in {"streamer", "unsubscribe"} :
               UNCHANGED rpc \/ (x # rpc[k] /\ x # label)
    PROVE  Counted'
<1>1. CASE UNCHANGED rpc
    BY <1>1 DEF FollowInv, Counted, At
<1>2. CASE ~UNCHANGED rpc
    <2>1. DOMAIN rpc = Conn
        BY DEF FollowInv, TypeOK
    <2>2. \A x \in {"streamer", "unsubscribe"} : At(x)' = At(x)
        BY <1>2, <2>1, AtMoves
    <2> QED
        BY <2>2 DEF FollowInv, Counted
<1> QED
    BY <1>1, <1>2

\* The read loop reads the ring (ring.go, ReadTail, ReadSinceSeq): the lines to
\* replay are all there are from the first one promised on.
LEMMA ReadRingKeeps ==
    ASSUME FollowInv, IInv', NEW k \in Conn, ReadRing(k)
    PROVE  FollowInv'
<1>1. PICK lines \in Replays :
          /\ todo' = [todo EXCEPT ![k] = Numbers(lines)]
          /\ since' = IF open[k] THEN [since EXCEPT ![k] = Promise(k, lines)] ELSE since
    BY DEF ReadRing
<1>2. /\ UNCHANGED <<written, ring, subscribers, registered, timers, streamVars,
                     open, subscribed, queue, got>>
      /\ rpc[k] = "ring" /\ Goto(k, "replay")
    BY DEF ReadRing
<1>3. PICK r \in 0 .. ring.count :
          /\ lines \in Seq(Line) /\ Len(lines) = r
          /\ \A i \in 1 .. r : lines[i].seq = ring.seq - r + i
    BY ReplayIsNewest DEF FollowInv, IInv
<1>4. /\ ring.seq \in Nat /\ ring.count \in Nat /\ ring.count <= ring.seq
      /\ ring.seq <= MaxPushes
    BY DEF FollowInv, IInv, RingInv, WellFormed, RingBuffer, Numbered
<1>5. Numbers(lines) = [i \in 1 .. r |-> ring.seq - r + i]
    BY <1>3 DEF Numbers
<1>6. Numbers(lines) \in Seq(1 .. MaxPushes)
    <2>1. \A i \in 1 .. r : ring.seq - r + i \in 1 .. MaxPushes
        BY <1>3, <1>4
    <2> QED
        BY <1>3, <1>4, <1>5, <2>1
<1>7. /\ Promise(k, lines) = IF since[k] # 0 THEN since[k] ELSE ring.seq - r + 1
      /\ Promise(k, lines) \in 0 .. MaxPushes + 1
    <2>0. since[k] \in 0 .. MaxPushes + 1 /\ r \in Nat /\ r <= ring.seq
        BY <1>3, <1>4 DEF FollowInv, TypeOK
    <2>1. CASE r = 0
        <3>1. lines = <<>>
            BY <1>3, <2>1
        <3> QED
            BY <1>4, <2>0, <2>1, <3>1 DEF Promise
    <2>2. CASE r # 0
        <3>1. lines # <<>> /\ Head(lines).seq = ring.seq - r + 1
            BY <1>3, <1>4, <2>2
        <3>2. ring.seq - r + 1 \in 0 .. MaxPushes + 1
            BY <1>4, <2>0
        <3> QED
            BY <2>0, <3>1, <3>2 DEF Promise
    <2> QED
        BY <2>1, <2>2
<1>8. TypeOK'
    <2>1. todo' \in [Conn -> Seq(1 .. MaxPushes)]
        BY <1>1, <1>6 DEF FollowInv, TypeOK
    <2>2. since' \in [Conn -> 0 .. MaxPushes + 1]
        BY <1>1, <1>7 DEF FollowInv, TypeOK
    <2>3. rpc' \in [Conn -> Labels]
        BY <1>2 DEF Goto, FollowInv, TypeOK, Labels
    <2> QED
        BY <1>2, <2>1, <2>2, <2>3 DEF FollowInv, TypeOK, streamVars, Labels
<1>9. Counted'
    BY <1>2, CountsStay
<1>10. Numbered'
    BY <1>2 DEF FollowInv, Numbered, streamVars
<1>11. Following'
    <2> SUFFICES ASSUME NEW c \in Conn
                 PROVE  /\ rpc'[c] \in {"streamer", "ring", "replay"} => subscribed'[c]
                        /\ rpc'[c] # "replay" => todo'[c] = <<>>
                        /\ since'[c] # 0 => open'[c] /\ subscribed'[c]
        BY DEF Following
    <2>1. CASE c = k
        BY <1>1, <1>2, <2>1 DEF Goto, FollowInv, Following, TypeOK
    <2>2. CASE c # k
        BY <1>1, <1>2, <2>2 DEF Goto, FollowInv, Following, TypeOK
    <2> QED
        BY <2>1, <2>2
<1>12. NoGap'
    <2> SUFFICES ASSUME NEW c \in Conn, open[c], subscribed[c], since'[c] # 0,
                        NEW n \in since'[c] .. ring.seq
                 PROVE  (n \in got[c] \/ Contains(todo'[c], n) \/ Contains(queue[c], n)
                             \/ InFlight(n))
        BY <1>2 DEF NoGap, InFlight, streamVars
    <2>1. CASE c # k
        <3>1. since'[c] = since[c] /\ todo'[c] = todo[c]
            BY <1>1, <2>1 DEF FollowInv, TypeOK
        <3> QED
            BY <3>1 DEF FollowInv, NoGap
    <2>2. CASE c = k /\ since[k] # 0
        <3>1. since'[c] = since[c] /\ todo[c] = <<>>
            BY <1>1, <1>2, <1>7, <2>2 DEF FollowInv, TypeOK, Following
        <3>2. ~Contains(todo[c], n)
            BY <3>1 DEF Contains
        <3> QED
            BY <3>1, <3>2 DEF FollowInv, NoGap
    <2>3. CASE c = k /\ since[k] = 0
        <3>1. since'[c] = ring.seq - r + 1 /\ todo'[c] = Numbers(lines)
            BY <1>1, <1>7, <2>3 DEF FollowInv, TypeOK
        <3>2. n - (ring.seq - r) \in 1 .. r /\ n = ring.seq - r + (n - (ring.seq - r))
            BY <1>3, <1>4, <3>1
        <3>3. Contains(Numbers(lines), n)
            BY <1>5, <3>2 DEF Contains
        <3> QED
            BY <3>1, <3>3
    <2> QED
        BY <2>1, <2>2, <2>3
<1> QED
    BY <1>8, <1>9, <1>10, <1>11, <1>12 DEF FollowInv

\* The read loop writes a line of the replay, or ends it: what it takes off
\* the replay the client has got (ws.go).
LEMMA ReplayKeeps ==
    ASSUME FollowInv, IInv', NEW k \in Conn, Replay(k)
    PROVE  FollowInv'
<1>1. /\ UNCHANGED <<written, ring, subscribers, registered, timers, streamVars,
                     open, subscribed, queue, since>>
      /\ rpc[k] = "replay"
    BY DEF Replay
<1>2. CASE todo[k] = <<>>
    <2>1. Goto(k, "idle") /\ UNCHANGED <<todo, got>>
        BY <1>2 DEF Replay
    <2>2. TypeOK'
        BY <1>1, <2>1 DEF Goto, FollowInv, TypeOK, streamVars
    <2>3. Counted'
        BY <1>1, <2>1, CountsStay
    <2>4. Numbered' /\ NoGap'
        BY <1>1, <2>1 DEF FollowInv, Numbered, NoGap, InFlight, streamVars
    <2>5. Following'
        BY <1>1, <1>2, <2>1 DEF Goto, FollowInv, Following, TypeOK
    <2> QED
        BY <2>2, <2>3, <2>4, <2>5 DEF FollowInv
<1>3. CASE todo[k] # <<>>
    <2>1. /\ todo' = [todo EXCEPT ![k] = Tail(@)]
          /\ got' = IF open[k] THEN [got EXCEPT ![k] = @ \cup {Head(todo[k])}] ELSE got
          /\ UNCHANGED rpc
        BY <1>3 DEF Replay
    <2>2. /\ todo[k] \in Seq(1 .. MaxPushes)
          /\ Tail(todo[k]) \in Seq(1 .. MaxPushes)
          /\ Head(todo[k]) \in 1 .. MaxPushes
        <3>1. todo[k] \in Seq(1 .. MaxPushes)
            BY DEF FollowInv, TypeOK
        <3> QED
            BY <1>3, <3>1, HeadAndTail
    <2>3. TypeOK'
        <3>1. todo' \in [Conn -> Seq(1 .. MaxPushes)]
            BY <2>1, <2>2 DEF FollowInv, TypeOK
        <3>2. got' \in [Conn -> SUBSET (1 .. MaxPushes)]
            BY <2>1, <2>2 DEF FollowInv, TypeOK
        <3> QED
            BY <1>1, <2>1, <3>1, <3>2 DEF FollowInv, TypeOK, streamVars
    <2>4. Counted' /\ Numbered'
        BY <1>1, <2>1 DEF FollowInv, Counted, At, Numbered, streamVars
    <2>5. Following'
        BY <1>1, <2>1 DEF FollowInv, Following, TypeOK
    <2>6. NoGap'
        <3> SUFFICES ASSUME NEW c \in Conn, open[c], subscribed[c], since[c] # 0,
                            NEW n \in since[c] .. ring.seq
                     PROVE  (n \in got'[c] \/ Contains(todo'[c], n)
                                 \/ Contains(queue[c], n) \/ InFlight(n))
            BY <1>1 DEF NoGap, InFlight, streamVars
        <3>1. n \in got[c] \/ Contains(todo[c], n) \/ Contains(queue[c], n) \/ InFlight(n)
            BY DEF FollowInv, NoGap
        <3>2. CASE c # k
            BY <2>1, <3>1, <3>2 DEF FollowInv, TypeOK
        <3>3. CASE c = k
            <4>1. /\ got'[c] = got[c] \cup {Head(todo[c])}
                  /\ todo'[c] = Tail(todo[c])
                BY <2>1, <3>3 DEF FollowInv, TypeOK
            <4>2. Contains(todo[c], n) => n = Head(todo[c]) \/ Contains(Tail(todo[c]), n)
                BY <1>3, <2>2, <3>3, ContainsTail
            <4> QED
                BY <3>1, <4>1, <4>2
        <3> QED
            BY <3>2, <3>3
    <2> QED
        BY <2>3, <2>4, <2>5, <2>6 DEF FollowInv
<1> QED
    BY <1>2, <1>3

\* The write loop, the end of a connection, and the client that takes its
\* place: a line leaves the queue only to reach the client or with it (ws.go).
LEMMA ConnectionKeeps ==
    ASSUME FollowInv, IInv', NEW k \in Conn, Deliver(k) \/ Disconnect(k) \/ Leave(k)
    PROVE  FollowInv'
<1>1. UNCHANGED <<written, ring, subscribers, registered, timers, streamVars, rpc, todo>>
    BY DEF Deliver, Disconnect, Leave
<1>2. Counted' /\ Numbered'
    BY <1>1 DEF FollowInv, Counted, At, Numbered, streamVars
<1>3. CASE Deliver(k)
    <2>1. /\ open[k] /\ queue[k] # <<>>
          /\ queue' = [queue EXCEPT ![k] = Tail(@)]
          /\ got' = [got EXCEPT ![k] = IF subscribed[k] THEN @ \cup {Head(queue[k])} ELSE @]
          /\ UNCHANGED <<open, subscribed, since>>
        BY <1>3 DEF Deliver
    <2>2. /\ queue[k] \in Seq(1 .. MaxPushes)
          /\ Tail(queue[k]) \in Seq(1 .. MaxPushes)
          /\ Head(queue[k]) \in 1 .. MaxPushes
        <3>1. queue[k] \in Seq(1 .. MaxPushes)
            BY DEF FollowInv, TypeOK
        <3> QED
            BY <2>1, <3>1, HeadAndTail
    <2>3. TypeOK'
        <3>1. queue' \in [Conn -> Seq(1 .. MaxPushes)]
            BY <2>1, <2>2 DEF FollowInv, TypeOK
        <3>2. got' \in [Conn -> SUBSET (1 .. MaxPushes)]
            BY <2>1, <2>2 DEF FollowInv, TypeOK
        <3> QED
            BY <1>1, <2>1, <3>1, <3>2 DEF FollowInv, TypeOK, streamVars
    <2>4. Following'
        BY <1>1, <2>1 DEF FollowInv, Following
    <2>5. NoGap'
        <3> SUFFICES ASSUME NEW c \in Conn, open[c], subscribed[c], since[c] # 0,
                            NEW n \in since[c] .. ring.seq
                     PROVE  (n \in got'[c] \/ Contains(todo[c], n)
                                 \/ Contains(queue'[c], n) \/ InFlight(n))
            BY <1>1, <2>1 DEF NoGap, InFlight, streamVars
        <3>1. n \in got[c] \/ Contains(todo[c], n) \/ Contains(queue[c], n) \/ InFlight(n)
            BY DEF FollowInv, NoGap
        <3>2. CASE c # k
            BY <2>1, <3>1, <3>2 DEF FollowInv, TypeOK
        <3>3. CASE c = k
            <4>1. /\ got'[c] = got[c] \cup {Head(queue[c])}
                  /\ queue'[c] = Tail(queue[c])
                BY <2>1, <3>3 DEF FollowInv, TypeOK
            <4>2. Contains(queue[c], n) => n = Head(queue[c]) \/ Contains(Tail(queue[c]), n)
                BY <2>1, <2>2, <3>3, ContainsTail
            <4> QED
                BY <3>1, <4>1, <4>2
        <3> QED
            BY <3>2, <3>3
    <2> QED
        BY <1>2, <2>3, <2>4, <2>5 DEF FollowInv
<1>4. CASE Disconnect(k)
    <2>1. /\ open' = [c \in Conn |-> open[c] /\ c # k]
          /\ since' = [c \in Conn |-> IF c = k THEN 0 ELSE since[c]]
          /\ got' = [c \in Conn |-> IF c = k THEN {} ELSE got[c]]
          /\ queue' = [queue EXCEPT ![k] = <<>>]
          /\ UNCHANGED subscribed
        BY <1>4 DEF Disconnect, Cut
    <2>2. TypeOK'
        <3>1. queue' \in [Conn -> Seq(1 .. MaxPushes)]
            BY <2>1 DEF FollowInv, TypeOK
        <3>2. /\ open' \in [Conn -> BOOLEAN]
              /\ since' \in [Conn -> 0 .. MaxPushes + 1]
              /\ got' \in [Conn -> SUBSET (1 .. MaxPushes)]
            BY <2>1 DEF FollowInv, TypeOK
        <3> QED
            BY <1>1, <2>1, <3>1, <3>2 DEF FollowInv, TypeOK, streamVars
    <2>3. Following'
        BY <1>1, <2>1 DEF FollowInv, Following, TypeOK
    <2>4. NoGap'
        <3>1. \A c \in Conn : open'[c] =>
                  /\ since'[c] = since[c] /\ got'[c] = got[c] /\ queue'[c] = queue[c]
                  /\ open[c]
            BY <2>1 DEF FollowInv, TypeOK
        <3> QED
            BY <1>1, <2>1, <3>1 DEF FollowInv, NoGap, InFlight, streamVars
    <2> QED
        BY <1>2, <2>2, <2>3, <2>4 DEF FollowInv
<1>5. CASE Leave(k)
    <2>1. /\ ~open[k] /\ rpc[k] = "idle"
          /\ open' = [open EXCEPT ![k] = TRUE]
          /\ subscribed' = [subscribed EXCEPT ![k] = FALSE]
          /\ UNCHANGED <<queue, since, got>>
        BY <1>5 DEF Leave
    <2>2. TypeOK'
        BY <1>1, <2>1 DEF FollowInv, TypeOK, streamVars
    <2>3. since[k] = 0
        BY <2>1 DEF FollowInv, Following
    <2>4. Following'
        BY <1>1, <2>1, <2>3 DEF FollowInv, Following, TypeOK
    <2>5. NoGap'
        <3>1. \A c \in Conn : since[c] # 0 => open[c] /\ subscribed[c]
            BY DEF FollowInv, Following
        <3> QED
            BY <1>1, <2>1, <3>1 DEF FollowInv, NoGap, InFlight, streamVars
    <2> QED
        BY <1>2, <2>2, <2>4, <2>5 DEF FollowInv
<1> QED
    BY <1>3, <1>4, <1>5

\* A stream has pushed a line (streamer.go, streamLogs): until it broadcasts
\* the line, that is on its way.
LEMMA PushKeeps ==
    ASSUME FollowInv, IInv', NEW s \in Stream, PushLine(s)
    PROVE  FollowInv'
<1>1. /\ spc[s] = "reading" /\ ring.seq < MaxPushes
      /\ ring' = Push(ring, pos[s] + 1)
      /\ pushed' = [pushed EXCEPT ![s] = ring.seq + 1]
      /\ spc' = [spc EXCEPT ![s] = "pushed"]
      /\ UNCHANGED <<subscribers, timers, connVars>>
    BY DEF PushLine
<1>2. ring.seq \in Nat /\ ring'.seq = ring.seq + 1
    BY <1>1 DEF FollowInv, TypeOK, RingBuffer, Push
<1>3. TypeOK'
    <2>1. Types' /\ ring' \in RingBuffer
        BY DEF IInv, RingInv, WellFormed
    <2>2. pushed' \in [Stream -> 0 .. MaxPushes]
        <3>1. ring.seq + 1 \in 0 .. MaxPushes /\ pushed \in [Stream -> 0 .. MaxPushes]
            BY <1>1, <1>2 DEF FollowInv, TypeOK
        <3> QED
            BY <1>1, <3>1
    <2> QED
        BY <1>1, <2>1, <2>2 DEF FollowInv, TypeOK, Types, connVars
<1>4. Counted' /\ Following'
    BY <1>1 DEF FollowInv, Counted, At, Following, connVars
<1>5. Numbered'
    <2>1. ring'.seq <= MaxPushes
        BY <1>1, <1>2
    <2>2. \A q \in Stream : spc'[q] = "pushed" => pushed'[q] # 0
        <3>1. \A q \in Stream : q # s => spc'[q] = spc[q] /\ pushed'[q] = pushed[q]
            BY <1>1 DEF FollowInv, TypeOK
        <3>2. pushed'[s] = ring.seq + 1
            BY <1>1 DEF FollowInv, TypeOK
        <3>3. ring.seq + 1 # 0
            BY <1>2
        <3> QED
            BY <3>1, <3>2, <3>3 DEF FollowInv, Numbered
    <2> QED
        BY <2>1, <2>2 DEF Numbered
<1>6. NoGap'
    <2>1. \A n : InFlight(n) => InFlight(n)'
        BY <1>1 DEF InFlight, FollowInv, TypeOK
    <2>2. \E q \in Stream : spc'[q] = "pushed" /\ pushed'[q] = ring.seq + 1
        <3>1. s \in Stream /\ spc'[s] = "pushed" /\ pushed'[s] = ring.seq + 1
            BY <1>1 DEF FollowInv, TypeOK
        <3> QED
            BY <3>1
    <2> SUFFICES ASSUME NEW k \in Conn, open[k], subscribed[k], since[k] # 0,
                        NEW n \in since[k] .. ring.seq + 1
                 PROVE  (n \in got[k] \/ Contains(todo[k], n) \/ Contains(queue[k], n)
                             \/ InFlight(n)')
        BY <1>1, <1>2 DEF NoGap, connVars
    <2>3. CASE n = ring.seq + 1
        BY <2>2, <2>3 DEF InFlight
    <2>4. CASE n # ring.seq + 1
        <3>1. n \in since[k] .. ring.seq
            BY <1>2, <2>4 DEF FollowInv, TypeOK
        <3> QED
            BY <2>1, <3>1 DEF FollowInv, NoGap
    <2> QED
        BY <2>3, <2>4
<1> QED
    BY <1>3, <1>4, <1>5, <1>6 DEF FollowInv

\* The hub sends the line on (hub.go, BroadcastLog): a client that follows the
\* log has it in its queue or is closed.
LEMMA BroadcastKeeps ==
    ASSUME FollowInv, IInv', NEW s \in Stream, BroadcastLine(s)
    PROVE  FollowInv'
<1> DEFINE gone == {k \in Conn : Closed(k)}
<1>1. /\ spc[s] = "pushed"
      /\ queue' = [k \in Conn |-> IF ~open[k] \/ Closed(k) THEN <<>>
                                  ELSE IF Listens(k) /\ ~Full(k)
                                  THEN Append(queue[k], pushed[s]) ELSE queue[k]]
      /\ spc' = [spc EXCEPT ![s] = "reading"]
      /\ pushed' = [pushed EXCEPT ![s] = 0]
      /\ UNCHANGED <<ring, subscribers, timers, subscribed, rpc, todo>>
    BY DEF BroadcastLine
<1>2. /\ open' = [k \in Conn |-> open[k] /\ k \notin gone]
      /\ since' = [k \in Conn |-> IF k \in gone THEN 0 ELSE since[k]]
      /\ got' = [k \in Conn |-> IF k \in gone THEN {} ELSE got[k]]
    BY DEF BroadcastLine, Cut
<1> HIDE DEF gone
<1>3. pushed[s] \in 1 .. MaxPushes
    BY <1>1 DEF FollowInv, Numbered, TypeOK
<1>4. TypeOK'
    <2>1. queue' \in [Conn -> Seq(1 .. MaxPushes)]
        <3>1. ASSUME NEW k \in Conn
              PROVE  queue[k] \in Seq(1 .. MaxPushes)
            BY DEF FollowInv, TypeOK
        <3>2. ASSUME NEW k \in Conn
              PROVE  Append(queue[k], pushed[s]) \in Seq(1 .. MaxPushes)
            BY <1>3, <3>1
        <3>3. <<>> \in Seq(1 .. MaxPushes)
            OBVIOUS
        <3> QED
            BY <1>1, <3>1, <3>2, <3>3
    <2>2. since' \in [Conn -> 0 .. MaxPushes + 1]
        <3>1. since \in [Conn -> 0 .. MaxPushes + 1] /\ 0 \in 0 .. MaxPushes + 1
            BY DEF FollowInv, TypeOK
        <3> QED
            BY <1>2, <3>1
    <2>3. open' \in [Conn -> BOOLEAN] /\ got' \in [Conn -> SUBSET (1 .. MaxPushes)]
        BY <1>2 DEF FollowInv, TypeOK
    <2>4. pushed' \in [Stream -> 0 .. MaxPushes]
        <3>1. pushed \in [Stream -> 0 .. MaxPushes] /\ 0 \in 0 .. MaxPushes
            BY DEF FollowInv, TypeOK
        <3> QED
            BY <1>1, <3>1
    <2>5. Types'
        BY DEF IInv
    <2> QED
        BY <1>1, <2>1, <2>2, <2>3, <2>4, <2>5 DEF FollowInv, TypeOK, Types
<1>5. Counted'
    BY <1>1 DEF FollowInv, Counted, At
<1>6. Numbered'
    BY <1>1 DEF FollowInv, Numbered, TypeOK
<1>7. Following'
    BY <1>1, <1>2 DEF FollowInv, Following
<1>8. NoGap'
    <2>1. \A n : InFlight(n) => n = pushed[s] \/ InFlight(n)'
        BY <1>1 DEF InFlight, FollowInv, TypeOK
    <2> SUFFICES ASSUME NEW k \in Conn, open'[k], subscribed[k], since'[k] # 0,
                        NEW n \in since'[k] .. ring.seq
                 PROVE  (n \in got'[k] \/ Contains(todo[k], n) \/ Contains(queue'[k], n)
                             \/ InFlight(n)')
        BY <1>1 DEF NoGap
    <2>2. /\ k \notin gone /\ open[k] /\ since'[k] = since[k] /\ got'[k] = got[k]
        BY <1>2
    <2>3. ~Closed(k) /\ Listens(k) /\ ~Full(k)
        BY <2>2 DEF gone, Closed, Listens
    <2>4. queue'[k] = Append(queue[k], pushed[s])
        BY <1>1, <2>2, <2>3
    <2>5. n \in got[k] \/ Contains(todo[k], n) \/ Contains(queue[k], n) \/ InFlight(n)
        BY <2>2 DEF FollowInv, NoGap
    <2>6. queue[k] \in Seq(1 .. MaxPushes)
        BY DEF FollowInv, TypeOK
    <2>7. n = pushed[s] \/ Contains(queue[k], n) => Contains(queue'[k], n)
        BY <1>3, <2>4, <2>6, ContainsAppend
    <2> QED
        BY <2>1, <2>2, <2>5, <2>7
<1> QED
    BY <1>4, <1>5, <1>6, <1>7, <1>8 DEF FollowInv

\* Every step keeps the invariant.
LEMMA NextFollows == FollowInv /\ [Next]_vars => FollowInv'
<1> SUFFICES ASSUME FollowInv, [Next]_vars PROVE FollowInv'
    OBVIOUS
<1>1. IInv'
    BY NextKeeps DEF FollowInv
<1>2. CASE ContainerWrites \/ GraceEnds
    BY <1>1, <1>2, QuietKeeps
<1>3. ASSUME NEW k \in Conn,
             \/ SubscribeHub(k) \/ SubscribeStreamer(k)
             \/ UnsubscribeHub(k) \/ UnsubscribeStreamer(k)
      PROVE  FollowInv'
    BY <1>1, <1>3, HubStepKeeps
<1>4. ASSUME NEW k \in Conn, ReadRing(k) PROVE FollowInv'
    BY <1>1, <1>4, ReadRingKeeps
<1>5. ASSUME NEW k \in Conn, Replay(k) PROVE FollowInv'
    BY <1>1, <1>5, ReplayKeeps
<1>6. ASSUME NEW k \in Conn, Deliver(k) \/ Disconnect(k) \/ Leave(k) PROVE FollowInv'
    BY <1>1, <1>6, ConnectionKeeps
<1>7. ASSUME NEW s \in Stream, OpenStream(s) \/ EndStream(s) PROVE FollowInv'
    BY <1>1, <1>7, QuietKeeps
<1>8. ASSUME NEW s \in Stream, PushLine(s) PROVE FollowInv'
    BY <1>1, <1>8, PushKeeps
<1>9. ASSUME NEW s \in Stream, BroadcastLine(s) PROVE FollowInv'
    BY <1>1, <1>9, BroadcastKeeps
<1>10. CASE UNCHANGED vars
    BY <1>1, <1>10 DEF FollowInv, TypeOK, Counted, At, Numbered, Following, NoGap, InFlight,
                       vars, streamVars, connVars
<1> QED
    BY <1>2, <1>3, <1>4, <1>5, <1>6, <1>7, <1>8, <1>9, <1>10 DEF Next, ReadLoop, StreamStep

\* The second strengthening is an invariant of the specification, too.
THEOREM FollowInductive == Spec => []FollowInv
BY InitFollows, NextFollows, PTL DEF Spec

\* The maps, the ring, the goroutines and the connections hold what their
\* types say (streamer.go, ring.go, hub.go, ws.go).
THEOREM TypeCorrect == Spec => []TypeOK
<1>1. FollowInv => TypeOK
    BY DEF FollowInv
<1> QED
    BY <1>1, FollowInductive, PTL

\* A client that follows a log misses no line from the first it was promised
\* on, although it takes three locks one after the other to subscribe and a
\* stream two to pass a line on (ws.go, streamer.go, hub.go).
THEOREM NothingMissed == Spec => []NoGap
<1>1. FollowInv => NoGap
    BY DEF FollowInv
<1> QED
    BY <1>1, FollowInductive, PTL
=============================================================================
