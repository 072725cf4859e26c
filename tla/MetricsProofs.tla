---------------------------- MODULE MetricsProofs ----------------------------
(***************************************************************************)
(* What the parser reports, proved for any interfaces, samples, times and  *)
(* counters: rates neither invent traffic nor lose any, and percentages    *)
(* stay in range.                                                          *)
(*                                                                         *)
(* The rates are right because of a balance that every step keeps, between *)
(* the counters, the totals the parser remembers and the traffic since.    *)
(***************************************************************************)
EXTENDS Metrics, FiniteSetTheorems, TLAPS

\* The numbers up to n are n.
LEMMA UpToCount ==
  ASSUME NEW n \in Nat
  PROVE  IsFiniteSet(1 .. n) /\ Cardinality(1 .. n) = n
<1>1. IsFiniteSet(1 .. n) /\ Cardinality(1 .. n) = IF 1 > n THEN 0 ELSE n - 1 + 1
  BY FS_Interval
<1> QED BY <1>1

USE MetricsAssumption

----------------------------------------------------------------------------
(* Arithmetic.                                                             *)

\* Of natural numbers the larger gives the larger product.
LEMMA ProductMonotone ==
  ASSUME NEW a \in Nat, NEW b \in Nat, NEW c \in Nat, a <= b
  PROVE  a * c <= b * c /\ a * c \in Nat
<1>1. (b - a) * c \in Nat
  <2>1. b - a \in Nat
    OBVIOUS
  <2> QED BY <2>1
<1>2. b * c = a * c + (b - a) * c /\ a * c \in Nat
  OBVIOUS
<1> QED BY <1>1, <1>2

\* A quotient is the number of whole divisors that fit.
LEMMA Quotient ==
  ASSUME NEW a \in Nat, NEW d \in Nat \ {0}
  PROVE  /\ a \div d \in Nat
         /\ d * (a \div d) <= a
         /\ a \div d <= a
<1> DEFINE q == a \div d
           rest == a % d
<1>1. q \in Int /\ a = d * q + rest
  OBVIOUS
<1>2. rest \in 0 .. d - 1
  OBVIOUS
<1> HIDE DEF q, rest
<1>3. q >= 0
  <2> SUFFICES ASSUME q <= -1 PROVE FALSE
    BY <1>1
  <2>1. -q \in Nat /\ 1 <= -q
    BY <1>1
  <2>2. 1 * d <= (-q) * d
    BY <2>1, ProductMonotone
  <2>3. d * q = -((-q) * d)
    BY <1>1
  <2> QED BY <1>1, <1>2, <2>2, <2>3
<1>4. d * q <= a
  BY <1>1, <1>2
<1>5. q <= d * q
  <2>1. 1 * q <= d * q
    BY <1>1, <1>3, ProductMonotone
  <2> QED BY <1>1, <2>1
<1>6. q \in Nat /\ d * q \in Int
  BY <1>1, <1>3
<1>7. q <= a
  BY <1>4, <1>5, <1>6
<1> QED BY <1>4, <1>6, <1>7 DEF q

\* A rounded quotient is a natural number, and no more than c when the
\* dividend is no more than c times the divisor.
LEMMA RoundedBound ==
  ASSUME NEW a \in Nat, NEW b \in Nat \ {0}
  PROVE  /\ Rounded(a, b) \in Nat
         /\ \A c \in Nat : a <= b * c => Rounded(a, b) <= c
<1> DEFINE n == 2 * a + b
           d == 2 * b
           q == n \div d
<1>1. n \in Nat /\ d \in Nat \ {0}
  OBVIOUS
<1> HIDE DEF n, d
<1>2. q \in Nat /\ d * q <= n
  BY <1>1, Quotient
<1> HIDE DEF q
<1>3. ASSUME NEW c \in Nat, a <= b * c PROVE q <= c
  <2> SUFFICES ASSUME c + 1 <= q PROVE FALSE
    BY <1>2
  <2>1. (c + 1) * d <= q * d
    BY <1>1, <1>2, ProductMonotone
  <2>2. q * d = d * q /\ d * q \in Int
    BY <1>1, <1>2
  <2>3. (c + 1) * d = 2 * (b * c) + 2 * b
    BY DEF d
  <2>4. b * c \in Int
    OBVIOUS
  <2>5. n <= 2 * (b * c) + b
    BY <1>3, <2>4 DEF n
  <2> QED BY <1>1, <1>2, <2>1, <2>2, <2>3, <2>4, <2>5
<1> QED BY <1>2, <1>3 DEF Rounded, n, d, q

----------------------------------------------------------------------------
(* Sums.                                                                   *)

\* Counters' units are some of the pairs of an interface and a number of bytes.
LEMMA UnitsBound ==
  ASSUME NEW S \in SUBSET Interface, NEW f \in [S -> 0 .. MaxBytes]
  PROVE  /\ IsFiniteSet(Units(f)) /\ SumOf(f) \in Nat
         /\ SumOf(f) < Word
<1> DEFINE All == Interface \X (1 .. MaxBytes)
<1>1. IsFiniteSet(1 .. MaxBytes) /\ Cardinality(1 .. MaxBytes) = MaxBytes
  BY UpToCount
<1>2. IsFiniteSet(All) /\ Cardinality(All) = Cardinality(Interface) * MaxBytes
  BY <1>1, FS_Product
<1>3. Units(f) \in SUBSET All
  BY DEF Units
<1> HIDE DEF All
<1>4. IsFiniteSet(Units(f)) /\ SumOf(f) <= Cardinality(All)
  BY <1>2, <1>3, FS_Subset DEF SumOf
<1>5. SumOf(f) \in Nat /\ Cardinality(All) \in Nat
  BY <1>2, <1>4, FS_CardinalityType DEF SumOf
<1>6. Cardinality(All) < Word
  BY <1>2
<1> QED BY <1>4, <1>5, <1>6

\* A counter that counts a byte adds one to the sum.
LEMMA SumCounts ==
  ASSUME NEW S \in SUBSET Interface, NEW f \in [S -> 0 .. MaxBytes], NEW i \in S,
         NEW g, g = [f EXCEPT ![i] = f[i] + 1]
  PROVE  SumOf(g) = SumOf(f) + 1
<1> DEFINE new == <<i, f[i] + 1>>
<1>1. f[i] \in Nat
  OBVIOUS
<1>2. 1 .. f[i] + 1 = 1 .. f[i] \cup {f[i] + 1}
  BY <1>1
<1>3. Units(g) = Units(f) \cup {new}
  <2>1. /\ DOMAIN g = S /\ DOMAIN f = S /\ g[i] = f[i] + 1
        /\ \A j \in S \ {i} : g[j] = f[j]
    OBVIOUS
  <2> QED BY <1>2, <2>1 DEF Units
<1>4. new \notin Units(f)
  BY <1>1 DEF Units
<1> HIDE DEF new
<1>5. IsFiniteSet(Units(f))
  BY UnitsBound
<1> QED BY <1>3, <1>4, <1>5, FS_AddElement DEF SumOf

\* An interface that has counted nothing changes no sum.
LEMMA SumIgnoresZero ==
  ASSUME NEW S, NEW f, NEW g, NEW i, DOMAIN f = S, DOMAIN g = S \cup {i},
         \A j \in S \ {i} : g[j] = f[j], g[i] = 0, i \in S => f[i] = 0
  PROVE  SumOf(g) = SumOf(f)
<1>1. 1 .. 0 = {}
  OBVIOUS
<1>2. Units(g) = Units(f)
  BY <1>1 DEF Units
<1> QED BY <1>2 DEF SumOf

\* What fewer interfaces have counted is no more.
LEMMA SumOfFewer ==
  ASSUME NEW S \in SUBSET Interface, NEW f \in [S -> 0 .. MaxBytes], NEW R \in SUBSET S,
         NEW g, g = [i \in R |-> f[i]]
  PROVE  SumOf(g) <= SumOf(f)
<1>1. Units(g) \in SUBSET Units(f)
  BY DEF Units
<1> QED BY <1>1, UnitsBound, FS_Subset DEF SumOf

\* A block device's reads are counted once, whatever the total says.
LEMMA ReadsCountedOnce ==
  ASSUME NEW b \in 0 .. MaxBytes
  PROVE  BlkioTotal(<<[op |-> "Read", value |-> b], [op |-> "Total", value |-> b]>>) = b
<1> DEFINE e1 == [op |-> "Read", value |-> b]
           e2 == [op |-> "Total", value |-> b]
           entries == <<e1, e2>>
           S == {i \in DOMAIN entries : Counts(entries[i].op)}
           counted == [i \in S |-> entries[i].value]
<1>0. DOMAIN entries = 1 .. 2 /\ entries[1] = e1 /\ entries[2] = e2
  OBVIOUS
<1>p. e1.op = "Read" /\ e2.op = "Total" /\ e1.value = b
  OBVIOUS
<1> HIDE DEF entries, e1, e2
<1>1. S = {1}
  BY <1>0, <1>p DEF Counts
<1> HIDE DEF S
<1>2. DOMAIN counted = {1} /\ counted[1] = b
  BY <1>0, <1>1, <1>p
<1> HIDE DEF counted
<1>3. Units(counted) = {1} \X (1 .. b)
  BY <1>2 DEF Units
<1>4. b \in Nat /\ IsFiniteSet(1 .. b) /\ Cardinality(1 .. b) = b
  <2>1. b \in Nat
    OBVIOUS
  <2> QED BY <2>1, UpToCount
<1>5. IsFiniteSet({1}) /\ Cardinality({1}) = 1
  BY FS_Singleton
<1>6. Cardinality({1} \X (1 .. b)) = b
  <2>1. Cardinality({1} \X (1 .. b)) = Cardinality({1}) * Cardinality(1 .. b)
    BY <1>4, <1>5, FS_Product
  <2> QED BY <1>4, <1>5, <2>1
<1>7. SumOf(counted) = b
  BY <1>3, <1>6 DEF SumOf
<1>8. b % Word = b
  <2>1. b \in 0 .. Word - 1
    OBVIOUS
  <2> QED BY <2>1
<1> QED BY <1>7, <1>8 DEF BlkioTotal, counted, S, entries, e1, e2

----------------------------------------------------------------------------
(* The formulas.                                                           *)

\* Percentages of the CPU are natural numbers, and at most a hundred for each
\* CPU when the container's counter grew no more than the system's.
LEMMA CPUInRange ==
  ASSUME NEW c \in [total : Bytes, system : Bytes, preTotal : Bytes, preSystem : Bytes,
                    online : Nat, percpu : Nat]
  PROVE  /\ CPUPercent(c) \in Nat
         /\ c.total - c.preTotal <= c.system - c.preSystem => CPUPercent(c) <= 10000 * Cpus(c)
<1> DEFINE x == c.total - c.preTotal
           y == c.system - c.preSystem
           n == Cpus(c)
<1>1. x \in Int /\ y \in Int /\ n \in Nat
  BY DEF Bytes, Cpus
<1>2. CASE Unusable(c)
  BY <1>1, <1>2 DEF CPUPercent
<1>3. CASE ~Unusable(c)
  <2>1. x \in Nat /\ y \in Nat \ {0}
    BY <1>1, <1>3 DEF Unusable, Bytes
  <2>2. CPUPercent(c) = Rounded(x * n * 10000, y)
    BY <1>3 DEF CPUPercent
  <2> HIDE DEF x, y, n
  <2>3. x * n \in Nat /\ (x <= y => x * n <= y * n)
    BY <1>1, <2>1, ProductMonotone
  <2> DEFINE a == x * n * 10000
             b == 10000 * n
  <2>4. a \in Nat /\ b \in Nat
    BY <1>1, <2>3
  <2>5. x <= y => a <= y * b
    <3>1. y * b = 10000 * (y * n) /\ a = 10000 * (x * n) /\ y * n \in Int
      BY <1>1, <2>1
    <3> HIDE DEF a, b
    <3> QED BY <2>3, <3>1
  <2> HIDE DEF a, b
  <2>6. Rounded(a, y) \in Nat /\ (x <= y => Rounded(a, y) <= b)
    BY <2>1, <2>4, <2>5, RoundedBound
  <2> QED BY <2>2, <2>6 DEF a, b, x, y, n
<1> QED BY <1>2, <1>3

\* Memory without its cache is no more than was counted, and its percentage at
\* most a hundred when that is within the limit.
LEMMA MemoryInRange ==
  ASSUME NEW m \in [usage : Bytes, limit : Bytes, inactive : Bytes, totalInactive : Bytes]
  PROVE  /\ Used(m) \in Bytes /\ Used(m) <= m.usage
         /\ MemoryPercent(m) \in Nat
         /\ m.usage <= m.limit => MemoryPercent(m) <= 10000
<1>1. /\ m.usage \in Bytes /\ m.limit \in Bytes /\ Inactive(m) \in Bytes
  BY DEF Inactive
<1>2. Used(m) \in Bytes /\ Used(m) <= m.usage
  BY <1>1 DEF Used, Bytes
<1>3. CASE m.limit > 0
  <2> DEFINE u == Used(m)
             a == u * 10000
             l == m.limit
  <2>1. u \in Nat /\ l \in Nat \ {0} /\ (m.usage <= l => u <= l)
    BY <1>1, <1>2, <1>3 DEF Bytes
  <2> HIDE DEF u, l
  <2>2. a \in Nat /\ (m.usage <= l => a <= l * 10000)
    BY <2>1
  <2> HIDE DEF a
  <2>3. Rounded(a, l) \in Nat /\ (m.usage <= l => Rounded(a, l) <= 10000)
    BY <2>1, <2>2, RoundedBound
  <2>4. MemoryPercent(m) = Rounded(a, l)
    BY <1>3 DEF MemoryPercent, a, u, l
  <2> QED BY <1>2, <2>3, <2>4 DEF l
<1>4. CASE ~(m.limit > 0)
  BY <1>2, <1>4 DEF MemoryPercent
<1> QED BY <1>3, <1>4

\* What a counter has grown by, in the word's range.
LEMMA GrownType ==
  ASSUME NEW a \in Bytes, NEW b \in Bytes
  PROVE  Grown(a, b) \in Bytes
BY DEF Grown, Bytes

----------------------------------------------------------------------------
(* The invariant.                                                          *)

NetNow == SumOf([i \in Attached |-> net[i]])

\* What the parser remembers and what was carried since account for what the
\* daemon counts now.
Books ==
    /\ state.hasPrev <=> heard # None
    /\ state.hasPrev =>
          /\ state.time = heard
          /\ NetNow <= state.prev["net"] + carried["net"]
          /\ ~fell => NetNow = state.prev["net"] + carried["net"]
          /\ blk = state.prev["read"] + carried["read"]

Reported == NoPhantomTraffic /\ AllTrafficCounts /\ PercentsInRange

IInv == TypeOK /\ Books /\ Reported

\* The counters of the attached interfaces are numbers.
LEMMA AttachedCounters ==
  ASSUME TypeOK
  PROVE  /\ Attached \in SUBSET Interface
         /\ [i \in Attached |-> net[i]] \in [Attached -> 0 .. MaxBytes]
BY DEF TypeOK, Attached

LEMMA InitHolds == Init => IInv
<1> SUFFICES ASSUME Init PROVE IInv
  OBVIOUS
<1>1. TypeOK
  <2>1. 0 \in Bytes /\ 0 \in 0 .. MaxBytes
    BY DEF Bytes
  <2>2. NoTraffic \in [Flow -> Bytes] /\ NoTraffic \in [Flow -> 0 .. MaxBytes]
    BY <2>1 DEF NoTraffic
  <2>3. NewState \in ParseState
    BY <2>2 DEF NewState, ParseState
  <2> QED BY <2>1, <2>2, <2>3 DEF Init, TypeOK, NoPoint
<1>2. Books
  BY DEF Init, Books, NewState
<1>3. Reported
  BY DEF Init, Reported, NoPhantomTraffic, AllTrafficCounts, PercentsInRange, NoPoint, NothingDue, NoTraffic, Flow
<1> QED BY <1>1, <1>2, <1>3 DEF IInv

\* Between messages nothing is reported.
LEMMA NothingReported ==
  ASSUME Delivered
  PROVE  /\ Reported'
         /\ point'.cpu \in Nat /\ point'.memory \in Bytes /\ point'.memoryPercent \in Nat
         /\ point'.rate \in [Flow -> Bytes]
BY DEF Delivered, Reported, NoPhantomTraffic, AllTrafficCounts, PercentsInRange,
       NoPoint, NothingDue, NoTraffic, Flow, Bytes

\* An interface counts a byte that was carried.
LEMMA ReceivesKeeps ==
  ASSUME IInv, NEW i \in Interface, Receives(i)
  PROVE  IInv'
<1> DEFINE f == [j \in Attached |-> net[j]]
           g == [j \in Attached' |-> net'[j]]
<1>1. /\ net[i] \in 0 .. MaxBytes - 1 /\ net' = [net EXCEPT ![i] = net[i] + 1]
      /\ carried["net"] < MaxBytes /\ carried' = [carried EXCEPT !["net"] = carried["net"] + 1]
      /\ UNCHANGED <<blk, state, fell, heard>> /\ Delivered
  BY DEF IInv, TypeOK, Receives, Carry
<1>2. TypeOK'
  BY <1>1, NothingReported DEF IInv, TypeOK, Flow
<1>3. SumOf(g) = SumOf(f) + 1 /\ SumOf(f) \in Nat
  <2>1. Attached' = Attached /\ i \in Attached
    BY <1>1 DEF Attached, IInv, TypeOK
  <2>2. Attached \in SUBSET Interface /\ f \in [Attached -> 0 .. MaxBytes]
    BY AttachedCounters DEF IInv
  <2>3. g = [f EXCEPT ![i] = f[i] + 1]
    BY <1>1, <2>1 DEF IInv, TypeOK, Attached
  <2> HIDE DEF f, g
  <2> QED BY <2>1, <2>2, <2>3, SumCounts, UnitsBound
<1>4. Books'
  <2>1. NetNow' = NetNow + 1 /\ NetNow \in Nat
    BY <1>3 DEF NetNow
  <2>2. /\ carried'["net"] = carried["net"] + 1 /\ carried'["read"] = carried["read"]
        /\ carried["net"] \in Nat /\ state.prev["net"] \in Nat
    BY <1>1 DEF IInv, TypeOK, ParseState, Flow, Bytes
  <2> QED BY <1>1, <2>1, <2>2 DEF IInv, Books
<1> QED BY <1>1, <1>2, <1>4, NothingReported DEF IInv

\* So does a block device.
LEMMA ReadsKeeps ==
  ASSUME IInv, Reads
  PROVE  IInv'
<1>1. /\ blk < MaxBytes /\ blk' = blk + 1
      /\ carried["read"] < MaxBytes /\ carried' = [carried EXCEPT !["read"] = carried["read"] + 1]
      /\ UNCHANGED <<net, state, fell, heard>> /\ Delivered
  BY DEF Reads, Carry
<1>2. TypeOK'
  BY <1>1, NothingReported DEF IInv, TypeOK, Flow
<1>3. Books'
  <2>1. /\ carried'["read"] = carried["read"] + 1 /\ carried'["net"] = carried["net"]
        /\ carried["read"] \in Nat /\ state.prev["read"] \in Nat /\ blk \in Nat
    BY <1>1 DEF IInv, TypeOK, ParseState, Flow, Bytes
  <2>2. NetNow' = NetNow
    BY <1>1 DEF NetNow, Attached
  <2> QED BY <1>1, <2>1, <2>2 DEF IInv, Books
<1> QED BY <1>1, <1>2, <1>3, NothingReported DEF IInv

\* An interface that is attached starts at zero.
LEMMA AttachKeeps ==
  ASSUME IInv, NEW i \in Interface, Attach(i)
  PROVE  IInv'
<1> DEFINE f == [j \in Attached |-> net[j]]
           g == [j \in Attached' |-> net'[j]]
<1>1. /\ net[i] = None /\ net' = [net EXCEPT ![i] = 0]
      /\ UNCHANGED <<blk, state, carried, fell, heard>> /\ Delivered
  BY DEF Attach
<1>2. TypeOK'
  BY <1>1, NothingReported DEF IInv, TypeOK
<1>3. SumOf(g) = SumOf(f)
  <2>1. Attached' = Attached \cup {i} /\ i \notin Attached
    BY <1>1 DEF Attached, IInv, TypeOK
  <2>2. \A j \in Attached \ {i} : g[j] = f[j]
    BY <1>1, <2>1 DEF IInv, TypeOK, Attached
  <2>3. g[i] = 0 /\ DOMAIN f = Attached /\ DOMAIN g = Attached \cup {i}
    BY <1>1, <2>1 DEF IInv, TypeOK
  <2> HIDE DEF f, g
  <2> QED BY <2>1, <2>2, <2>3, SumIgnoresZero
<1>4. Books'
  BY <1>1, <1>3 DEF IInv, Books, NetNow
<1> QED BY <1>1, <1>2, <1>4, NothingReported DEF IInv

\* One that is detached takes its bytes with it.
LEMMA DetachKeeps ==
  ASSUME IInv, NEW i \in Interface, Detach(i)
  PROVE  IInv'
<1> DEFINE f == [j \in Attached |-> net[j]]
           g == [j \in Attached' |-> net'[j]]
<1>1. /\ net[i] \in Nat /\ net' = [net EXCEPT ![i] = None]
      /\ fell' = (fell \/ net[i] > 0)
      /\ UNCHANGED <<blk, state, carried, heard>> /\ Delivered
  BY DEF IInv, TypeOK, Detach
<1>2. TypeOK'
  BY <1>1, NothingReported DEF IInv, TypeOK
<1>3. /\ SumOf(g) <= SumOf(f) /\ SumOf(g) \in Nat /\ SumOf(f) \in Nat
      /\ net[i] = 0 => SumOf(g) = SumOf(f)
  <2>1. Attached' = Attached \ {i} /\ i \in Attached
    BY <1>1 DEF Attached, IInv, TypeOK
  <2>2. /\ Attached \in SUBSET Interface /\ f \in [Attached -> 0 .. MaxBytes]
        /\ Attached' \in SUBSET Interface /\ g \in [Attached' -> 0 .. MaxBytes]
    BY <1>2 DEF IInv, TypeOK, Attached
  <2>3. g = [j \in Attached \ {i} |-> f[j]]
    BY <1>1, <2>1 DEF IInv, TypeOK, Attached
  <2>4. f[i] = net[i]
    BY <2>1
  <2> DEFINE A == Attached
             B == Attached'
  <2>5. A \in SUBSET Interface /\ B \in SUBSET A /\ B = A \ {i} /\ i \in A
    BY <2>1, <2>2
  <2> HIDE DEF f, g, A, B
  <2>6. SumOf(g) <= SumOf(f)
    BY <2>2, <2>3, <2>5, SumOfFewer DEF A, B
  <2>7. net[i] = 0 => SumOf(g) = SumOf(f)
    <3>1. DOMAIN g = B /\ DOMAIN f = B \cup {i} /\ i \notin B /\ \A j \in B : f[j] = g[j]
      BY <2>2, <2>3, <2>5 DEF A, B
    <3> QED BY <2>4, <3>1, SumIgnoresZero
  <2> QED BY <2>2, <2>6, <2>7, UnitsBound
<1>4. Books'
  <2>1. /\ carried["net"] \in Nat /\ state.prev["net"] \in Nat
    BY DEF IInv, TypeOK, ParseState, Flow, Bytes
  <2>2. /\ NetNow' <= NetNow /\ NetNow' \in Nat /\ NetNow \in Nat
        /\ net[i] = 0 => NetNow' = NetNow
    BY <1>3 DEF NetNow
  <2>4. ~fell' => (~fell /\ ~(net[i] > 0))
    BY <1>1, Zenon
  <2>3. ~fell' => (~fell /\ net[i] = 0)
    BY <1>1, <2>4
  <2> QED BY <1>1, <2>1, <2>2, <2>3 DEF IInv, Books
<1> QED BY <1>1, <1>2, <1>4, NothingReported DEF IInv

\* The rates a message is reported with: they cover no more than what was
\* carried, and all of it where no counter fell.
LEMMA RatesAreTraffic ==
  ASSUME IInv, NEW m \in Message, NEW f \in Flow
  PROVE  LET secs == m.read - state.time
         IN  /\ Totals(m)["net"] = NetNow /\ Totals(m)["read"] = blk /\ Totals(m)[f] \in Bytes
             /\ Rate(m, state, f) \in Bytes
             /\ (state.hasPrev /\ Rate(m, state, f) > 0)
                    => (secs > 0 /\ Rate(m, state, f) * secs <= carried[f])
             /\ (state.hasPrev /\ secs > 0 /\ ~fell)
                    => Rate(m, state, f) = carried[f] \div secs
             /\ ~state.hasPrev => Rate(m, state, f) = 0
<1> DEFINE now == Totals(m)[f]
           before == state.prev[f]
           grown == Grown(now, before)
           secs == m.read - state.time
<1>1. /\ m.read \in Instant /\ m.networks = [i \in Attached |-> net[i]]
      /\ m.entries = <<[op |-> "Read", value |-> blk], [op |-> "Total", value |-> blk]>>
  BY DEF Message
<1>2. /\ state.time \in Int /\ before \in Bytes /\ carried[f] \in Nat /\ blk \in 0 .. MaxBytes
      /\ state.prev["net"] \in Nat /\ state.prev["read"] \in Nat
      /\ carried["net"] \in Nat /\ carried["read"] \in Nat
  <2>1. /\ state.time \in Instant \cup {0} /\ state.prev \in [Flow -> Bytes]
        /\ carried \in [Flow -> 0 .. MaxBytes] /\ blk \in 0 .. MaxBytes
    BY DEF IInv, TypeOK, ParseState
  <2>2. "net" \in Flow /\ "read" \in Flow
    BY DEF Flow
  <2>3. state.time \in Int
    <3>1. state.time \in Instant \/ state.time = 0
      BY <2>1, Zenon
    <3>2. CASE state.time \in Instant
      BY <3>2, Zenon
    <3> QED BY <3>1, <3>2
  <2>4. before \in Bytes /\ state.prev["net"] \in Nat /\ state.prev["read"] \in Nat
    BY <2>1, <2>2 DEF Bytes
  <2>5. carried[f] \in Nat /\ carried["net"] \in Nat /\ carried["read"] \in Nat
    BY <2>1, <2>2
  <2> QED BY <2>1, <2>3, <2>4, <2>5
<1>3. NetNow \in Nat /\ NetNow < Word
  <2> DEFINE counters == [i \in Attached |-> net[i]]
  <2>1. Attached \in SUBSET Interface /\ counters \in [Attached -> 0 .. MaxBytes]
    BY AttachedCounters DEF IInv
  <2> HIDE DEF counters
  <2>2. SumOf(counters) \in Nat /\ SumOf(counters) < Word
    BY <2>1, UnitsBound
  <2> QED BY <2>2 DEF NetNow, counters
<1>4. Totals(m)["net"] = NetNow
  <2>1. Totals(m)["net"] = NetNow % Word
    BY <1>1 DEF Totals, Flow, NetTotal, NetNow
  <2>2. NetNow \in 0 .. Word - 1
    BY <1>3
  <2> QED BY <2>1, <2>2
<1>5. Totals(m)["read"] = blk
  BY <1>1, <1>2, ReadsCountedOnce DEF Totals, Flow
<1>6. now \in Bytes
  BY <1>2, <1>3, <1>4, <1>5 DEF Flow, Bytes
<1>7. state.hasPrev => (grown <= carried[f] /\ (~fell => grown = carried[f]))
  <2> SUFFICES ASSUME state.hasPrev PROVE grown <= carried[f] /\ (~fell => grown = carried[f])
    OBVIOUS
  <2>1. /\ NetNow <= state.prev["net"] + carried["net"]
        /\ ~fell => NetNow = state.prev["net"] + carried["net"]
        /\ blk = state.prev["read"] + carried["read"]
    BY DEF IInv, Books
  <2>2. CASE f = "net"
    BY <1>2, <1>3, <1>4, <2>1, <2>2 DEF Grown
  <2>3. CASE f = "read"
    BY <1>2, <1>5, <2>1, <2>3 DEF Grown
  <2> QED BY <2>2, <2>3 DEF Flow
<1>8. grown \in Bytes /\ grown \in Nat
  <2>1. grown \in Bytes
    BY <1>2, <1>6, GrownType
  <2> HIDE DEF grown
  <2> QED BY <2>1 DEF Bytes
<1>9. secs \in Int /\ (m.read > state.time <=> secs > 0)
  <2>1. m.read \in Int /\ state.time \in Int
    BY <1>1, <1>2
  <2> QED BY <2>1
<1>10. Rate(m, state, f) = IF state.hasPrev /\ secs > 0 THEN grown \div secs ELSE 0
  BY <1>9 DEF Rate
<1> HIDE DEF grown, secs, now, before
<1>11. CASE state.hasPrev /\ secs > 0
  <2> DEFINE q == grown \div secs
  <2>1. q \in Nat /\ secs * q <= grown /\ q <= grown
    BY <1>8, <1>9, <1>11, Quotient
  <2>2. Rate(m, state, f) = q
    BY <1>10, <1>11
  <2>3. ~fell => q = carried[f] \div secs
    BY <1>7, <1>11
  <2> HIDE DEF q
  <2>4. q * secs = secs * q
    BY <1>9, <2>1
  <2>5. q \in Bytes
    BY <1>8, <2>1 DEF Bytes
  <2>6. secs * q \in Int
    BY <1>9, <2>1
  <2>7. q * secs <= carried[f]
    BY <1>2, <1>7, <1>8, <1>11, <2>1, <2>4, <2>6
  <2> QED BY <1>4, <1>5, <1>6, <1>11, <2>2, <2>3, <2>5, <2>7 DEF secs, now
<1>12. CASE ~(state.hasPrev /\ secs > 0)
  <2>1. Rate(m, state, f) = 0 /\ 0 \in Bytes
    BY <1>10, <1>12 DEF Bytes
  <2> QED BY <1>4, <1>5, <1>6, <1>12, <2>1 DEF secs, now
<1> QED BY <1>11, <1>12

\* A message that can be read settles the books, and its point says what was
\* carried since the one before.
LEMMA ParseKeeps ==
  ASSUME IInv, NEW m \in Message, Parse(m)
  PROVE  IInv'
<1>1. /\ m.read \in Instant /\ m.read \in Int /\ m.sample \in Sample
      /\ m.sample.cpu \in [total : Bytes, system : Bytes, preTotal : Bytes, preSystem : Bytes,
                           online : Nat, percpu : Nat]
      /\ m.sample.mem \in [usage : Bytes, limit : Bytes, inactive : Bytes, totalInactive : Bytes]
  BY DEF Message
<1>2. /\ state' = [hasPrev |-> TRUE, time |-> m.read, prev |-> Totals(m)]
      /\ carried' = NoTraffic /\ fell' = FALSE /\ heard' = m.read /\ UNCHANGED <<net, blk>>
  BY DEF Parse
<1>3. /\ point'.cpu = CPUPercent(m.sample.cpu)
      /\ point'.memory = Used(m.sample.mem)
      /\ point'.memoryPercent = MemoryPercent(m.sample.mem)
      /\ point'.rate = [f \in Flow |-> Rate(m, state, f)]
  BY DEF Parse, StatsPoint
<1>4. /\ due'.known <=> heard # None
      /\ due'.carried = carried /\ due'.fell = fell /\ due'.sample = m.sample
      /\ due'.seconds = IF heard = None THEN 0 ELSE m.read - heard
  BY DEF Parse
<1>5. /\ state.hasPrev <=> heard # None
      /\ state.hasPrev => state.time = heard
  BY DEF IInv, Books
<1>6. /\ Totals(m)["net"] = NetNow /\ Totals(m)["read"] = blk
      /\ \A f \in Flow : Totals(m)[f] \in Bytes /\ Rate(m, state, f) \in Bytes
  BY RatesAreTraffic DEF Flow
<1>7. TypeOK'
  <2>1. Totals(m) \in [Flow -> Bytes]
    BY <1>6 DEF Totals
  <2>2. state' \in ParseState
    BY <1>1, <1>2, <2>1 DEF ParseState
  <2>3. /\ point'.cpu \in Nat /\ point'.memory \in Bytes /\ point'.memoryPercent \in Nat
        /\ point'.rate \in [Flow -> Bytes]
    BY <1>1, <1>3, <1>6, CPUInRange, MemoryInRange
  <2>4. carried' \in [Flow -> 0 .. MaxBytes]
    BY <1>2 DEF NoTraffic
  <2> QED BY <1>1, <1>2, <2>2, <2>3, <2>4 DEF IInv, TypeOK
<1>8. Books'
  <2>1. NetNow' = NetNow
    BY <1>2 DEF NetNow, Attached
  <2>2. NetNow \in Int /\ blk \in Int
    BY <1>6 DEF IInv, TypeOK, Flow, Bytes
  <2>3. carried'["net"] = 0 /\ carried'["read"] = 0
    BY <1>2 DEF NoTraffic, Flow
  <2>4. m.read # None
    BY <1>1
  <2> QED BY <1>2, <1>6, <2>1, <2>2, <2>3, <2>4 DEF Books
<1>9. NoPhantomTraffic'
  <2> SUFFICES ASSUME NEW f \in Flow, point'.rate[f] > 0
               PROVE  point'.rate[f] * due'.seconds <= due'.carried[f]
    BY DEF NoPhantomTraffic
  <2>1. point'.rate[f] = Rate(m, state, f)
    BY <1>3
  <2>2. state.hasPrev
    BY <2>1, RatesAreTraffic
  <2>3. Rate(m, state, f) * (m.read - state.time) <= carried[f]
    BY <2>1, <2>2, RatesAreTraffic
  <2> QED BY <1>4, <1>5, <2>1, <2>2, <2>3
<1>10. AllTrafficCounts'
  <2> SUFFICES ASSUME due'.known, ~due'.fell, due'.seconds > 0, NEW f \in Flow
               PROVE  point'.rate[f] = due'.carried[f] \div due'.seconds
    BY DEF AllTrafficCounts
  <2>1. state.hasPrev /\ ~fell /\ due'.seconds = m.read - state.time
    BY <1>4, <1>5
  <2>2. Rate(m, state, f) = carried[f] \div (m.read - state.time)
    BY <2>1, RatesAreTraffic
  <2> QED BY <1>3, <1>4, <2>1, <2>2
<1>11. PercentsInRange'
  BY <1>1, <1>3, <1>4, CPUInRange, MemoryInRange DEF PercentsInRange
<1> QED BY <1>7, <1>8, <1>9, <1>10, <1>11 DEF IInv, Reported

\* One that cannot be read leaves the state as it was.
LEMMA ParseFailsKeeps ==
  ASSUME IInv, ParseFails
  PROVE  IInv'
<1>1. UNCHANGED <<net, blk, state, carried, fell, heard>> /\ Delivered
  BY DEF ParseFails, StateAfterError
<1>2. TypeOK'
  BY <1>1, NothingReported DEF IInv, TypeOK
<1>3. Books'
  BY <1>1 DEF IInv, Books, NetNow, Attached
<1> QED BY <1>1, <1>2, <1>3, NothingReported DEF IInv

\* A new stream starts without a message before it.
LEMMA RestartKeeps ==
  ASSUME IInv, StreamRestarts
  PROVE  IInv'
<1>1. NoTraffic \in [Flow -> Bytes] /\ NoTraffic \in [Flow -> 0 .. MaxBytes]
  BY DEF NoTraffic, Bytes
<1>2. NewState \in ParseState /\ NewState.hasPrev = FALSE
  BY <1>1 DEF NewState, ParseState
<1>3. TypeOK'
  <2>1. /\ net' = [i \in Interface |-> None] /\ blk' = 0 /\ state' = NewState
        /\ carried' = NoTraffic /\ fell' = FALSE /\ heard' = None /\ Delivered
    BY DEF StreamRestarts
  <2>2. net' \in [Interface -> 0 .. MaxBytes \cup {None}] /\ 0 \in 0 .. MaxBytes
    BY <2>1
  <2> QED BY <1>1, <1>2, <2>1, <2>2, NothingReported DEF TypeOK
<1>4. Books'
  BY <1>2 DEF StreamRestarts, Books
<1> QED BY <1>3, <1>4, NothingReported DEF IInv, StreamRestarts

LEMMA NextKeeps == IInv /\ [Next]_vars => IInv'
<1> SUFFICES ASSUME IInv, [Next]_vars PROVE IInv'
  OBVIOUS
<1>1. CASE UNCHANGED vars
  <2>1. UNCHANGED <<net, blk, state, point, carried, fell, heard, due>>
    BY <1>1 DEF vars
  <2>2. TypeOK' /\ Books'
    BY <2>1 DEF IInv, TypeOK, Books, NetNow, Attached
  <2>3. Reported'
    BY <2>1 DEF IInv, Reported, NoPhantomTraffic, AllTrafficCounts, PercentsInRange
  <2> QED BY <2>2, <2>3 DEF IInv
<1>2. CASE Next
  BY <1>2, ReceivesKeeps, AttachKeeps, DetachKeeps, ReadsKeeps, ParseKeeps, ParseFailsKeeps, RestartKeeps
     DEF Next
<1> QED BY <1>1, <1>2

\* The invariant holds throughout.
THEOREM Invariance == Spec => []IInv
  BY InitHolds, NextKeeps, PTL DEF Spec

\* Every variable keeps its type: no rate and no total leaves its word.
THEOREM TypeCorrect == Spec => []TypeOK
<1>1. IInv => TypeOK
  BY DEF IInv
<1> QED BY <1>1, Invariance, PTL

\* Rates claim no traffic that was not carried (ParseRawStats).
THEOREM NothingInvented == Spec => []NoPhantomTraffic
<1>1. IInv => NoPhantomTraffic
  BY DEF IInv, Reported
<1> QED BY <1>1, Invariance, PTL

\* And lose none while no counter falls, whatever could not be read between.
THEOREM NothingLost == Spec => []AllTrafficCounts
<1>1. IInv => AllTrafficCounts
  BY DEF IInv, Reported
<1> QED BY <1>1, Invariance, PTL

\* Percentages are in range for every sample (CalculateCPUPercent,
\* CalculateMemory).
THEOREM PercentsBounded == Spec => []PercentsInRange
<1>1. IInv => PercentsInRange
  BY DEF IInv, Reported
<1> QED BY <1>1, Invariance, PTL
=============================================================================
