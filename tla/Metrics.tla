------------------------------- MODULE Metrics -------------------------------
(***************************************************************************)
(* What a stats stream's messages become (internal/stats/parse.go), as the *)
(* goroutine of a container calls it, one message after another            *)
(* (runContainerStream, internal/stats/collector.go).                      *)
(*                                                                         *)
(* The daemon counts bytes from the moment an interface is attached, so a  *)
(* total falls when one is detached or the container starts again; the     *)
(* parser keeps the totals of the last message it could read and reports   *)
(* rates.  Of the two directions of the network, which are treated alike,  *)
(* the model has one, and of a block device's operations the reads.  A     *)
(* message's time of reading is any instant: the daemon's clock may be set *)
(* back, and a message without a time has Go's zero time, an early one.    *)
(*                                                                         *)
(* Percentages are hundredths of a percent, for that is what the parser    *)
(* rounds them to.  Bytes are unsigned words.                              *)
(*                                                                         *)
(* carried, fell, heard and due are auxiliary variables: the traffic since *)
(* the last message of the stream that could be read, whether a counter    *)
(* fell since, that message's time, and what the point is to be judged by. *)
(***************************************************************************)
EXTENDS Integers, Sequences, FiniteSets

CONSTANTS
    Interface,    \* network interfaces
    None,         \* an interface that is not attached
    Instant,      \* times of reading, in seconds
    Sample,       \* what messages may say of CPU and memory
    MaxBytes,     \* bound: of a counter, and of the traffic between two messages
    Word          \* 2 ^ 64

Bytes == 0 .. Word - 1

\* A counter never gets as far as to wrap, and neither does a sum of them.
ASSUME MetricsAssumption ==
    /\ None \notin Int
    /\ Instant \subseteq Int
    /\ Sample \subseteq
         [cpu : [total : Bytes, system : Bytes, preTotal : Bytes, preSystem : Bytes,
                 online : Nat, percpu : Nat],
          mem : [usage : Bytes, limit : Bytes, inactive : Bytes, totalInactive : Bytes]]
    /\ IsFiniteSet(Interface)
    /\ MaxBytes \in Nat \ {0}
    /\ Word \in Nat
    /\ MaxBytes < Word /\ Cardinality(Interface) * MaxBytes < Word

VARIABLES
    net,      \* the daemon: bytes counted by each interface, or None
    blk,      \* the daemon: bytes read from block devices
    state,    \* runContainerStream's parseState
    point,    \* the StatsPoint just reported; the next step takes it away
    carried, fell, heard, due

vars == <<net, blk, state, point, carried, fell, heard, due>>

Flow == {"net", "read"}
NoTraffic == [f \in Flow |-> 0]

ParseState == [hasPrev : BOOLEAN, time : Instant \cup {0}, prev : [Flow -> Bytes]]
NewState == [hasPrev |-> FALSE, time |-> 0, prev |-> NoTraffic]

TypeOK ==
    /\ net \in [Interface -> 0 .. MaxBytes \cup {None}]
    /\ blk \in 0 .. MaxBytes
    /\ state \in ParseState
    /\ point.cpu \in Nat
    /\ point.memory \in Bytes
    /\ point.memoryPercent \in Nat
    /\ point.rate \in [Flow -> Bytes]
    /\ carried \in [Flow -> 0 .. MaxBytes]
    /\ fell \in BOOLEAN
    /\ heard \in Instant \cup {None}

----------------------------------------------------------------------------
(* parse.go.  A definition named for its fault is a faulty variant of the  *)
(* one after it.                                                           *)

\* math.Round(x * 100) / 100 of the non-negative quotient a / b.
Rounded(a, b) == (2 * a + b) \div (2 * b)

Cpus(c) == IF c.online # 0 THEN c.online ELSE IF c.percpu # 0 THEN c.percpu ELSE 1

UnusableOnlyIfStill(c) == c.system <= c.preSystem
Unusable(c) == c.system <= c.preSystem \/ c.total < c.preTotal

\* CalculateCPUPercent.
CPUPercent(c) ==
    IF Unusable(c) THEN 0
    ELSE Rounded((c.total - c.preTotal) * Cpus(c) * 10000, c.system - c.preSystem)

\* CalculateMemory: what is used, without the page cache that can be dropped.
Inactive(m) == IF m.inactive = 0 THEN m.totalInactive ELSE m.inactive

UsedWraps(m) == (m.usage - Inactive(m)) % Word
Used(m) == IF m.usage > Inactive(m) THEN m.usage - Inactive(m) ELSE m.usage

MemoryPercent(m) == IF m.limit > 0 THEN Rounded(Used(m) * 10000, m.limit) ELSE 0

\* The sum of f's values, which are natural numbers, is the number of units
\* they count.
Units(f) == UNION {{i} \X (1 .. f[i]) : i \in DOMAIN f}
SumOf(f) == Cardinality(Units(f))

\* CalculateNetTotal and CalculateBlkioTotal.  Operations are spelled in upper
\* or lower case, and "total" repeats what "read" and "write" count.
NetTotal(networks) == SumOf(networks) % Word

CountsAny(op) == TRUE
Counts(op) == op \in {"read", "Read"}
BlkioTotal(entries) ==
    SumOf([i \in {i \in DOMAIN entries : Counts(entries[i].op)} |-> entries[i].value]) % Word

Totals(m) ==
    [f \in Flow |-> IF f = "net" THEN NetTotal(m.networks) ELSE BlkioTotal(m.entries)]

\* A rate is reported only of a total that has not fallen.
GrownWraps(now, before) == (now - before) % Word
Grown(now, before) == IF now >= before THEN now - before ELSE 0

Rate(m, s, f) ==
    IF s.hasPrev /\ m.read > s.time
    THEN Grown(Totals(m)[f], s.prev[f]) \div (m.read - s.time)
    ELSE 0

StatsPoint(m, s) ==
    [cpu |-> CPUPercent(m.sample.cpu),
     memory |-> Used(m.sample.mem),
     memoryPercent |-> MemoryPercent(m.sample.mem),
     rate |-> [f \in Flow |-> Rate(m, s, f)]]

----------------------------------------------------------------------------
(* The daemon.                                                             *)

NoPoint == [cpu |-> 0, memory |-> 0, memoryPercent |-> 0, rate |-> NoTraffic]

NothingDue == [known |-> FALSE, carried |-> NoTraffic, fell |-> FALSE, seconds |-> 0,
               sample |-> None]

Delivered == point' = NoPoint /\ due' = NothingDue

Init ==
    /\ net = [i \in Interface |-> None]
    /\ blk = 0
    /\ state = NewState
    /\ point = NoPoint
    /\ carried = NoTraffic
    /\ fell = FALSE
    /\ heard = None
    /\ due = NothingDue

Carry(f) ==
    /\ carried[f] < MaxBytes
    /\ carried' = [carried EXCEPT ![f] = @ + 1]
    /\ Delivered
    /\ UNCHANGED <<state, fell, heard>>

Receives(i) ==
    /\ net[i] # None /\ net[i] < MaxBytes
    /\ net' = [net EXCEPT ![i] = @ + 1]
    /\ Carry("net")
    /\ UNCHANGED blk

Reads ==
    /\ blk < MaxBytes
    /\ blk' = blk + 1
    /\ Carry("read")
    /\ UNCHANGED net

Attach(i) ==
    /\ net[i] = None
    /\ net' = [net EXCEPT ![i] = 0]
    /\ Delivered
    /\ UNCHANGED <<blk, state, carried, fell, heard>>

Detach(i) ==
    /\ net[i] # None
    /\ net' = [net EXCEPT ![i] = None]
    /\ fell' = (fell \/ net[i] > 0)
    /\ Delivered
    /\ UNCHANGED <<blk, state, carried, heard>>

----------------------------------------------------------------------------
(* The stream.                                                             *)

Attached == {i \in Interface : net[i] # None}

Message ==
    [read : Instant, networks : {[i \in Attached |-> net[i]]},
     entries : {<<[op |-> "Read", value |-> blk], [op |-> "Total", value |-> blk]>>},
     sample : Sample]

\* A message that ParseRawStats can read: it returns the point and the new
\* state, and the point goes to the history and to the browsers.
Parse(m) ==
    /\ point' = StatsPoint(m, state)
    /\ state' = [hasPrev |-> TRUE, time |-> m.read, prev |-> Totals(m)]
    /\ due' = [known |-> heard # None, carried |-> carried, fell |-> fell,
               seconds |-> IF heard = None THEN 0 ELSE m.read - heard, sample |-> m.sample]
    /\ carried' = NoTraffic
    /\ fell' = FALSE
    /\ heard' = m.read
    /\ UNCHANGED <<net, blk>>

\* One it cannot: the loop logs the error and goes on with the state it had.
StateAfterErrorLost == NewState
StateAfterError == state

ParseFails ==
    /\ state' = StateAfterError
    /\ Delivered
    /\ UNCHANGED <<net, blk, carried, fell, heard>>

\* The container starts again, and a new goroutine reads a new stream.
StreamRestarts ==
    /\ net' = [i \in Interface |-> None]
    /\ blk' = 0
    /\ state' = NewState
    /\ carried' = NoTraffic
    /\ fell' = FALSE
    /\ heard' = None
    /\ Delivered

Next ==
    \/ \E i \in Interface : Receives(i) \/ Attach(i) \/ Detach(i)
    \/ Reads
    \/ \E m \in Message : Parse(m)
    \/ ParseFails
    \/ StreamRestarts

Spec == Init /\ [][Next]_vars

----------------------------------------------------------------------------
(* Properties.                                                             *)

\* No rate claims more bytes than were carried since the last message that
\* could be read: interfaces that go and counters that start again at zero
\* never show as traffic.
NoPhantomTraffic ==
    \A f \in Flow : point.rate[f] > 0 => point.rate[f] * due.seconds <= due.carried[f]

\* And none is lost: when no counter fell and time went on, the rate is that of
\* all the traffic since then, messages that could not be read included.
AllTrafficCounts ==
    due.known /\ ~due.fell /\ due.seconds > 0 =>
        \A f \in Flow : point.rate[f] = due.carried[f] \div due.seconds

\* Percentages stay in range for samples of any order and resets: no more CPU
\* than the container has, no more memory than the daemon counts.
PercentsInRange ==
    due.sample # None =>
        LET cpu == due.sample.cpu
            mem == due.sample.mem
        IN  /\ cpu.total - cpu.preTotal <= cpu.system - cpu.preSystem =>
                   point.cpu <= 10000 * Cpus(cpu)
            /\ point.memory <= mem.usage
            /\ mem.usage <= mem.limit => point.memoryPercent <= 10000
=============================================================================
