------------------------------ MODULE MCMetrics ------------------------------
(***************************************************************************)
(* Samples for Metrics: CPU counters that grow, stand still and start      *)
(* again, with and without the number of CPUs; memory with the page cache  *)
(* in either field, larger than the usage, and without a limit.            *)
(***************************************************************************)
EXTENDS Metrics

MCCPU(t, p, q, n) ==
    [total |-> t, system |-> 4, preTotal |-> p, preSystem |-> q, online |-> n, percpu |-> 2]

MCMem(u, l, i) == [usage |-> u, limit |-> l, inactive |-> i, totalInactive |-> 1]

MCSample ==
    {[cpu |-> MCCPU(3, p, q, n), mem |-> MCMem(3, 4, 0)] : p \in {0, 4}, q \in {0, 4}, n \in {0, 1}}
    \cup
    {[cpu |-> MCCPU(1, 0, 0, 0), mem |-> MCMem(u, l, i)] : u \in {1, 3}, l \in {0, 4}, i \in {0, 2}}

MCInstant == {-9, 1, 3}
=============================================================================
