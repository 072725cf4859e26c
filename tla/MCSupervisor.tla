----------------------------- MODULE MCSupervisor -----------------------------
(***************************************************************************)
(* The instances of Supervisor that are model-checked.  Restart goroutines *)
(* are interchangeable, and so are requests: the runs that look for a      *)
(* violated safety property use that, the run with liveness does not.      *)
(***************************************************************************)
EXTENDS Supervisor, TLC

Symmetry == Permutations(Goroutine) \cup Permutations(Request)
=============================================================================
