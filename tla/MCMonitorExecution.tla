------------------------- MODULE MCMonitorExecution -------------------------
(* Small instances of MonitorExecution. *)
EXTENDS MonitorExecution, TLC

\* Calls are interchangeable, and so are requests.
Symmetry == Permutations(Calls) \cup Permutations(Requests)
=============================================================================
