--------------------------- MODULE MCRuntimeConfig ---------------------------
(* Small instances of RuntimeConfig for TLC. *)
EXTENDS RuntimeConfig, TLC

CONSTANTS p1, p2

MCDefault == [p \in Paths |-> "off"]
MCOn == [p \in Paths |-> "on"]

\* A body that names one of the paths; those of UpdatePath name all.
MCBodies == {[p \in {p1} |-> "on"]}

\* One bundle that differs from the defaults in both domains.
MCBundles == {[d \in Domains |-> MCOn]}

MCSymmetry == Permutations(Requests)
=============================================================================
