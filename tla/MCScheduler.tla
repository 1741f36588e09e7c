---------------------------- MODULE MCScheduler ----------------------------
(* Small instances of Scheduler. *)
EXTENDS Scheduler

CONSTANTS m1, m2, often, rare, east, west

\* Instants within the bound and one beyond it; the zones shift them.
MCOccurs ==
  [e \in {often, rare} |-> [z \in {east, west} |->
     CASE e = often /\ z = east -> {2, 3, 4, 9}
       [] e = often /\ z = west -> {1, 3, 9}
       [] e = rare /\ z = east -> {3, 9}
       [] e = rare /\ z = west -> {2, 9}]]

MCPlans == {<<rare>>, <<rare, often>>}
=============================================================================
