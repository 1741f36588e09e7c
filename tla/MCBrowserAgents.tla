-------------------------- MODULE MCBrowserAgents --------------------------
(* Small instances of BrowserAgents for TLC. *)
EXTENDS BrowserAgents, TLC

MCSymmetry == Permutations(Commands)
=============================================================================
