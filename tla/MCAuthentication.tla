--------------------------- MODULE MCAuthentication ---------------------------
(* Requests, sessions and tokens are interchangeable. *)
EXTENDS Authentication, TLC

Symmetry == Permutations(Requests) \cup Permutations(Sessions)
              \cup Permutations(Tokens)

\* Bound: tokens and MCP are used during the first two ticks and while no login
\* has failed; sessions, keys and the limiter as long as the clock runs.
Scope ==
  \/ now <= 2 /\ attempts = NoAttempts
  \/ /\ \A t \in Tokens : tokens[t] = NoToken /\ t \notin ended
     /\ ~mcp /\ \A r \in Requests : request[r].op \notin {"token", "mcp"}
=============================================================================
