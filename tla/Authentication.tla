---------------------------- MODULE Authentication ----------------------------
(***************************************************************************)
(* Who may use the API: the administrator's key and sessions               *)
(* (internal/auth/service.go, internal/store/auth.go), the limit on failed *)
(* logins and the check in front of every handler (internal/api/auth.go),  *)
(* the API tokens (internal/auth/token.go, internal/api/tokens.go) and the *)
(* token that enabling MCP creates (internal/api/system_config.go).        *)
(*                                                                         *)
(* A request is a process; its steps are its accesses to the tables, the   *)
(* limiter and the pending secret.  Times are ticks of one clock.          *)
(*                                                                         *)
(* Abstracted: keys and secrets are not compared, a request carries the    *)
(* right one or not; CSRF tokens and scopes; last_used_at and last_seen_at; *)
(* one client address; how mcp.enabled is stored (module RuntimeConfig).   *)
(***************************************************************************)
EXTENDS Naturals, FiniteSets, FiniteSetsExt

CONSTANTS
  Requests,   \* HTTP requests and the reset-key command
  Sessions,   \* session tokens the service may draw
  Tokens,     \* API tokens it may draw
  Names,      \* token names: 1 is "MCP Browser", 2 "MCP Browser 2"
  Lifetimes,  \* values of auth.session_ttl, in ticks
  TokenTerms, \* terms of API tokens, in ticks
  LoginLimit, \* failures per window (8)
  Window,     \* of the limiter, in ticks (10 minutes)
  MaxTime,    \* bound on the clock
  MaxStall    \* bound: ticks a request may take between clock and table

None == "none"

ASSUME AuthAssumption ==
  /\ IsFiniteSet(Requests) /\ Sessions \cap Tokens = {}
  /\ None \notin Sessions \cup Tokens /\ Names \subseteq Nat \ {0}
  /\ Lifetimes \subseteq Nat \ {0} /\ Lifetimes # {} /\ TokenTerms \subseteq Nat
  /\ {LoginLimit, Window, MaxTime, MaxStall} \subseteq Nat \ {0}

VARIABLES
  now,
  initialized, \* admin_key_hash is set
  ttl,         \* Service.ttlNanos
  sessions,    \* admin_sessions: expires_at, 0 without a row
  attempts,    \* loginLimiter.attempts of the address
  tokens,      \* api_tokens
  mcp,         \* mcp.enabled
  pending,     \* Service.pendingMCP
  request,
  ended,       \* history: sessions and tokens whose row was deleted
  promised,    \* history: how long the last admission keeps a session
  told         \* history: how often a token's secret was answered

vars == <<now, initialized, ttl, sessions, attempts, tokens, mcp, pending,
          request, ended, promised, told>>
keys == <<initialized, sessions, attempts>>
mcps == <<tokens, mcp, pending, told>>
clock == <<now, ttl>>

NoAttempts == [count |-> 0, resetAt |-> 0]
NoToken == [name |-> 0, kind |-> "rest", revoked |-> FALSE, expires |-> 0]

\* loading..refreshing: Authenticate; bearer, touching: AuthenticateToken.
Steps == {"idle", "hashing", "verifying", "failing", "creating", "clearing",
          "loading", "dropping", "refreshing", "admitted", "replacing",
          "bearer", "touching", "welcome", "inserting", "disabling",
          "deleting", "switching", "switched", "noting", "consuming",
          "retracting"}

Request == [pc : Steps, op : {None, "setup", "login", "token", "mcp"},
            session : Sessions \cup {None}, token : Tokens \cup {None},
            at : Nat, expires : Nat, name : Names \cup {0},
            was : BOOLEAN, late : BOOLEAN]

Idle == [pc |-> "idle", op |-> None, session |-> None, token |-> None,
         at |-> 0, expires |-> 0, name |-> 0, was |-> FALSE, late |-> FALSE]

TypeOK ==
  /\ now \in 1..MaxTime /\ initialized \in BOOLEAN /\ ttl \in Lifetimes
  /\ sessions \in [Sessions -> Nat]
  /\ attempts \in [count : Nat, resetAt : Nat]
  /\ tokens \in [Tokens -> [name : Names \cup {0}, kind : {"rest", "mcp"},
                            revoked : BOOLEAN, expires : Nat]]
  /\ mcp \in BOOLEAN /\ pending \in Tokens \cup {None}
  /\ request \in [Requests -> Request]
  /\ ended \subseteq Sessions \cup Tokens
  /\ promised \in [Sessions -> Nat] /\ told \in [Tokens -> Nat]

At(r, pc) == request[r].pc = pc
Become(r, next) == request' = [request EXCEPT ![r] = next]
Go(r, pc) == request' = [request EXCEPT ![r].pc = pc]
Return(r) == Become(r, Idle)

Init ==
  /\ now = 1 /\ initialized = FALSE /\ ttl \in Lifetimes
  /\ sessions = [s \in Sessions |-> 0]
  /\ attempts = NoAttempts
  /\ tokens = [t \in Tokens |-> NoToken]
  /\ mcp = FALSE /\ pending = None
  /\ request = [r \in Requests |-> Idle]
  /\ ended = {} /\ promised = [s \in Sessions |-> 0]
  /\ told = [t \in Tokens |-> 0]

-----------------------------------------------------------------------------
(* Set-up, login and the limiter *)

\* Setup looks for a key, and hashes the new one.
Setup(r) ==
  /\ At(r, "idle") /\ ~initialized
  /\ Become(r, [Idle EXCEPT !.pc = "hashing", !.op = "setup"])
  /\ UNCHANGED <<clock, keys, mcps, ended, promised>>

\* SetAdminKeyHash without a reset of the sessions, whatever is stored by now.
SetKey(r) ==
  /\ At(r, "hashing")
  /\ initialized' = TRUE
  /\ Go(r, "creating")
  /\ UNCHANGED <<clock, sessions, attempts, mcps, ended, promised>>

Allowed == now > attempts.resetAt \/ attempts.count < LoginLimit

Login(r) ==
  /\ At(r, "idle") /\ Allowed
  /\ attempts' = IF now > attempts.resetAt THEN NoAttempts ELSE attempts
  /\ Become(r, [Idle EXCEPT !.pc = "verifying", !.op = "login"])
  /\ UNCHANGED <<clock, initialized, sessions, mcps, ended, promised>>

\* The stored hash is read and the key is right or not, unless the body could
\* not be read.
Verify(r) ==
  /\ At(r, "verifying")
  /\ \/ initialized /\ Go(r, "creating")
     \/ Go(r, "failing")
     \/ Return(r)
  /\ UNCHANGED <<clock, keys, mcps, ended, promised>>

Fail(r) ==
  /\ At(r, "failing")
  /\ attempts' = IF now > attempts.resetAt
                 THEN [count |-> 1, resetAt |-> now + Window]
                 ELSE [attempts EXCEPT !.count = @ + 1]
  /\ Return(r)
  /\ UNCHANGED <<clock, initialized, sessions, mcps, ended, promised>>

\* createSession draws a token that was never used.
CreateSession(r) ==
  /\ At(r, "creating")
  /\ \E s \in Sessions \ ended :
       /\ sessions[s] = 0
       /\ sessions' = [sessions EXCEPT ![s] = now + ttl]
  /\ IF request[r].op = "login" THEN Go(r, "clearing") ELSE Return(r)
  /\ UNCHANGED <<clock, initialized, attempts, mcps, ended, promised>>

CreateSessionFails(r) ==
  /\ At(r, "creating")
  /\ IF request[r].op = "login" THEN Go(r, "failing") ELSE Return(r)
  /\ UNCHANGED <<clock, keys, mcps, ended, promised>>

Clear(r) ==
  /\ At(r, "clearing")
  /\ attempts' = NoAttempts
  /\ Return(r)
  /\ UNCHANGED <<clock, initialized, sessions, mcps, ended, promised>>

-----------------------------------------------------------------------------
(* requireAuth: a session or a bearer token *)

\* Authenticate takes the time before it reads the row.
Enter(r, s) ==
  /\ At(r, "idle") /\ (sessions[s] # 0 \/ s \in ended)
  /\ Become(r, [Idle EXCEPT !.pc = "loading", !.session = s, !.at = now,
                            !.late = s \in ended])
  /\ UNCHANGED <<clock, keys, mcps, ended, promised>>

\* What an admission promises: half the shortest lifetime, from its time on.
Promise(r) ==
  promised' = [promised EXCEPT ![request[r].session] =
                 Max({@, request[r].at + Min(Lifetimes) \div 2})]

\* Fault: half has become a quarter.
FaultDueForRefresh(expires, at) == expires - at < ttl \div 4

DueForRefresh(expires, at) == expires - at < ttl \div 2

Load(r) ==
  LET q == request[r]
      e == sessions[q.session]
  IN  /\ q.pc = "loading"
      /\ \/ e = 0 /\ Return(r) /\ UNCHANGED promised
         \/ e # 0 /\ e <= q.at /\ Go(r, "dropping") /\ UNCHANGED promised
         \/ /\ e > q.at /\ DueForRefresh(e, q.at)
            /\ Become(r, [q EXCEPT !.pc = "refreshing", !.expires = q.at + ttl])
            /\ UNCHANGED promised
         \/ /\ e > q.at /\ ~DueForRefresh(e, q.at)
            /\ Go(r, "admitted") /\ Promise(r)
      /\ UNCHANGED <<clock, keys, mcps, ended>>

DeleteSessions(ss) ==
  /\ sessions' = [s \in Sessions |-> IF s \in ss THEN 0 ELSE sessions[s]]
  /\ ended' = ended \cup {s \in ss : sessions[s] # 0}

\* An expired session is deleted and the request refused.
Drop(r) ==
  /\ At(r, "dropping")
  /\ DeleteSessions({request[r].session})
  /\ Return(r)
  /\ UNCHANGED <<clock, initialized, attempts, mcps, promised>>

\* Fault: the row is inserted again when it is gone.
FaultRefresh(r) ==
  /\ At(r, "refreshing")
  /\ sessions' = [sessions EXCEPT ![request[r].session] = request[r].expires]
  /\ Go(r, "admitted") /\ Promise(r)
  /\ UNCHANGED <<clock, initialized, attempts, mcps, ended>>

\* RefreshAdminSession: an UPDATE, of no row when it was deleted meanwhile.
Refresh(r) ==
  LET s == request[r].session
  IN  /\ At(r, "refreshing")
      /\ sessions' = [sessions EXCEPT ![s] = IF @ = 0 THEN 0 ELSE request[r].expires]
      /\ Go(r, "admitted") /\ Promise(r)
      /\ UNCHANGED <<clock, initialized, attempts, mcps, ended>>

\* A statement fails, or the token turns out to be refused.
Refuse(r) ==
  /\ request[r].pc \in {"refreshing", "touching"}
  /\ Return(r)
  /\ UNCHANGED <<clock, keys, mcps, ended, promised>>

\* AuthenticateToken: its clock is read after the row.
Bearer(r, t) ==
  /\ At(r, "idle") /\ (tokens[t] # NoToken \/ t \in ended)
  /\ Become(r, [Idle EXCEPT !.pc = "bearer", !.token = t, !.late = t \in ended])
  /\ UNCHANGED <<clock, keys, mcps, ended, promised>>

Expired(row) == row.expires # 0 /\ row.expires <= now

Valid(row) == row # NoToken /\ ~row.revoked /\ ~Expired(row)

LoadToken(r) ==
  /\ At(r, "bearer")
  /\ IF Valid(tokens[request[r].token]) THEN Go(r, "touching") ELSE Return(r)
  /\ UNCHANGED <<clock, keys, mcps, ended, promised>>

\* TouchAPIToken: an UPDATE, of no row when it was deleted meanwhile.
Touch(r) ==
  /\ At(r, "touching")
  /\ Go(r, "welcome")
  /\ UNCHANGED <<clock, keys, mcps, ended, promised>>

\* A handler that changes nothing here.
Serve(r) ==
  /\ request[r].pc \in {"admitted", "welcome"}
  /\ Return(r)
  /\ UNCHANGED <<clock, keys, mcps, ended, promised>>

-----------------------------------------------------------------------------
(* Handlers; tokens are handled for a session only *)

Authorized(r) == request[r].pc \in {"admitted", "welcome"}

\* The session of the cookie, which a bearer token may come with.
Logout(r) ==
  /\ \/ At(r, "admitted") /\ DeleteSessions({request[r].session})
     \/ At(r, "welcome") /\ \E s \in Sessions : DeleteSessions({s})
  /\ Return(r)
  /\ UNCHANGED <<clock, initialized, attempts, mcps, promised>>

\* ChangeKey: the current key is verified against the stored hash.
ChangeKey(r) ==
  /\ Authorized(r) /\ initialized
  /\ Go(r, "replacing")
  /\ UNCHANGED <<clock, keys, mcps, ended, promised>>

\* SetAdminKeyHash with a reset: one transaction, also of meerkit admin
\* reset-key, which needs no session.
ReplaceKey(r) ==
  /\ At(r, "replacing") \/ At(r, "idle")
  /\ initialized' = TRUE
  /\ DeleteSessions(Sessions)
  /\ Return(r)
  /\ UNCHANGED <<clock, attempts, mcps, promised>>

NamesInUse == {tokens[t].name : t \in Tokens} \ {0}

\* CreateToken lists the names and refuses one that is used.
CreateToken(r) ==
  /\ At(r, "admitted")
  /\ \E n \in Names \ NamesInUse :
       Become(r, [Idle EXCEPT !.pc = "inserting", !.op = "token", !.name = n])
  /\ UNCHANGED <<clock, keys, mcps, ended, promised>>

Draw(t, kind, name, expires) ==
  /\ tokens[t] = NoToken /\ t \notin ended
  /\ tokens' = [tokens EXCEPT ![t] = [name |-> name, kind |-> kind,
                                      revoked |-> FALSE, expires |-> expires]]

\* CreateAPIToken, for a request of the administrator: the answer has the
\* secret.
InsertToken(r) ==
  /\ At(r, "inserting") /\ request[r].op = "token"
  /\ request[r].name \notin NamesInUse
  /\ \E t \in Tokens, kind \in {"rest", "mcp"}, term \in TokenTerms :
       /\ Draw(t, kind, request[r].name, IF term = 0 THEN 0 ELSE now + term)
       /\ told' = [told EXCEPT ![t] = @ + 1]
  /\ Return(r)
  /\ UNCHANGED <<clock, keys, mcp, pending, ended, promised>>

\* The name is taken meanwhile (idx_api_tokens_name), or the statement fails.
InsertFails(r) ==
  /\ At(r, "inserting")
  /\ IF request[r].op = "token" THEN Return(r) ELSE Go(r, "retracting")
  /\ UNCHANGED <<clock, keys, mcps, ended, promised>>

\* revokeToken and restoreToken.
SetRevoked(r, t, revoked) ==
  /\ At(r, "admitted") /\ tokens[t] # NoToken
  /\ tokens' = [tokens EXCEPT ![t].revoked = revoked]
  /\ Return(r)
  /\ UNCHANGED <<clock, keys, mcp, pending, told, ended, promised>>

\* deleteToken: an MCP token takes mcp.enabled with it.
DeleteToken(r, t) ==
  /\ At(r, "admitted") /\ tokens[t] # NoToken
  /\ Become(r, [Idle EXCEPT !.token = t,
       !.pc = IF tokens[t].kind = "mcp" /\ mcp THEN "disabling" ELSE "deleting"])
  /\ UNCHANGED <<clock, keys, mcps, ended, promised>>

Disable(r) ==
  /\ At(r, "disabling")
  /\ \/ mcp' = FALSE /\ Go(r, "deleting")
     \/ UNCHANGED mcp /\ Return(r)        \* the version changed meanwhile
  /\ UNCHANGED <<clock, keys, tokens, pending, told, ended, promised>>

DeleteRow(r) ==
  LET t == request[r].token
  IN  /\ At(r, "deleting")
      /\ tokens' = [tokens EXCEPT ![t] = NoToken]
      /\ ended' = ended \cup {t}
      /\ Return(r)
      /\ UNCHANGED <<clock, keys, mcp, pending, told, promised>>

-----------------------------------------------------------------------------
(* updateSystemConfig of the MCP domain *)

\* wasMCPEnabled.
Configure(r) ==
  /\ Authorized(r)
  /\ Become(r, [Idle EXCEPT !.pc = "switching", !.op = "mcp", !.was = mcp])
  /\ UNCHANGED <<clock, keys, mcps, ended, promised>>

Switch(r) ==
  /\ At(r, "switching")
  /\ \/ mcp' \in BOOLEAN /\ Go(r, "switched")
     \/ UNCHANGED mcp /\ Return(r)        \* the version changed meanwhile
  /\ UNCHANGED <<clock, keys, tokens, pending, told, ended, promised>>

\* resetSystemConfig and importConfiguration create no token.
ResetOrImport(r) ==
  /\ Authorized(r)
  /\ mcp' \in BOOLEAN
  /\ Return(r)
  /\ UNCHANGED <<clock, keys, tokens, pending, told, ended, promised>>

\* Newly enabled: EnsureMCPToken looks for a valid token and a free name.
Ensure(r) ==
  LET q == request[r]
  IN  /\ q.pc = "switched"
      /\ \/ (q.was \/ ~mcp) /\ Return(r)
         \/ /\ ~q.was /\ mcp
            /\ \E t \in Tokens : tokens[t].kind = "mcp" /\ Valid(tokens[t])
            /\ Go(r, "consuming")
         \/ /\ ~q.was /\ mcp
            /\ \A t \in Tokens : tokens[t].kind = "mcp" => ~Valid(tokens[t])
            /\ Names \ NamesInUse # {}
            /\ Become(r, [q EXCEPT !.pc = "inserting",
                                   !.name = Min(Names \ NamesInUse)])
      /\ UNCHANGED <<clock, keys, mcps, ended, promised>>

InsertMCPToken(r) ==
  /\ At(r, "inserting") /\ request[r].op = "mcp"
  /\ request[r].name \notin NamesInUse
  /\ \E t \in Tokens :
       /\ Draw(t, "mcp", request[r].name, 0)
       /\ Become(r, [request[r] EXCEPT !.pc = "noting", !.token = t])
  /\ UNCHANGED <<clock, keys, mcp, pending, told, ended, promised>>

\* The secret replaces one that another request has not answered yet.
Note(r) ==
  /\ At(r, "noting")
  /\ pending' = request[r].token
  /\ Go(r, "consuming")
  /\ UNCHANGED <<clock, keys, tokens, mcp, told, ended, promised>>

\* Fault: the secret stays pending.
FaultConsume(r) ==
  /\ At(r, "consuming")
  /\ told' = [t \in Tokens |-> told[t] + IF t = pending THEN 1 ELSE 0]
  /\ UNCHANGED pending
  /\ Return(r)
  /\ UNCHANGED <<clock, keys, tokens, mcp, ended, promised>>

\* ConsumePendingMCPToken, whoever created it; the answer has the secret.
Consume(r) ==
  /\ At(r, "consuming")
  /\ told' = [t \in Tokens |-> told[t] + IF t = pending THEN 1 ELSE 0]
  /\ pending' = None
  /\ Return(r)
  /\ UNCHANGED <<clock, keys, tokens, mcp, ended, promised>>

\* Without a token MCP is switched off again; an error is ignored.
Retract(r) ==
  /\ At(r, "retracting")
  /\ mcp' \in {mcp, FALSE}
  /\ Return(r)
  /\ UNCHANGED <<clock, keys, tokens, pending, told, ended, promised>>

-----------------------------------------------------------------------------

\* Time passes while no request has held its clock for too long.
Tick ==
  /\ now < MaxTime
  /\ \A r \in Requests :
       request[r].pc \in {"loading", "dropping", "refreshing"} =>
         now - request[r].at < MaxStall
  /\ now' = now + 1
  /\ UNCHANGED <<ttl, keys, mcps, request, ended, promised>>

\* SetSessionTTL, when a configuration is applied.
SetSessionTTL ==
  /\ ttl' \in Lifetimes \ {ttl}
  /\ UNCHANGED <<now, keys, mcps, request, ended, promised>>

Next ==
  \/ \E r \in Requests :
       \/ Setup(r) \/ SetKey(r) \/ Login(r) \/ Verify(r) \/ Fail(r)
       \/ CreateSession(r) \/ CreateSessionFails(r) \/ Clear(r)
       \/ \E s \in Sessions : Enter(r, s)
       \/ Load(r) \/ Drop(r) \/ Refresh(r) \/ Refuse(r)
       \/ \E t \in Tokens : Bearer(r, t) \/ DeleteToken(r, t)
       \/ LoadToken(r) \/ Touch(r) \/ Serve(r)
       \/ Logout(r) \/ ChangeKey(r) \/ ReplaceKey(r)
       \/ CreateToken(r) \/ InsertToken(r) \/ InsertFails(r)
       \/ \E t \in Tokens, revoked \in BOOLEAN : SetRevoked(r, t, revoked)
       \/ Disable(r) \/ DeleteRow(r)
       \/ Configure(r) \/ Switch(r) \/ ResetOrImport(r)
       \/ Ensure(r) \/ InsertMCPToken(r)
       \/ Note(r) \/ Consume(r) \/ Retract(r)
  \/ Tick \/ SetSessionTTL

Spec == Init /\ [][Next]_vars

-----------------------------------------------------------------------------
(* Properties *)

\* Requests that pass the limiter together may fail together, and no more: the
\* failures in one window exceed the limit by less than the requests under way
\* (loginLimiter.allowed and fail are two sections of its lock).
LimiterHolds == attempts.count < LoginLimit + Cardinality(Requests)

\* What ended stays ended: a request that comes after the logout, the change of
\* key, the expiry or the deletion is refused, whatever refresh or use of the
\* same session or token was still under way (Authenticate, AuthenticateToken).
EndedIsFinal ==
  \A r \in Requests : request[r].late => request[r].pc \notin {"admitted", "welcome"}

\* A session that is still stored lasts at least as long as its last admission
\* promised, half of the shortest lifetime: neither a late refresh by another
\* request nor a new lifetime takes that back (the sliding renewal below half
\* of the lifetime, Service.Authenticate).
ActiveIsKept == \A s \in Sessions : sessions[s] # 0 => promised[s] <= sessions[s]

\* The secret of a token is answered once: to the request that created it, or to
\* one of the requests that enabled MCP (ConsumePendingMCPToken).
ToldOnce == \A t \in Tokens : told[t] <= 1

\* What every state of the service keeps.
AuthInv == TypeOK /\ LimiterHolds /\ EndedIsFinal
=============================================================================
