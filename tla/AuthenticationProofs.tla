------------------------- MODULE AuthenticationProofs -------------------------
(***************************************************************************)
(* AuthInv of Authentication holds for any number of requests, sessions    *)
(* and tokens, any lifetimes and any limit; so does ToldOnce, and so does  *)
(* ActiveIsKept when requests take less than half the shortest lifetime.   *)
(***************************************************************************)
EXTENDS Authentication, TLAPS, FiniteSetTheorems, WellFoundedInduction

\* What the step of a request says of its other fields.
CarriedBy(q) ==
  /\ q.pc = "hashing" => q.op = "setup"
  /\ q.pc \in {"verifying", "failing"} => q.op = "login"
  /\ q.pc \in {"loading", "dropping", "refreshing", "admitted"} =>
       q.session \in Sessions
  /\ q.pc \in {"bearer", "disabling", "deleting"} => q.token \in Tokens

Carried == \A r \in Requests : CarriedBy(request[r])

\* What ended has no row.
Gone ==
  /\ \A s \in Sessions : s \in ended => sessions[s] = 0
  /\ \A t \in Tokens : t \in ended => tokens[t] = NoToken

\* A request that came after the end has not read the row yet.
NotYetRead(q) ==
  q.late => \/ q.pc = "loading" /\ q.session \in ended
            \/ q.pc = "bearer" /\ q.token \in ended

LateHasNotRead == \A r \in Requests : NotYetRead(request[r])

\* Logins that passed the limiter and may still fail.
InFlight == {r \in Requests : /\ request[r].op = "login"
                              /\ request[r].pc \in {"verifying", "creating", "failing"}}

Counted ==
  attempts.count + Cardinality(InFlight) < LoginLimit + Cardinality(Requests)

AuthIInv == TypeOK /\ Carried /\ Gone /\ LateHasNotRead /\ Counted

-----------------------------------------------------------------------------

\* The least element of a set of numbers.
LEMMA MinOfNats ==
  ASSUME NEW S \in SUBSET Nat, S # {}
  PROVE  Min(S) \in S /\ \A y \in S : Min(S) <= y
<1>. DEFINE Less == {p \in Nat \X Nat : p[1] < p[2]}
<1>1. IsWellFoundedOn(Less, Nat)
  BY NatLessThanWellFounded, Zenon DEF OpToRel
<1>2. PICK x \in S : \A y \in S : ~ (<<y, x>> \in Less)
  <2>. HIDE DEF Less
  <2>. QED
    BY <1>1, WFMin
<1>3. ASSUME NEW y \in S PROVE x <= y
  <2>1. x \in Nat /\ y \in Nat /\ <<y, x>> \in Nat \X Nat
    OBVIOUS
  <2>2. ~ (y < x)
    BY <1>2, <2>1
  <2>. QED
    BY <2>1, <2>2
<1>. QED
  BY <1>3 DEF Min

\* The greater of two numbers is one of them.
LEMMA MaxOfTwo ==
  ASSUME NEW a \in Nat, NEW b \in Nat
  PROVE  Max({a, b}) \in {a, b} /\ Max({a, b}) \in Nat
<1>1. \E x \in {a, b} : \A y \in {a, b} : x >= y
  <2>1. CASE a >= b
    BY <2>1
  <2>2. CASE b >= a
    BY <2>2
  <2>. QED
    BY <2>1, <2>2
<1>2. Max({a, b}) \in {a, b}
  BY <1>1 DEF Max
<1>. QED
  BY <1>2

\* AuthAssumption, in the form the steps need.
LEMMA Assumed ==
  /\ Names \subseteq Nat /\ 0 \notin Names
  /\ Lifetimes \subseteq Nat /\ TokenTerms \subseteq Nat
  /\ LoginLimit \in Nat /\ LoginLimit > 0 /\ Window \in Nat
  /\ MaxTime \in Nat /\ MaxTime > 0
  /\ Min(Lifetimes) \in Nat /\ Min(Lifetimes) \div 2 \in Nat
<1>1. Min(Lifetimes) \in Lifetimes
  BY AuthAssumption, MinOfNats
<1>2. LoginLimit \in Nat \ {0} /\ Window \in Nat \ {0} /\ MaxTime \in Nat \ {0}
  BY AuthAssumption, Zenon
<1>3. Min(Lifetimes) \in Nat
  BY <1>1, AuthAssumption
<1>4. Min(Lifetimes) \div 2 \in Nat
  BY <1>3
<1>5. Names \subseteq Nat /\ 0 \notin Names /\ Lifetimes \subseteq Nat /\ TokenTerms \subseteq Nat
  BY AuthAssumption
<1>. QED
  BY <1>2, <1>3, <1>4, <1>5

\* A request at rest has its type.
LEMMA IdleType == Idle \in Request
BY DEF Idle, Request, Steps, None

\* The inductive invariant holds at first.
LEMMA InitHolds == Init => AuthIInv
<1>. SUFFICES ASSUME Init PROVE AuthIInv
  OBVIOUS
<1>. USE DEF Init
<1>1. TypeOK
  <2>1. now \in 1..MaxTime
    BY Assumed
  <2>2. ended \subseteq Sessions \cup Tokens
    OBVIOUS
  <2>. QED
    BY <2>1, <2>2, IdleType DEF TypeOK, NoAttempts, NoToken
<1>2. Carried /\ LateHasNotRead /\ Gone
  BY DEF Carried, CarriedBy, LateHasNotRead, NotYetRead, Gone, Idle, None
<1>3. Counted
  <2>1. InFlight = {}
    BY DEF InFlight, Idle, None
  <2>2. Cardinality(InFlight) = 0 /\ Cardinality(Requests) \in Nat
    BY <2>1, FS_EmptySet, FS_CardinalityType, AuthAssumption
  <2>. QED
    BY <2>2, Assumed DEF Counted, NoAttempts
<1>. QED
  BY <1>1, <1>2, <1>3 DEF AuthIInv

-----------------------------------------------------------------------------
(* Types *)

\* A record of the right type keeps the type of request.
LEMMA BecomeTyped ==
  ASSUME TypeOK, NEW r \in Requests, NEW q \in Request, Become(r, q)
  PROVE  request' \in [Requests -> Request]
BY DEF TypeOK, Become

\* So does the end of a request.
LEMMA ReturnTyped ==
  ASSUME TypeOK, NEW r \in Requests, Return(r)
  PROVE  request' \in [Requests -> Request]
BY BecomeTyped, IdleType DEF Return

\* So does a change of the step alone.
LEMMA GoTyped ==
  ASSUME TypeOK, NEW r \in Requests, NEW pc \in Steps, Go(r, pc)
  PROVE  request' \in [Requests -> Request]
<1>1. request[r] \in Request
  BY DEF TypeOK
<1>2. [request[r] EXCEPT !.pc = pc] \in Request
  BY <1>1 DEF Request
<1>3. request' = [request EXCEPT ![r] = [request[r] EXCEPT !.pc = pc]]
  BY DEF Go, TypeOK
<1>. QED
  BY <1>2, <1>3 DEF TypeOK

\* The other variables, when a step sets request and nothing else.
Others == <<clock, keys, mcps, ended, promised>>

\* Types, when request alone changes.
LEMMA OthersTyped ==
  ASSUME TypeOK, UNCHANGED Others, request' \in [Requests -> Request]
  PROVE  TypeOK'
BY DEF TypeOK, Others, clock, keys, mcps

\* Types, when a request ends, goes on or starts anew.
LEMMA QuietTyped ==
  ASSUME TypeOK, NEW r \in Requests, UNCHANGED Others,
         \/ Return(r)
         \/ \E pc \in Steps : Go(r, pc)
         \/ \E q \in Request : Become(r, q)
  PROVE  TypeOK'
BY OthersTyped, ReturnTyped, GoTyped, BecomeTyped

\* Records that start with a session or a token have their type.
LEMMA CredentialTyped ==
  ASSUME NEW now_ \in Nat, NEW late \in BOOLEAN
  PROVE  /\ \A s \in Sessions :
              [Idle EXCEPT !.pc = "loading", !.session = s, !.at = now_,
                           !.late = late] \in Request
         /\ \A t \in Tokens :
              [Idle EXCEPT !.pc = "bearer", !.token = t, !.late = late] \in Request
BY DEF Idle, Request, Steps, None

\* Types: steps that begin something.
LEMMA StartsTyped ==
  ASSUME TypeOK, NEW r \in Requests,
         \/ Setup(r) \/ (\E s \in Sessions : Enter(r, s))
         \/ (\E t \in Tokens : Bearer(r, t)) \/ CreateToken(r) \/ Configure(r)
         \/ (\E t \in Tokens : DeleteToken(r, t))
  PROVE  TypeOK'
<1>1. CASE Setup(r)
  BY <1>1, QuietTyped DEF Setup, Others, Idle, Request, Steps, None
<1>2. ASSUME NEW s \in Sessions, Enter(r, s) PROVE TypeOK'
  <2>. DEFINE q == [Idle EXCEPT !.pc = "loading", !.session = s, !.at = now,
                                !.late = s \in ended]
  <2>1. now \in Nat /\ (s \in ended) \in BOOLEAN
    BY Assumed DEF TypeOK
  <2>2. q \in Request
    BY <2>1, CredentialTyped, Zenon
  <2>3. Become(r, q) /\ UNCHANGED Others
    BY <1>2, Zenon DEF Enter, Others
  <2>. HIDE DEF q
  <2>. QED
    BY <2>2, <2>3, QuietTyped
<1>3. ASSUME NEW t \in Tokens, Bearer(r, t) PROVE TypeOK'
  <2>. DEFINE q == [Idle EXCEPT !.pc = "bearer", !.token = t, !.late = t \in ended]
  <2>1. (t \in ended) \in BOOLEAN
    OBVIOUS
  <2>2. q \in Request
    BY <2>1, CredentialTyped, Zenon
  <2>3. Become(r, q) /\ UNCHANGED Others
    BY <1>3, Zenon DEF Bearer, Others
  <2>. HIDE DEF q
  <2>. QED
    BY <2>2, <2>3, QuietTyped
<1>4. CASE CreateToken(r)
  BY <1>4, QuietTyped DEF CreateToken, Others, Idle, Request, Steps, None
<1>5. CASE Configure(r)
  <2>1. [Idle EXCEPT !.pc = "switching", !.op = "mcp", !.was = mcp] \in Request
    BY DEF TypeOK, Idle, Request, Steps, None
  <2>. QED
    BY <1>5, <2>1, QuietTyped DEF Configure, Others
<1>6. ASSUME NEW t \in Tokens, DeleteToken(r, t) PROVE TypeOK'
  BY <1>6, QuietTyped DEF DeleteToken, Others, Idle, Request, Steps, None
<1>. QED
  BY <1>1, <1>2, <1>3, <1>4, <1>5, <1>6

\* Types: steps that only go on.
LEMMA GoesTyped ==
  ASSUME TypeOK, NEW r \in Requests,
         \/ Verify(r) \/ CreateSessionFails(r) \/ Refuse(r) \/ LoadToken(r)
         \/ Touch(r) \/ Serve(r) \/ ChangeKey(r) \/ InsertFails(r)
  PROVE  TypeOK'
<1>1. UNCHANGED Others /\ (Return(r) \/ \E pc \in Steps : Go(r, pc))
  BY DEF Others, Steps, Verify, CreateSessionFails, Refuse, LoadToken, Touch,
         Serve, ChangeKey, InsertFails
<1>. QED
  BY <1>1, QuietTyped

\* A step of a request, whatever else it changes.
LEMMA AnyRequestTyped ==
  ASSUME TypeOK, NEW r \in Requests,
         \/ Return(r)
         \/ \E pc \in Steps : Go(r, pc)
         \/ \E q \in Request : Become(r, q)
  PROVE  request' \in [Requests -> Request]
BY ReturnTyped, GoTyped, BecomeTyped

\* Types: the limiter and new sessions.
LEMMA SessionsTyped ==
  ASSUME TypeOK, NEW r \in Requests,
         \/ SetKey(r) \/ Login(r) \/ Fail(r) \/ CreateSession(r) \/ Clear(r)
  PROVE  TypeOK'
<1>. USE DEF clock, keys, mcps
<1>1. CASE SetKey(r)
  <2>1. request' \in [Requests -> Request]
    BY <1>1, AnyRequestTyped DEF SetKey, Steps
  <2>. QED
    BY <1>1, <2>1 DEF SetKey, TypeOK
<1>2. CASE Login(r)
  <2>1. request' \in [Requests -> Request]
    <3>1. [Idle EXCEPT !.pc = "verifying", !.op = "login"] \in Request
      BY DEF Idle, Request, Steps, None
    <3>. QED
      BY <1>2, <3>1, BecomeTyped DEF Login
  <2>2. attempts' \in [count : Nat, resetAt : Nat]
    BY <1>2 DEF Login, NoAttempts, TypeOK
  <2>. QED
    BY <1>2, <2>1, <2>2 DEF Login, TypeOK
<1>3. CASE Fail(r)
  <2>1. request' \in [Requests -> Request]
    BY <1>3, ReturnTyped DEF Fail
  <2>2. attempts' \in [count : Nat, resetAt : Nat]
    BY <1>3, Assumed DEF Fail, TypeOK
  <2>. QED
    BY <1>3, <2>1, <2>2 DEF Fail, TypeOK
<1>4. CASE CreateSession(r)
  <2>1. request' \in [Requests -> Request]
    BY <1>4, AnyRequestTyped DEF CreateSession, Steps
  <2>2. now + ttl \in Nat
    BY Assumed DEF TypeOK
  <2>3. sessions' \in [Sessions -> Nat]
    BY <1>4, <2>2 DEF CreateSession, TypeOK
  <2>. QED
    BY <1>4, <2>1, <2>3 DEF CreateSession, TypeOK
<1>5. CASE Clear(r)
  <2>1. request' \in [Requests -> Request]
    BY <1>5, ReturnTyped DEF Clear
  <2>. QED
    BY <1>5, <2>1 DEF Clear, TypeOK, NoAttempts
<1>. QED
  BY <1>1, <1>2, <1>3, <1>4, <1>5

\* Types: what an admission promises.
LEMMA PromiseTyped ==
  ASSUME TypeOK, NEW r \in Requests, request[r].session \in Sessions, Promise(r)
  PROVE  promised' \in [Sessions -> Nat]
<1>. DEFINE s == request[r].session
            a == request[r].at + Min(Lifetimes) \div 2
<1>1. promised[s] \in Nat /\ a \in Nat
  BY Assumed DEF TypeOK, Request
<1>2. Max({promised[s], a}) \in Nat
  BY <1>1, MaxOfTwo
<1>3. promised' = [promised EXCEPT ![s] = Max({promised[s], a})]
  BY DEF Promise, TypeOK
<1>. QED
  BY <1>2, <1>3 DEF TypeOK

\* Types: deleted sessions.
LEMMA DeleteSessionsTyped ==
  ASSUME TypeOK, NEW ss \in SUBSET Sessions, DeleteSessions(ss)
  PROVE  sessions' \in [Sessions -> Nat] /\ ended' \subseteq Sessions \cup Tokens
<1>1. sessions' \in [Sessions -> Nat]
  BY DEF DeleteSessions, TypeOK
<1>2. ended' \subseteq Sessions \cup Tokens
  BY DEF DeleteSessions, TypeOK
<1>. QED
  BY <1>1, <1>2

\* Types: sessions read, extended and deleted.
LEMMA AdmissionsTyped ==
  ASSUME TypeOK, Carried, NEW r \in Requests,
         \/ Load(r) \/ Drop(r) \/ Refresh(r) \/ Logout(r) \/ ReplaceKey(r)
  PROVE  TypeOK'
<1>. USE DEF clock, keys, mcps
<1>. DEFINE q == request[r]
<1>0. q \in Request
  BY DEF TypeOK
<1>1. CASE Load(r)
  <2>1. q.session \in Sessions
    BY <1>1 DEF Load, Carried, CarriedBy
  <2>2a. q.at \in Nat /\ ttl \in Nat
    BY <1>0, Assumed DEF Request, TypeOK
  <2>2b. q.at + ttl \in Nat
    BY <2>2a
  <2>2c. ASSUME NEW x \in Nat
         PROVE  [q EXCEPT !.pc = "refreshing", !.expires = x] \in Request
    BY <1>0 DEF Request, Steps
  <2>2. [q EXCEPT !.pc = "refreshing", !.expires = q.at + ttl] \in Request
    BY <2>2b, <2>2c
  <2>3. request' \in [Requests -> Request]
    BY <1>1, <2>2, AnyRequestTyped DEF Load, Steps
  <2>4. promised' \in [Sessions -> Nat]
    BY <1>1, <2>1, PromiseTyped DEF Load, TypeOK
  <2>. QED
    BY <1>1, <2>3, <2>4 DEF Load, TypeOK
<1>2. CASE Drop(r)
  <2>0. {q.session} \subseteq Sessions
    BY <1>2 DEF Drop, Carried, CarriedBy, At
  <2>1. request' \in [Requests -> Request]
    BY <1>2, ReturnTyped DEF Drop
  <2>. QED
    BY <1>2, <2>0, <2>1, DeleteSessionsTyped DEF Drop, TypeOK
<1>3. CASE Refresh(r)
  <2>1. q.session \in Sessions
    BY <1>3 DEF Refresh, Carried, CarriedBy, At
  <2>2. request' \in [Requests -> Request]
    BY <1>3, AnyRequestTyped DEF Refresh, Steps
  <2>3. promised' \in [Sessions -> Nat]
    BY <1>3, <2>1, PromiseTyped DEF Refresh
  <2>4. sessions' \in [Sessions -> Nat]
    BY <1>0, <1>3 DEF Refresh, TypeOK, Request
  <2>. QED
    BY <1>3, <2>2, <2>3, <2>4 DEF Refresh, TypeOK
<1>4. CASE Logout(r)
  <2>0. PICK s \in Sessions : DeleteSessions({s})
    BY <1>4 DEF Logout, Carried, CarriedBy, At
  <2>1. request' \in [Requests -> Request]
    BY <1>4, ReturnTyped DEF Logout
  <2>. QED
    BY <1>4, <2>0, <2>1, DeleteSessionsTyped DEF Logout, TypeOK
<1>5. CASE ReplaceKey(r)
  <2>1. request' \in [Requests -> Request]
    BY <1>5, ReturnTyped DEF ReplaceKey
  <2>. QED
    BY <1>5, <2>1, DeleteSessionsTyped DEF ReplaceKey, TypeOK
<1>. QED
  BY <1>1, <1>2, <1>3, <1>4, <1>5

\* Types: API tokens and mcp.enabled.
LEMMA TokensTyped ==
  ASSUME TypeOK, Carried, NEW r \in Requests,
         \/ InsertToken(r)
         \/ \E t \in Tokens, revoked \in BOOLEAN : SetRevoked(r, t, revoked)
         \/ Disable(r) \/ DeleteRow(r) \/ Retract(r) \/ ResetOrImport(r)
  PROVE  TypeOK'
<1>. USE DEF clock, keys, mcps
<1>0. request[r] \in Request
  BY DEF TypeOK
<1>1. CASE InsertToken(r)
  <2>1. request' \in [Requests -> Request]
    BY <1>1, ReturnTyped DEF InsertToken
  <2>2. now \in Nat
    BY Assumed DEF TypeOK
  <2>3. PICK t \in Tokens, kind \in {"rest", "mcp"}, term \in TokenTerms :
          /\ Draw(t, kind, request[r].name, IF term = 0 THEN 0 ELSE now + term)
          /\ told' = [told EXCEPT ![t] = @ + 1]
    BY <1>1 DEF InsertToken
  <2>4. (IF term = 0 THEN 0 ELSE now + term) \in Nat
    BY <2>2, Assumed
  <2>5. tokens' \in [Tokens -> [name : Names \cup {0}, kind : {"rest", "mcp"},
                               revoked : BOOLEAN, expires : Nat]]
    BY <1>0, <2>3, <2>4 DEF Draw, TypeOK, Request
  <2>6. told' \in [Tokens -> Nat]
    BY <2>3 DEF TypeOK
  <2>. QED
    BY <1>1, <2>1, <2>5, <2>6 DEF InsertToken, TypeOK
<1>2. ASSUME NEW t \in Tokens, NEW revoked \in BOOLEAN, SetRevoked(r, t, revoked)
      PROVE  TypeOK'
  <2>1. request' \in [Requests -> Request]
    BY <1>2, ReturnTyped DEF SetRevoked
  <2>2. tokens' \in [Tokens -> [name : Names \cup {0}, kind : {"rest", "mcp"},
                               revoked : BOOLEAN, expires : Nat]]
    BY <1>2 DEF SetRevoked, TypeOK
  <2>. QED
    BY <1>2, <2>1, <2>2 DEF SetRevoked, TypeOK
<1>3. CASE Disable(r)
  <2>1. request' \in [Requests -> Request]
    BY <1>3, AnyRequestTyped DEF Disable, Steps
  <2>. QED
    BY <1>3, <2>1 DEF Disable, TypeOK
<1>4. CASE DeleteRow(r)
  <2>1. request' \in [Requests -> Request]
    BY <1>4, ReturnTyped DEF DeleteRow
  <2>2. request[r].token \in Tokens
    BY <1>4 DEF DeleteRow, Carried, CarriedBy, At
  <2>3. NoToken \in [name : Names \cup {0}, kind : {"rest", "mcp"},
                    revoked : BOOLEAN, expires : Nat]
    BY DEF NoToken
  <2>. QED
    BY <1>4, <2>1, <2>2, <2>3 DEF DeleteRow, TypeOK
<1>5. CASE Retract(r) \/ ResetOrImport(r)
  <2>1. request' \in [Requests -> Request]
    BY <1>5, ReturnTyped DEF Retract, ResetOrImport
  <2>. QED
    BY <1>5, <2>1 DEF Retract, ResetOrImport, TypeOK
<1>. QED
  BY <1>1, <1>2, <1>3, <1>4, <1>5

\* Types: enabling MCP and the token for it.
LEMMA MCPTyped ==
  ASSUME TypeOK, NEW r \in Requests,
         \/ Switch(r) \/ Ensure(r) \/ InsertMCPToken(r) \/ Note(r) \/ Consume(r)
  PROVE  TypeOK'
<1>. USE DEF clock, keys, mcps
<1>0. request[r] \in Request
  BY DEF TypeOK
<1>1. CASE Switch(r)
  <2>1. request' \in [Requests -> Request]
    BY <1>1, AnyRequestTyped DEF Switch, Steps
  <2>. QED
    BY <1>1, <2>1 DEF Switch, TypeOK
<1>2. CASE Ensure(r)
  <2>1. Names \ NamesInUse # {} => Min(Names \ NamesInUse) \in Names
    BY Assumed, MinOfNats
  <2>2. ASSUME NEW n \in Names
        PROVE  [request[r] EXCEPT !.pc = "inserting", !.name = n] \in Request
    BY <1>0 DEF Request, Steps
  <2>3. request' \in [Requests -> Request]
    BY <1>2, <2>1, <2>2, AnyRequestTyped DEF Ensure, Steps
  <2>. QED
    BY <1>2, <2>3 DEF Ensure, TypeOK
<1>3. CASE InsertMCPToken(r)
  <2>1. PICK t \in Tokens :
          /\ Draw(t, "mcp", request[r].name, 0)
          /\ Become(r, [request[r] EXCEPT !.pc = "noting", !.token = t])
    BY <1>3 DEF InsertMCPToken
  <2>2. [request[r] EXCEPT !.pc = "noting", !.token = t] \in Request
    BY <1>0 DEF Request, Steps
  <2>3. request' \in [Requests -> Request]
    BY <2>1, <2>2, BecomeTyped
  <2>4. tokens' \in [Tokens -> [name : Names \cup {0}, kind : {"rest", "mcp"},
                               revoked : BOOLEAN, expires : Nat]]
    BY <1>0, <2>1 DEF Draw, TypeOK, Request
  <2>. QED
    BY <1>3, <2>3, <2>4 DEF InsertMCPToken, TypeOK
<1>4. CASE Note(r)
  <2>1. request' \in [Requests -> Request]
    BY <1>4, AnyRequestTyped DEF Note, Steps
  <2>. QED
    BY <1>0, <1>4, <2>1 DEF Note, TypeOK, Request
<1>5. CASE Consume(r)
  <2>1. request' \in [Requests -> Request]
    BY <1>5, ReturnTyped DEF Consume
  <2>2. told' \in [Tokens -> Nat]
    BY <1>5 DEF Consume, TypeOK
  <2>. QED
    BY <1>5, <2>1, <2>2 DEF Consume, TypeOK
<1>. QED
  BY <1>1, <1>2, <1>3, <1>4, <1>5

\* Every step keeps the types.
LEMMA TypesKept ==
  ASSUME TypeOK, Carried, [Next]_vars
  PROVE  TypeOK'
<1>1. CASE Tick
  <2>1. now' \in 1..MaxTime
    BY <1>1, Assumed DEF Tick, TypeOK
  <2>. QED
    BY <1>1, <2>1 DEF Tick, TypeOK, keys, mcps
<1>2. CASE SetSessionTTL
  BY <1>2 DEF SetSessionTTL, TypeOK, keys, mcps
<1>3. CASE UNCHANGED vars
  BY <1>3 DEF TypeOK, vars
<1>. QED
  BY <1>1, <1>2, <1>3, StartsTyped, GoesTyped, SessionsTyped, AdmissionsTyped,
     TokensTyped, MCPTyped DEF Next

-----------------------------------------------------------------------------
(* Gone *)

\* Every step keeps what ended without a row.
LEMMA GoneKept ==
  ASSUME TypeOK, Carried, Gone, [Next]_vars
  PROVE  Gone'
<1>0. Sessions \cap Tokens = {}
  BY AuthAssumption
<1>1. ASSUME UNCHANGED <<sessions, tokens, ended>> PROVE Gone'
  BY <1>1 DEF Gone
<1>2. ASSUME NEW ss \in SUBSET Sessions, DeleteSessions(ss), UNCHANGED tokens
      PROVE  Gone'
  BY <1>0, <1>2 DEF Gone, DeleteSessions
<1>3. ASSUME NEW r \in Requests, CreateSession(r) PROVE Gone'
  BY <1>3 DEF Gone, CreateSession, mcps, TypeOK
<1>4. ASSUME NEW r \in Requests, Refresh(r) PROVE Gone'
  BY <1>4 DEF Gone, Refresh, mcps, TypeOK
<1>5. ASSUME NEW t \in Tokens, NEW kind, NEW name, NEW expires,
             Draw(t, kind, name, expires), UNCHANGED <<sessions, ended>>
      PROVE  Gone'
  BY <1>5 DEF Gone, Draw, TypeOK
<1>6. ASSUME NEW r \in Requests, DeleteRow(r) PROVE Gone'
  <2>1. request[r].token \in Tokens
    BY <1>6 DEF DeleteRow, Carried, CarriedBy, At
  <2>. QED
    BY <1>0, <1>6, <2>1 DEF Gone, DeleteRow, keys, TypeOK
<1>7. ASSUME NEW r \in Requests, NEW t \in Tokens, NEW revoked \in BOOLEAN,
             SetRevoked(r, t, revoked)
      PROVE  Gone'
  BY <1>7 DEF Gone, SetRevoked, keys, TypeOK
<1>8. ASSUME NEW r \in Requests, Drop(r) \/ Logout(r) \/ ReplaceKey(r)
      PROVE  Gone'
  <2>1. \E ss \in SUBSET Sessions : DeleteSessions(ss)
    BY <1>8 DEF Drop, Logout, ReplaceKey, Carried, CarriedBy, At
  <2>. QED
    BY <1>2, <1>8, <2>1 DEF Drop, Logout, ReplaceKey, mcps
<1>9. ASSUME NEW r \in Requests, InsertToken(r) \/ InsertMCPToken(r) PROVE Gone'
  BY <1>5, <1>9 DEF InsertToken, InsertMCPToken, keys
<1>10. CASE Tick \/ SetSessionTTL \/ UNCHANGED vars
  BY <1>1, <1>10 DEF Tick, SetSessionTTL, vars, keys, mcps
<1>11. ASSUME NEW r \in Requests,
         \/ Setup(r) \/ SetKey(r) \/ Login(r) \/ Verify(r) \/ Fail(r)
         \/ CreateSessionFails(r) \/ Clear(r) \/ (\E s \in Sessions : Enter(r, s))
         \/ Load(r) \/ Refuse(r)
         \/ (\E t \in Tokens : Bearer(r, t) \/ DeleteToken(r, t))
       PROVE Gone'
  <2>1. UNCHANGED <<sessions, tokens, ended>>
    BY <1>11 DEF Setup, SetKey, Login, Verify, Fail, CreateSessionFails, Clear,
         Enter, Load, Refuse, Bearer, DeleteToken, keys, mcps
  <2>. QED
    BY <1>1, <2>1
<1>12. ASSUME NEW r \in Requests,
         \/ LoadToken(r) \/ Touch(r) \/ Serve(r) \/ ChangeKey(r)
         \/ CreateToken(r) \/ InsertFails(r) \/ Disable(r) \/ Configure(r)
         \/ Switch(r) \/ Ensure(r) \/ Note(r) \/ Consume(r) \/ Retract(r)
         \/ ResetOrImport(r)
       PROVE Gone'
  <2>1. UNCHANGED <<sessions, tokens, ended>>
    BY <1>12 DEF LoadToken, Touch, Serve, ChangeKey, CreateToken, InsertFails,
         Disable, Configure, Switch, Ensure, Note, Consume, Retract, ResetOrImport,
         keys, mcps
  <2>. QED
    BY <1>1, <2>1
<1>. QED
  BY <1>3, <1>4, <1>6, <1>7, <1>8, <1>9, <1>10, <1>11, <1>12 DEF Next

-----------------------------------------------------------------------------
(* Carried, LateHasNotRead, Counted: what a step does to its request *)

\* A step of r writes the record of r only.
LEMMA OneRecord ==
  ASSUME TypeOK, NEW r \in Requests, NEW q, Become(r, q)
  PROVE  \A x \in Requests : request'[x] = IF x = r THEN q ELSE request[x]
BY DEF Become, TypeOK

\* Going on writes the same record with another step.
LEMMA GoIsBecome ==
  ASSUME TypeOK, NEW r \in Requests, NEW pc, Go(r, pc)
  PROVE  Become(r, [request[r] EXCEPT !.pc = pc])
BY DEF Go, Become, TypeOK

\* A new record that is sound keeps both invariants: nothing leaves ended.
Sound(q) == CarriedBy(q) /\ NotYetRead(q)

\* A step to a sound record keeps both invariants.
LEMMA SoundKept ==
  ASSUME TypeOK, Carried, LateHasNotRead, NEW r \in Requests, NEW q,
         Become(r, q), Sound(q), ended \subseteq ended'
  PROVE  Carried' /\ LateHasNotRead'
BY OneRecord DEF Sound, Carried, LateHasNotRead, NotYetRead, CarriedBy

\* A request at rest is sound.
LEMMA IdleSound == Sound(Idle)
BY DEF Sound, CarriedBy, NotYetRead, Idle, None

\* Steps a record may go to without another obligation.
Free == Steps \ {"hashing", "verifying", "failing", "loading", "dropping",
                 "refreshing", "admitted", "bearer", "disabling", "deleting"}

\* A step without obligations is sound for who is not late.
LEMMA FreeSound ==
  ASSUME NEW q \in Request, NEW pc \in Free, ~q.late
  PROVE  Sound([q EXCEPT !.pc = pc])
BY DEF Sound, CarriedBy, NotYetRead, Free, Request, Steps

\* Past the reading of its row a request is not late.
LEMMA NotLate ==
  ASSUME LateHasNotRead, NEW r \in Requests,
         request[r].pc \notin {"loading", "bearer"}
  PROVE  ~request[r].late
BY DEF LateHasNotRead, NotYetRead

\* The end of a request keeps the invariants.
LEMMA ReturnsSound ==
  ASSUME TypeOK, Carried, LateHasNotRead, NEW r \in Requests, Return(r),
         ended \subseteq ended'
  PROVE  Carried' /\ LateHasNotRead'
BY SoundKept, IdleSound DEF Return

\* Going on keeps them when the record with the new step is sound.
LEMMA GoesSound ==
  ASSUME TypeOK, Carried, LateHasNotRead, NEW r \in Requests,
         NEW pc, Go(r, pc), ended \subseteq ended',
         Sound([request[r] EXCEPT !.pc = pc])
  PROVE  Carried' /\ LateHasNotRead'
BY SoundKept, GoIsBecome

\* Going to a step without obligations keeps them.
LEMMA GoesFree ==
  ASSUME TypeOK, Carried, LateHasNotRead, NEW r \in Requests,
         NEW pc \in Free, Go(r, pc), ended \subseteq ended',
         request[r].pc \notin {"loading", "bearer"}
  PROVE  Carried' /\ LateHasNotRead'
<1>1. request[r] \in Request
  BY DEF TypeOK
<1>. QED
  BY <1>1, NotLate, FreeSound, GoesSound

\* Steps that end their request.
LEMMA ReturningSteps ==
  ASSUME TypeOK, Carried, LateHasNotRead, NEW r \in Requests,
         \/ Fail(r) \/ Clear(r) \/ Drop(r) \/ Refuse(r) \/ Serve(r) \/ Logout(r)
         \/ ReplaceKey(r) \/ InsertToken(r) \/ DeleteRow(r) \/ Consume(r)
         \/ Retract(r) \/ ResetOrImport(r)
         \/ \E t \in Tokens, revoked \in BOOLEAN : SetRevoked(r, t, revoked)
  PROVE  Carried' /\ LateHasNotRead'
<1>1. Return(r)
  BY DEF Fail, Clear, Drop, Refuse, Serve, Logout, ReplaceKey, InsertToken,
         DeleteRow, Consume, Retract, ResetOrImport, SetRevoked
<1>2. ended \subseteq ended'
  BY DEF Fail, Clear, Drop, Refuse, Serve, Logout, ReplaceKey, InsertToken,
         DeleteRow, Consume, Retract, ResetOrImport, SetRevoked, DeleteSessions
<1>. QED
  BY <1>1, <1>2, ReturnsSound

\* Steps that go where nothing is asked.
LEMMA GoingSteps ==
  ASSUME TypeOK, Carried, LateHasNotRead, NEW r \in Requests,
         \/ SetKey(r) \/ Touch(r) \/ ChangeKey(r) \/ Switch(r) \/ InsertFails(r)
         \/ Note(r) \/ CreateSession(r)
  PROVE  Carried' /\ LateHasNotRead'
<1>1. /\ Return(r) \/ \E pc \in Free : Go(r, pc)
      /\ request[r].pc \notin {"loading", "bearer"}
      /\ ended \subseteq ended'
  BY DEF SetKey, Touch, ChangeKey, Switch, InsertFails, Note, CreateSession,
         Free, Steps, At, Authorized
<1>. QED
  BY <1>1, ReturnsSound, GoesFree

\* Steps of set-up and login.
LEMMA LoginSteps ==
  ASSUME TypeOK, Carried, LateHasNotRead, NEW r \in Requests,
         Setup(r) \/ Login(r) \/ Verify(r) \/ CreateSessionFails(r)
  PROVE  Carried' /\ LateHasNotRead'
<1>0. request[r] \in Request
  BY DEF TypeOK
<1>1. CASE Setup(r)
  <2>1. Sound([Idle EXCEPT !.pc = "hashing", !.op = "setup"])
    BY DEF Sound, CarriedBy, NotYetRead, Idle
  <2>. QED
    BY <1>1, <2>1, SoundKept DEF Setup
<1>2. CASE Login(r)
  <2>1. Sound([Idle EXCEPT !.pc = "verifying", !.op = "login"])
    BY DEF Sound, CarriedBy, NotYetRead, Idle
  <2>. QED
    BY <1>2, <2>1, SoundKept DEF Login
<1>3. CASE Verify(r) \/ CreateSessionFails(r)
  <2>1. ~request[r].late
    BY <1>3, NotLate DEF Verify, CreateSessionFails, At
  <2>2. request[r].op = "login" => Sound([request[r] EXCEPT !.pc = "failing"])
    BY <1>0, <2>1 DEF Sound, CarriedBy, NotYetRead, Request
  <2>3. Verify(r) => request[r].op = "login"
    BY DEF Verify, Carried, CarriedBy, At
  <2>4. "creating" \in Free
    BY DEF Free, Steps
  <2>5. request[r].pc \notin {"loading", "bearer"}
    BY <1>3 DEF Verify, CreateSessionFails, At
  <2>6. ended' = ended
    BY <1>3 DEF Verify, CreateSessionFails
  <2>7. \/ Return(r) \/ Go(r, "creating")
        \/ request[r].op = "login" /\ Go(r, "failing")
    BY <1>3, <2>3 DEF Verify, CreateSessionFails
  <2>. QED
    BY <2>2, <2>4, <2>5, <2>6, <2>7, ReturnsSound, GoesFree, GoesSound
<1>. QED
  BY <1>1, <1>2, <1>3

\* Steps that read a row or act on what was read.
LEMMA AdmissionSteps ==
  ASSUME TypeOK, Carried, Gone, LateHasNotRead, NEW r \in Requests,
         \/ Load(r) \/ Refresh(r) \/ LoadToken(r) \/ Disable(r)
  PROVE  Carried' /\ LateHasNotRead'
<1>. DEFINE q == request[r]
<1>0. q \in Request
  BY DEF TypeOK
<1>1. CASE Load(r)
  <2>1. q.session \in Sessions /\ ended' = ended
    BY <1>1 DEF Load, Carried, CarriedBy
  <2>2. sessions[q.session] # 0 => ~q.late
    BY <1>1, <2>1 DEF Load, LateHasNotRead, NotYetRead, Gone
  <2>3. ASSUME ~q.late, NEW pc \in {"dropping", "admitted"}
        PROVE  Sound([q EXCEPT !.pc = pc])
    BY <1>0, <2>1, <2>3 DEF Sound, CarriedBy, NotYetRead, Request
  <2>4. ASSUME ~q.late, NEW x
        PROVE  Sound([q EXCEPT !.pc = "refreshing", !.expires = x])
    BY <1>0, <2>1, <2>4 DEF Sound, CarriedBy, NotYetRead, Request
  <2>5. q.at \in Nat /\ sessions[q.session] \in Nat
    BY <1>0, <2>1 DEF Request, TypeOK
  <2>6. \/ Return(r)
        \/ /\ sessions[q.session] # 0
           /\ \/ Go(r, "dropping") \/ Go(r, "admitted")
              \/ Become(r, [q EXCEPT !.pc = "refreshing", !.expires = q.at + ttl])
    BY <1>1, <2>5 DEF Load
  <2>. QED
    BY <2>1, <2>2, <2>3, <2>4, <2>6, ReturnsSound, GoesSound, SoundKept
<1>2. CASE Refresh(r)
  <2>1. q.session \in Sessions
    BY <1>2 DEF Refresh, Carried, CarriedBy, At
  <2>2. ~q.late
    BY <1>2, NotLate DEF Refresh, At
  <2>3. Sound([q EXCEPT !.pc = "admitted"])
    BY <1>0, <2>1, <2>2 DEF Sound, CarriedBy, NotYetRead, Request
  <2>. QED
    BY <1>2, <2>3, GoesSound DEF Refresh
<1>3. CASE LoadToken(r)
  <2>1. q.token \in Tokens /\ q.pc = "bearer"
    BY <1>3 DEF LoadToken, Carried, CarriedBy, At
  <2>2. Valid(tokens[q.token]) => ~q.late
    BY <2>1 DEF LateHasNotRead, NotYetRead, Gone, Valid
  <2>3. "touching" \in Free
    BY DEF Free, Steps
  <2>. QED
    BY <1>0, <1>3, <2>2, <2>3, FreeSound, ReturnsSound, GoesSound DEF LoadToken
<1>4. CASE Disable(r)
  <2>1. ~q.late /\ q.token \in Tokens
    BY <1>4, NotLate DEF Disable, At, Carried, CarriedBy
  <2>2. Sound([q EXCEPT !.pc = "deleting"])
    BY <1>0, <2>1 DEF Sound, CarriedBy, NotYetRead, Request
  <2>. QED
    BY <1>4, <2>2, ReturnsSound, GoesSound DEF Disable
<1>. QED
  BY <1>1, <1>2, <1>3, <1>4

\* A request that starts with a session or a token is sound.
LEMMA CredentialSound ==
  ASSUME NEW at_, NEW late \in BOOLEAN
  PROVE  /\ \A s \in Sessions : (late => s \in ended) =>
              Sound([Idle EXCEPT !.pc = "loading", !.session = s, !.at = at_,
                                 !.late = late])
         /\ \A t \in Tokens : (late => t \in ended) =>
              Sound([Idle EXCEPT !.pc = "bearer", !.token = t, !.late = late])
BY DEF Sound, CarriedBy, NotYetRead, Idle

\* Steps that start something or take a token.
LEMMA StartingSteps ==
  ASSUME TypeOK, Carried, LateHasNotRead, NEW r \in Requests,
         \/ (\E s \in Sessions : Enter(r, s)) \/ (\E t \in Tokens : Bearer(r, t))
         \/ (\E t \in Tokens : DeleteToken(r, t))
         \/ CreateToken(r) \/ Configure(r) \/ Ensure(r) \/ InsertMCPToken(r)
  PROVE  Carried' /\ LateHasNotRead'
<1>0. request[r] \in Request
  BY DEF TypeOK
<1>1. ASSUME NEW s \in Sessions, Enter(r, s) PROVE Carried' /\ LateHasNotRead'
  <2>. DEFINE q == [Idle EXCEPT !.pc = "loading", !.session = s, !.at = now,
                                !.late = s \in ended]
  <2>1. (s \in ended) \in BOOLEAN /\ ((s \in ended) => s \in ended)
    OBVIOUS
  <2>2. Sound(q)
    BY <2>1, CredentialSound, Zenon
  <2>3. Become(r, q) /\ ended' = ended
    BY <1>1, Zenon DEF Enter
  <2>. HIDE DEF q
  <2>. QED
    BY <2>2, <2>3, SoundKept
<1>2. ASSUME NEW t \in Tokens, Bearer(r, t) PROVE Carried' /\ LateHasNotRead'
  <2>. DEFINE q == [Idle EXCEPT !.pc = "bearer", !.token = t, !.late = t \in ended]
  <2>1. (t \in ended) \in BOOLEAN /\ ((t \in ended) => t \in ended)
    OBVIOUS
  <2>2. Sound(q)
    BY <2>1, CredentialSound, Zenon
  <2>3. Become(r, q) /\ ended' = ended
    BY <1>2, Zenon DEF Bearer
  <2>. HIDE DEF q
  <2>. QED
    BY <2>2, <2>3, SoundKept
<1>3. ASSUME NEW t \in Tokens, DeleteToken(r, t) PROVE Carried' /\ LateHasNotRead'
  <2>1. ASSUME NEW pc \in {"disabling", "deleting"}
        PROVE  Sound([Idle EXCEPT !.token = t, !.pc = pc])
    BY DEF Sound, CarriedBy, NotYetRead, Idle
  <2>2. ended' = ended
    BY <1>3 DEF DeleteToken
  <2>3. \E pc \in {"disabling", "deleting"} :
          Become(r, [Idle EXCEPT !.token = t, !.pc = pc])
    BY <1>3 DEF DeleteToken
  <2>. QED
    BY <2>1, <2>2, <2>3, SoundKept
<1>4. CASE CreateToken(r)
  <2>1. ASSUME NEW n
        PROVE  Sound([Idle EXCEPT !.pc = "inserting", !.op = "token", !.name = n])
    BY DEF Sound, CarriedBy, NotYetRead, Idle
  <2>. QED
    BY <1>4, <2>1, SoundKept DEF CreateToken
<1>5. CASE Configure(r)
  <2>1. Sound([Idle EXCEPT !.pc = "switching", !.op = "mcp", !.was = mcp])
    BY DEF Sound, CarriedBy, NotYetRead, Idle
  <2>. QED
    BY <1>5, <2>1, SoundKept DEF Configure
<1>6. CASE Ensure(r)
  <2>1. ~request[r].late /\ request[r].pc \notin {"loading", "bearer"}
    BY <1>6, NotLate DEF Ensure
  <2>2. ASSUME NEW n
        PROVE  Sound([request[r] EXCEPT !.pc = "inserting", !.name = n])
    BY <1>0, <2>1 DEF Sound, CarriedBy, NotYetRead, Request
  <2>3. "consuming" \in Free
    BY DEF Free, Steps
  <2>4. ended' = ended
    BY <1>6 DEF Ensure
  <2>. QED
    BY <1>6, <2>1, <2>2, <2>3, <2>4, ReturnsSound, GoesFree, SoundKept DEF Ensure
<1>7. CASE InsertMCPToken(r)
  <2>1. ~request[r].late
    BY <1>7, NotLate DEF InsertMCPToken, At
  <2>2. ASSUME NEW t
        PROVE  Sound([request[r] EXCEPT !.pc = "noting", !.token = t])
    BY <1>0, <2>1 DEF Sound, CarriedBy, NotYetRead, Request
  <2>. QED
    BY <1>7, <2>2, SoundKept DEF InsertMCPToken
<1>. QED
  BY <1>1, <1>2, <1>3, <1>4, <1>5, <1>6, <1>7

\* Every step keeps what requests carry, and that late ones have not read.
LEMMA SoundStep ==
  ASSUME TypeOK, Carried, Gone, LateHasNotRead, [Next]_vars
  PROVE  Carried' /\ LateHasNotRead'
<1>1. CASE Tick \/ SetSessionTTL \/ UNCHANGED vars
  <2>1. UNCHANGED <<request, ended>>
    BY <1>1 DEF Tick, SetSessionTTL, vars
  <2>. QED
    BY <2>1 DEF Carried, CarriedBy, LateHasNotRead, NotYetRead
<1>. QED
  BY <1>1, ReturningSteps, GoingSteps, LoginSteps, AdmissionSteps, StartingSteps
     DEF Next

-----------------------------------------------------------------------------
(* Counted: failures and logins under way *)

\* The logins under way are finitely many, no more than the requests.
LEMMA FlyingFinite ==
  /\ IsFiniteSet(InFlight) /\ Cardinality(InFlight) \in Nat
  /\ Cardinality(Requests) \in Nat /\ Cardinality(InFlight) <= Cardinality(Requests)
BY FS_Subset, FS_CardinalityType, AuthAssumption DEF InFlight

\* And so they are after a step.
LEMMA FlyingFiniteNext ==
  /\ IsFiniteSet(InFlight') /\ Cardinality(InFlight') \in Nat
  /\ Cardinality(InFlight') <= Cardinality(Requests)
<1>1. InFlight' \subseteq Requests
  BY DEF InFlight
<1>. QED
  BY <1>1, FS_Subset, FS_CardinalityType, AuthAssumption

\* Fewer logins under way and no more failures.
LEMMA FewerCounted ==
  ASSUME TypeOK, Counted, InFlight' \subseteq InFlight,
         attempts'.count \in Nat, attempts'.count <= attempts.count
  PROVE  Counted'
<1>1. Cardinality(InFlight') <= Cardinality(InFlight)
  BY FlyingFinite, FS_Subset
<1>2. attempts.count \in Nat
  BY DEF TypeOK
<1>. QED
  BY <1>1, <1>2, FlyingFinite, FlyingFiniteNext, Assumed DEF Counted

\* A record that is not in flight, or was before, adds no login under way.
LEMMA NotMoreFlying ==
  ASSUME TypeOK, NEW r \in Requests, NEW q, Become(r, q),
         q.op = "login" /\ q.pc \in {"verifying", "creating", "failing"} =>
           r \in InFlight
  PROVE  InFlight' \subseteq InFlight
BY OneRecord DEF InFlight

\* A request that ends is not under way.
LEMMA ReturnNotFlying ==
  ASSUME TypeOK, NEW r \in Requests, Return(r)
  PROVE  InFlight' \subseteq InFlight \ {r}
BY OneRecord DEF InFlight, Return, Idle, None

\* Going on adds a login only where one was under way.
LEMMA GoNotFlying ==
  ASSUME TypeOK, NEW r \in Requests, NEW pc, Go(r, pc),
         pc \in {"verifying", "creating", "failing"} =>
           r \in InFlight \/ request[r].op # "login"
  PROVE  InFlight' \subseteq InFlight
<1>1. request[r] \in Request
  BY DEF TypeOK
<1>. QED
  BY <1>1, GoIsBecome, NotMoreFlying DEF Request

\* Steps that leave the limiter alone.
Unlimited(r) ==
  \/ Setup(r) \/ SetKey(r) \/ Verify(r) \/ CreateSession(r) \/ CreateSessionFails(r)
  \/ \E s \in Sessions : Enter(r, s)
  \/ Load(r) \/ Drop(r) \/ Refresh(r) \/ Refuse(r)
  \/ \E t \in Tokens : Bearer(r, t) \/ DeleteToken(r, t)
  \/ LoadToken(r) \/ Touch(r) \/ Serve(r) \/ Logout(r) \/ ChangeKey(r) \/ ReplaceKey(r)
  \/ CreateToken(r) \/ InsertToken(r) \/ InsertFails(r)
  \/ \E t \in Tokens, revoked \in BOOLEAN : SetRevoked(r, t, revoked)
  \/ Disable(r) \/ DeleteRow(r)
  \/ Configure(r) \/ Switch(r) \/ Ensure(r) \/ InsertMCPToken(r)
  \/ Note(r) \/ Consume(r) \/ Retract(r) \/ ResetOrImport(r)

\* Those steps add no login under way.
LEMMA UnlimitedFlying ==
  ASSUME TypeOK, Carried, NEW r \in Requests, Unlimited(r)
  PROVE  InFlight' \subseteq InFlight
<1>0. request[r] \in Request
  BY DEF TypeOK
<1>1. CASE Return(r)
  BY <1>1, ReturnNotFlying
<1>2. CASE SetKey(r) \/ Verify(r) \/ CreateSession(r) \/ CreateSessionFails(r)
  <2>1. /\ request[r].pc \in {"hashing", "verifying", "creating"}
        /\ Return(r) \/ Go(r, "creating") \/ Go(r, "failing") \/ Go(r, "clearing")
    BY <1>2 DEF SetKey, Verify, CreateSession, CreateSessionFails, At
  <2>2. r \in InFlight \/ request[r].op # "login"
    BY <2>1 DEF InFlight, Carried, CarriedBy
  <2>. QED
    BY <2>1, <2>2, GoNotFlying, ReturnNotFlying
<1>3. CASE \E pc \in Steps \ {"verifying", "creating", "failing"} : Go(r, pc)
  BY <1>3, GoNotFlying
<1>4. ASSUME NEW q, Become(r, q), q.pc \notin {"verifying", "creating", "failing"}
      PROVE  InFlight' \subseteq InFlight
  BY <1>4, NotMoreFlying
<1>5. CASE Setup(r) \/ (\E s \in Sessions : Enter(r, s)) \/ CreateToken(r)
           \/ (\E t \in Tokens : Bearer(r, t) \/ DeleteToken(r, t)) \/ Configure(r)
  BY <1>4, <1>5 DEF Setup, Enter, Bearer, DeleteToken, CreateToken, Configure, Idle
<1>6. CASE Load(r) \/ Ensure(r) \/ InsertMCPToken(r)
  <2>1. \/ Return(r)
        \/ \E pc \in {"dropping", "admitted", "consuming"} : Go(r, pc)
        \/ \E x : Become(r, [request[r] EXCEPT !.pc = "refreshing", !.expires = x])
        \/ \E x : Become(r, [request[r] EXCEPT !.pc = "inserting", !.name = x])
        \/ \E x : Become(r, [request[r] EXCEPT !.pc = "noting", !.token = x])
    BY <1>6 DEF Load, Ensure, InsertMCPToken
  <2>. QED
    BY <1>0, <1>1, <1>3, <1>4, <2>1 DEF Request, Steps
<1>7. CASE \/ Drop(r) \/ Refresh(r) \/ Refuse(r) \/ LoadToken(r) \/ Touch(r)
           \/ Serve(r) \/ Logout(r) \/ ChangeKey(r) \/ ReplaceKey(r)
           \/ InsertToken(r) \/ InsertFails(r)
           \/ (\E t \in Tokens, revoked \in BOOLEAN : SetRevoked(r, t, revoked))
           \/ Disable(r) \/ DeleteRow(r) \/ Switch(r) \/ Note(r) \/ Consume(r)
           \/ Retract(r) \/ ResetOrImport(r)
  <2>1. Return(r) \/ \E pc \in Steps \ {"verifying", "creating", "failing"} : Go(r, pc)
    BY <1>7 DEF Drop, Refresh, Refuse, LoadToken, Touch, Serve, Logout, ChangeKey,
         ReplaceKey, InsertToken, InsertFails, SetRevoked, Disable, DeleteRow,
         Switch, Note, Consume, Retract, ResetOrImport, Steps
  <2>. QED
    BY <1>1, <1>3, <2>1
<1>. QED
  BY <1>2, <1>5, <1>6, <1>7 DEF Unlimited

\* Those steps leave the failures alone.
LEMMA UnlimitedAttempts ==
  ASSUME NEW r \in Requests, Unlimited(r)
  PROVE  UNCHANGED attempts
<1>1. CASE Setup(r) \/ SetKey(r) \/ Verify(r) \/ CreateSession(r)
           \/ CreateSessionFails(r) \/ (\E s \in Sessions : Enter(r, s))
           \/ Load(r) \/ Drop(r) \/ Refresh(r) \/ Refuse(r)
           \/ (\E t \in Tokens : Bearer(r, t) \/ DeleteToken(r, t))
           \/ LoadToken(r) \/ Touch(r) \/ Serve(r) \/ Logout(r) \/ ChangeKey(r)
           \/ ReplaceKey(r)
  BY <1>1 DEF Setup, SetKey, Verify, CreateSession, CreateSessionFails, Enter,
       Load, Drop, Refresh, Refuse, Bearer, DeleteToken, LoadToken, Touch, Serve,
       Logout, ChangeKey, ReplaceKey, keys
<1>2. CASE CreateToken(r) \/ InsertToken(r) \/ InsertFails(r)
           \/ (\E t \in Tokens, revoked \in BOOLEAN : SetRevoked(r, t, revoked))
           \/ Disable(r) \/ DeleteRow(r) \/ Configure(r) \/ Switch(r) \/ Ensure(r)
           \/ InsertMCPToken(r) \/ Note(r) \/ Consume(r) \/ Retract(r)
           \/ ResetOrImport(r)
  BY <1>2 DEF CreateToken, InsertToken, InsertFails, SetRevoked, Disable,
       DeleteRow, Configure, Switch, Ensure, InsertMCPToken, Note, Consume,
       Retract, ResetOrImport, keys
<1>. QED
  BY <1>1, <1>2 DEF Unlimited

\* Every step keeps the count.
LEMMA CountedKept ==
  ASSUME TypeOK, Carried, Counted, [Next]_vars
  PROVE  Counted'
<1>0. attempts.count \in Nat
  BY DEF TypeOK
<1>1. ASSUME NEW r \in Requests, Login(r) PROVE Counted'
  <2>1. attempts'.count \in Nat /\ attempts'.count < LoginLimit
    BY <1>0, <1>1, Assumed DEF Login, Allowed, NoAttempts
  <2>. QED
    BY <2>1, FlyingFinite, FlyingFiniteNext, Assumed DEF Counted
<1>2. ASSUME NEW r \in Requests, Fail(r) PROVE Counted'
  <2>1. r \in InFlight
    BY <1>2 DEF Fail, At, InFlight, Carried, CarriedBy
  <2>2. InFlight' \subseteq InFlight \ {r}
    BY <1>2, ReturnNotFlying DEF Fail
  <2>3. /\ IsFiniteSet(InFlight \ {r})
        /\ Cardinality(InFlight \ {r}) = Cardinality(InFlight) - 1
    BY <2>1, FlyingFinite, FS_RemoveElement
  <2>4. Cardinality(InFlight') <= Cardinality(InFlight) - 1
    BY <2>2, <2>3, FS_Subset
  <2>5. attempts'.count \in Nat /\ attempts'.count <= attempts.count + 1
    BY <1>0, <1>2 DEF Fail, TypeOK
  <2>. QED
    BY <1>0, <2>4, <2>5, FlyingFinite, FlyingFiniteNext, Assumed DEF Counted
<1>3. ASSUME NEW r \in Requests, Clear(r) PROVE Counted'
  <2>1. InFlight' \subseteq InFlight
    BY <1>3, ReturnNotFlying DEF Clear
  <2>2. attempts'.count = 0
    BY <1>3 DEF Clear, NoAttempts
  <2>. QED
    BY <1>0, <2>1, <2>2, FewerCounted
<1>4. ASSUME NEW r \in Requests, Unlimited(r) PROVE Counted'
  BY <1>0, <1>4, UnlimitedFlying, UnlimitedAttempts, FewerCounted
<1>5. CASE Tick \/ SetSessionTTL \/ UNCHANGED vars
  <2>1. UNCHANGED <<attempts, request>>
    BY <1>5 DEF Tick, SetSessionTTL, vars, keys
  <2>2. InFlight' = InFlight
    BY <2>1 DEF InFlight
  <2>. QED
    BY <1>0, <2>1, <2>2, FewerCounted
<1>. QED
  BY <1>1, <1>2, <1>3, <1>4, <1>5 DEF Next, Unlimited

-----------------------------------------------------------------------------

\* AuthIInv is an invariant: AuthInv alone is not inductive, for a count below
\* its bound says nothing of the logins that may still fail, and a request that
\* is not late says nothing of the row it has read.
THEOREM AuthInvariance == Spec => []AuthIInv
<1>1. Init => AuthIInv
  BY InitHolds
<1>2. AuthIInv /\ [Next]_vars => AuthIInv'
  BY TypesKept, GoneKept, SoundStep, CountedKept DEF AuthIInv
<1>. QED
  BY <1>1, <1>2, PTL DEF Spec

\* AuthInv: failed logins stay below the limit and the requests under way
\* (loginLimiter), and what a logout, a change of key or a deletion ended admits
\* no later request (Authenticate, AuthenticateToken), for any number of
\* requests, sessions and tokens.
THEOREM AccessIsControlled == Spec => []AuthInv
<1>1. AuthIInv => LimiterHolds
  <2>1. TypeOK /\ Counted => LimiterHolds
    BY FlyingFinite, Assumed DEF TypeOK, Counted, LimiterHolds
  <2>. QED
    BY <2>1 DEF AuthIInv
<1>2. AuthIInv => EndedIsFinal
  BY DEF AuthIInv, LateHasNotRead, NotYetRead, EndedIsFinal
<1>3. AuthIInv => AuthInv
  BY <1>1, <1>2 DEF AuthInv, AuthIInv
<1>. QED
  BY <1>3, AuthInvariance, PTL
-----------------------------------------------------------------------------
(* Secrets of tokens *)

\* The token was drawn once: it has a row or had one.
Drawn(t) == tokens[t].name # 0 \/ t \in ended

\* Who inserts has a name, who notes has a token, and a row has its name.
NamesFit ==
  /\ \A t \in Tokens : tokens[t].name = 0 => tokens[t] = NoToken
  /\ \A r \in Requests : /\ At(r, "inserting") => request[r].name \in Names
                         /\ At(r, "noting") => request[r].token \in Tokens

Noting(r, t) == At(r, "noting") /\ request[r].token = t

\* The secret is in one place: with the request that created it, pending, or
\* answered.
SecretOf(t) ==
  /\ told[t] <= 1 /\ (told[t] # 0 => Drawn(t))
  /\ pending = t => Drawn(t) /\ told[t] = 0
  /\ \A r \in Requests : Noting(r, t) => Drawn(t) /\ told[t] = 0 /\ pending # t
  /\ \A r, s \in Requests : Noting(r, t) /\ Noting(s, t) => r = s

SecretsInv == NamesFit /\ \A t \in Tokens : SecretOf(t)

\* A step that neither draws a token nor handles a secret.
LEMMA QuietSecrets ==
  ASSUME TypeOK, SecretsInv, UNCHANGED <<tokens, pending, told>>, ended \subseteq ended',
         NEW r \in Requests, NEW q, Become(r, q), q.pc # "noting",
         q.pc = "inserting" => q.name \in Names
  PROVE  SecretsInv'
<1>1. \A x \in Requests : request'[x] = IF x = r THEN q ELSE request[x]
  BY OneRecord
<1>2. NamesFit'
  BY <1>1 DEF SecretsInv, NamesFit, At
<1>3. ASSUME NEW t \in Tokens PROVE SecretOf(t)'
  <2>1. Drawn(t) => Drawn(t)'
    BY DEF Drawn
  <2>2. \A x \in Requests : Noting(x, t)' => Noting(x, t)
    BY <1>1 DEF Noting, At
  <2>. QED
    BY <2>1, <2>2 DEF SecretsInv, SecretOf
<1>. QED
  BY <1>2, <1>3 DEF SecretsInv

\* The end of a request, and going on to a step that handles no secret.
LEMMA QuietGoing ==
  ASSUME TypeOK, SecretsInv, UNCHANGED <<tokens, pending, told>>, ended \subseteq ended',
         NEW r \in Requests,
         Return(r) \/ \E pc \in Steps \ {"noting", "inserting"} : Go(r, pc)
  PROVE  SecretsInv'
<1>1. CASE Return(r)
  BY <1>1, QuietSecrets DEF Return, Idle
<1>2. ASSUME NEW pc \in Steps \ {"noting", "inserting"}, Go(r, pc)
      PROVE  SecretsInv'
  <2>. DEFINE q == [request[r] EXCEPT !.pc = pc]
  <2>1. Become(r, q)
    BY <1>2, GoIsBecome
  <2>2. q.pc = pc
    BY DEF TypeOK, Request
  <2>. HIDE DEF q
  <2>. QED
    BY <1>2, <2>1, <2>2, QuietSecrets
<1>. QED
  BY <1>1, <1>2

\* Steps that only end their request or go on.
LEMMA SecretsOfGoing ==
  ASSUME TypeOK, SecretsInv, NEW r \in Requests,
         \/ SetKey(r) \/ Verify(r) \/ Fail(r) \/ CreateSession(r)
         \/ CreateSessionFails(r) \/ Clear(r) \/ Drop(r) \/ Refresh(r) \/ Refuse(r)
         \/ LoadToken(r) \/ Touch(r) \/ Serve(r) \/ Logout(r) \/ ChangeKey(r)
         \/ ReplaceKey(r) \/ InsertFails(r) \/ Disable(r) \/ Switch(r)
         \/ ResetOrImport(r) \/ Retract(r)
  PROVE  SecretsInv'
<1>1. CASE SetKey(r) \/ Verify(r) \/ Fail(r) \/ CreateSession(r)
           \/ CreateSessionFails(r) \/ Clear(r) \/ Refresh(r) \/ Refuse(r)
           \/ LoadToken(r) \/ Touch(r)
  <2>1. /\ UNCHANGED <<tokens, pending, told, ended>>
        /\ Return(r) \/ \E pc \in Steps \ {"noting", "inserting"} : Go(r, pc)
    BY <1>1 DEF SetKey, Verify, Fail, CreateSession, CreateSessionFails, Clear,
         Refresh, Refuse, LoadToken, Touch, mcps, Steps
  <2>. QED
    BY <2>1, QuietGoing
<1>2. CASE Serve(r) \/ ChangeKey(r) \/ InsertFails(r) \/ Disable(r) \/ Switch(r)
           \/ ResetOrImport(r) \/ Retract(r)
  <2>1. /\ UNCHANGED <<tokens, pending, told, ended>>
        /\ Return(r) \/ \E pc \in Steps \ {"noting", "inserting"} : Go(r, pc)
    BY <1>2 DEF Serve, ChangeKey, InsertFails, Disable, Switch, ResetOrImport,
         Retract, mcps, Steps
  <2>. QED
    BY <2>1, QuietGoing
<1>3. CASE Drop(r) \/ Logout(r) \/ ReplaceKey(r)
  <2>1. UNCHANGED <<tokens, pending, told>> /\ ended \subseteq ended' /\ Return(r)
    BY <1>3 DEF Drop, Logout, ReplaceKey, DeleteSessions, mcps
  <2>. QED
    BY <2>1, QuietGoing
<1>. QED
  BY <1>1, <1>2, <1>3

\* What a request that begins becomes.
LEMMA BeginsAs ==
  ASSUME NEW r \in Requests
  PROVE  /\ Setup(r) => \E q : Become(r, q) /\ q.pc = "hashing"
         /\ Login(r) => \E q : Become(r, q) /\ q.pc = "verifying"
         /\ Configure(r) => \E q : Become(r, q) /\ q.pc = "switching"
         /\ CreateToken(r) => \E q : /\ Become(r, q) /\ q.pc = "inserting"
                                     /\ q.name \in Names
         /\ \A s \in Sessions : Enter(r, s) => \E q : Become(r, q) /\ q.pc = "loading"
         /\ \A t \in Tokens : Bearer(r, t) => \E q : Become(r, q) /\ q.pc = "bearer"
         /\ \A t \in Tokens : DeleteToken(r, t) =>
              \E q : Become(r, q) /\ q.pc \in {"disabling", "deleting"}
<1>1. [Idle EXCEPT !.pc = "hashing", !.op = "setup"].pc = "hashing"
  BY DEF Idle
<1>2. [Idle EXCEPT !.pc = "verifying", !.op = "login"].pc = "verifying"
  BY DEF Idle
<1>3. [Idle EXCEPT !.pc = "switching", !.op = "mcp", !.was = mcp].pc = "switching"
  BY DEF Idle
<1>4. \A n : LET q == [Idle EXCEPT !.pc = "inserting", !.op = "token", !.name = n]
             IN  q.pc = "inserting" /\ q.name = n
  BY DEF Idle
<1>5. \A s : [Idle EXCEPT !.pc = "loading", !.session = s, !.at = now,
                          !.late = s \in ended].pc = "loading"
  BY DEF Idle
<1>6. \A t : [Idle EXCEPT !.pc = "bearer", !.token = t, !.late = t \in ended].pc = "bearer"
  BY DEF Idle
<1>7. \A t, pc : [Idle EXCEPT !.token = t, !.pc = pc].pc = pc
  BY DEF Idle
<1>8. ASSUME CreateToken(r)
      PROVE  \E q : Become(r, q) /\ q.pc = "inserting" /\ q.name \in Names
  <2>1. PICK n \in Names :
          Become(r, [Idle EXCEPT !.pc = "inserting", !.op = "token", !.name = n])
    BY <1>8 DEF CreateToken
  <2>2. PICK q : q = [Idle EXCEPT !.pc = "inserting", !.op = "token", !.name = n]
    OBVIOUS
  <2>. QED
    BY <1>4, <2>1, <2>2
<1>9. ASSUME NEW t \in Tokens, DeleteToken(r, t)
      PROVE  \E q : Become(r, q) /\ q.pc \in {"disabling", "deleting"}
  <2>1. \E pc \in {"disabling", "deleting"} :
          Become(r, [Idle EXCEPT !.token = t, !.pc = pc])
    BY <1>9 DEF DeleteToken
  <2>. QED
    BY <1>7, <2>1, Zenon
<1>. QED
  <2>1. Setup(r) => \E q : Become(r, q) /\ q.pc = "hashing"
    BY <1>1, Zenon DEF Setup
  <2>2. Login(r) => \E q : Become(r, q) /\ q.pc = "verifying"
    BY <1>2, Zenon DEF Login
  <2>3. Configure(r) => \E q : Become(r, q) /\ q.pc = "switching"
    BY <1>3, Zenon DEF Configure
  <2>4. \A s \in Sessions : Enter(r, s) => \E q : Become(r, q) /\ q.pc = "loading"
    BY <1>5, Zenon DEF Enter
  <2>5. \A t \in Tokens : Bearer(r, t) => \E q : Become(r, q) /\ q.pc = "bearer"
    BY <1>6, Zenon DEF Bearer
  <2>. QED
    BY <1>8, <1>9, <2>1, <2>2, <2>3, <2>4, <2>5

\* Steps that begin something, read a row or look for a token.
LEMMA SecretsOfStarts ==
  ASSUME TypeOK, SecretsInv, NEW r \in Requests,
         \/ Setup(r) \/ Login(r) \/ (\E s \in Sessions : Enter(r, s)) \/ Load(r)
         \/ (\E t \in Tokens : Bearer(r, t) \/ DeleteToken(r, t))
         \/ CreateToken(r) \/ Configure(r) \/ Ensure(r)
  PROVE  SecretsInv'
<1>1. UNCHANGED <<tokens, pending, told, ended>>
  BY DEF Setup, Login, Enter, Load, Bearer, DeleteToken, CreateToken, Configure,
       Ensure, mcps
<1>2. CASE Setup(r) \/ Login(r) \/ Configure(r) \/ (\E s \in Sessions : Enter(r, s))
           \/ (\E t \in Tokens : Bearer(r, t) \/ DeleteToken(r, t))
  <2>1. \E q : Become(r, q) /\ q.pc \notin {"noting", "inserting"}
    BY <1>2, BeginsAs
  <2>. QED
    BY <1>1, <2>1, QuietSecrets
<1>3. CASE CreateToken(r)
  <2>1. \E q : Become(r, q) /\ q.pc = "inserting" /\ q.name \in Names
    BY <1>3, BeginsAs
  <2>. QED
    BY <1>1, <2>1, QuietSecrets
<1>4. CASE Load(r)
  <2>1. \/ Return(r) \/ Go(r, "dropping") \/ Go(r, "admitted")
        \/ \E x : Become(r, [request[r] EXCEPT !.pc = "refreshing", !.expires = x])
    BY <1>4 DEF Load
  <2>2. \A x : [request[r] EXCEPT !.pc = "refreshing", !.expires = x].pc = "refreshing"
    BY DEF TypeOK, Request
  <2>3. {"dropping", "admitted"} \subseteq Steps
    BY DEF Steps
  <2>. QED
    BY <1>1, <2>1, <2>2, <2>3, QuietGoing, QuietSecrets
<1>5. CASE Ensure(r)
  <2>1. Names \ NamesInUse # {} => Min(Names \ NamesInUse) \in Names
    BY Assumed, MinOfNats
  <2>2. \/ Return(r) \/ Go(r, "consuming")
        \/ \E n \in Names : Become(r, [request[r] EXCEPT !.pc = "inserting", !.name = n])
    BY <1>5, <2>1 DEF Ensure
  <2>3. \A n : LET q == [request[r] EXCEPT !.pc = "inserting", !.name = n]
               IN  q.pc = "inserting" /\ q.name = n
    BY DEF TypeOK, Request
  <2>4. "consuming" \in Steps
    BY DEF Steps
  <2>. QED
    BY <1>1, <2>2, <2>3, <2>4, QuietGoing, QuietSecrets
<1>. QED
  BY <1>2, <1>3, <1>4, <1>5

\* A token that is drawn was nobody's.
LEMMA DrawIs ==
  ASSUME TypeOK, SecretsInv, NEW t \in Tokens, NEW kind, NEW name \in Names, NEW expires,
         Draw(t, kind, name, expires), UNCHANGED ended
  PROVE  /\ ~Drawn(t) /\ Drawn(t)' /\ tokens'[t].name = name
         /\ \A u \in Tokens : u # t => tokens'[u] = tokens[u]
         /\ told[t] = 0 /\ pending # t /\ \A r \in Requests : ~Noting(r, t)
<1>1. ~Drawn(t)
  BY DEF Draw, Drawn, NoToken
<1>2. /\ tokens'[t].name = name /\ name # 0
      /\ \A u \in Tokens : u # t => tokens'[u] = tokens[u]
  BY Assumed DEF Draw, TypeOK
<1>3. Drawn(t)'
  BY <1>2 DEF Drawn
<1>. QED
  BY <1>1, <1>2, <1>3 DEF SecretsInv, SecretOf

\* Steps that draw tokens, change or delete them.
LEMMA SecretsOfTokens ==
  ASSUME TypeOK, Carried, SecretsInv, NEW r \in Requests,
         \/ InsertToken(r) \/ InsertMCPToken(r) \/ DeleteRow(r)
         \/ \E t \in Tokens, revoked \in BOOLEAN : SetRevoked(r, t, revoked)
  PROVE  SecretsInv'
<1>0. request[r] \in Request
  BY DEF TypeOK
<1>1. CASE InsertToken(r)
  <2>1. PICK t \in Tokens, kind \in {"rest", "mcp"}, term \in TokenTerms :
          /\ Draw(t, kind, request[r].name, IF term = 0 THEN 0 ELSE now + term)
          /\ told' = [told EXCEPT ![t] = @ + 1]
    BY <1>1 DEF InsertToken
  <2>2. Become(r, Idle) /\ UNCHANGED <<pending, ended>> /\ request[r].name \in Names
    BY <1>1 DEF InsertToken, Return, SecretsInv, NamesFit
  <2>3. /\ ~Drawn(t) /\ Drawn(t)' /\ tokens'[t].name # 0
        /\ \A u \in Tokens : u # t => tokens'[u] = tokens[u]
        /\ told[t] = 0 /\ pending # t /\ \A x \in Requests : ~Noting(x, t)
    BY <2>1, <2>2, DrawIs, Assumed
  <2>4. \A x \in Requests : request'[x] = IF x = r THEN Idle ELSE request[x]
    BY <2>2, OneRecord
  <2>5. told'[t] = told[t] + 1 /\ \A u \in Tokens : u # t => told'[u] = told[u]
    BY <2>1 DEF TypeOK
  <2>6. NamesFit'
    BY <2>3, <2>4 DEF SecretsInv, NamesFit, At, Idle
  <2>7. \A x \in Requests, u \in Tokens : Noting(x, u)' => Noting(x, u)
    BY <2>4 DEF Noting, At, Idle
  <2>8. SecretOf(t)'
    BY <2>2, <2>3, <2>5, <2>7 DEF SecretOf
  <2>9. ASSUME NEW u \in Tokens, u # t PROVE SecretOf(u)'
    <3>1. Drawn(u)' <=> Drawn(u)
      BY <2>2, <2>3, <2>9 DEF Drawn
    <3>. QED
      BY <2>2, <2>5, <2>7, <2>9, <3>1 DEF SecretsInv, SecretOf
  <2>. QED
    BY <2>6, <2>8, <2>9 DEF SecretsInv
<1>2. CASE InsertMCPToken(r)
  <2>1. PICK t \in Tokens :
          /\ Draw(t, "mcp", request[r].name, 0)
          /\ Become(r, [request[r] EXCEPT !.pc = "noting", !.token = t])
    BY <1>2 DEF InsertMCPToken
  <2>2. UNCHANGED <<pending, ended, told>> /\ request[r].name \in Names
    BY <1>2 DEF InsertMCPToken, SecretsInv, NamesFit
  <2>3. /\ ~Drawn(t) /\ Drawn(t)' /\ tokens'[t].name # 0
        /\ \A u \in Tokens : u # t => tokens'[u] = tokens[u]
        /\ told[t] = 0 /\ pending # t /\ \A x \in Requests : ~Noting(x, t)
    BY <2>1, <2>2, DrawIs, Assumed
  <2>4. PICK q : q = [request[r] EXCEPT !.pc = "noting", !.token = t]
    OBVIOUS
  <2>5. q.pc = "noting" /\ q.token = t
    BY <1>0, <2>4 DEF Request
  <2>6. \A x \in Requests : request'[x] = IF x = r THEN q ELSE request[x]
    BY <2>1, <2>4, OneRecord
  <2>7. NamesFit'
    BY <2>3, <2>5, <2>6 DEF SecretsInv, NamesFit, At
  <2>8. \A x \in Requests, u \in Tokens :
          Noting(x, u)' <=> IF x = r THEN u = t ELSE Noting(x, u)
    BY <2>5, <2>6 DEF Noting, At
  <2>9. SecretOf(t)'
    BY <2>2, <2>3, <2>8 DEF SecretOf
  <2>10. ASSUME NEW u \in Tokens, u # t PROVE SecretOf(u)'
    <3>1. Drawn(u)' <=> Drawn(u)
      BY <2>2, <2>3, <2>10 DEF Drawn
    <3>. QED
      BY <2>2, <2>8, <2>10, <3>1 DEF SecretsInv, SecretOf
  <2>. QED
    BY <2>7, <2>9, <2>10 DEF SecretsInv
<1>3. ASSUME UNCHANGED <<pending, told>>, Return(r), NEW t \in Tokens,
             \A u \in Tokens : u # t => tokens'[u] = tokens[u],
             tokens'[t] = NoToken \/ tokens'[t].name # 0,
             ended \subseteq ended', Drawn(t)', ended' \subseteq ended \cup {t}
      PROVE  SecretsInv'
  <2>1. \A x \in Requests : request'[x] = IF x = r THEN Idle ELSE request[x]
    BY <1>3, OneRecord DEF Return
  <2>2. NamesFit'
    BY <1>3, <2>1 DEF SecretsInv, NamesFit, At, Idle
  <2>3. \A x \in Requests, u \in Tokens : Noting(x, u)' => Noting(x, u)
    BY <2>1 DEF Noting, At, Idle
  <2>4. \A u \in Tokens : Drawn(u) => Drawn(u)'
    BY <1>3 DEF Drawn
  <2>5. \A u \in Tokens : SecretOf(u)'
    BY <1>3, <2>3, <2>4 DEF SecretsInv, SecretOf
  <2>. QED
    BY <2>2, <2>5 DEF SecretsInv
<1>4. ASSUME NEW t \in Tokens, NEW revoked \in BOOLEAN, SetRevoked(r, t, revoked)
      PROVE  SecretsInv'
  <2>1. tokens[t].name # 0
    BY <1>4 DEF SetRevoked, SecretsInv, NamesFit
  <2>2. /\ tokens'[t].name = tokens[t].name
        /\ \A u \in Tokens : u # t => tokens'[u] = tokens[u]
    BY <1>4 DEF SetRevoked, TypeOK
  <2>3. Drawn(t)' /\ Return(r) /\ UNCHANGED <<pending, told, ended>>
    BY <1>4, <2>1, <2>2 DEF SetRevoked, Drawn
  <2>. QED
    BY <1>3, <2>1, <2>2, <2>3
<1>5. CASE DeleteRow(r)
  <2>0. PICK t : t = request[r].token
    OBVIOUS
  <2>1. t \in Tokens
    BY <1>5, <2>0 DEF DeleteRow, Carried, CarriedBy, At
  <2>2. /\ tokens'[t] = NoToken /\ \A u \in Tokens : u # t => tokens'[u] = tokens[u]
        /\ ended' = ended \cup {t} /\ Return(r) /\ UNCHANGED <<pending, told>>
    BY <1>5, <2>0, <2>1 DEF DeleteRow, TypeOK
  <2>3. Drawn(t)'
    BY <2>2 DEF Drawn
  <2>. QED
    BY <1>3, <2>1, <2>2, <2>3
<1>. QED
  BY <1>1, <1>2, <1>4, <1>5

\* A secret becomes pending; and is answered, whoever created it.
LEMMA SecretsOfMCP ==
  ASSUME TypeOK, SecretsInv, NEW r \in Requests, Note(r) \/ Consume(r)
  PROVE  SecretsInv'
<1>0. UNCHANGED <<tokens, ended>> /\ request[r] \in Request /\ None \notin Tokens
  BY AuthAssumption DEF Note, Consume, TypeOK
<1>1. \A t \in Tokens : Drawn(t)' <=> Drawn(t)
  BY <1>0 DEF Drawn
<1>2. CASE Note(r)
  <2>. DEFINE t == request[r].token
  <2>1. At(r, "noting") /\ t \in Tokens /\ Noting(r, t)
    BY <1>2 DEF Note, SecretsInv, NamesFit, Noting
  <2>2. PICK q : q = [request[r] EXCEPT !.pc = "consuming"]
    OBVIOUS
  <2>3. q.pc = "consuming"
    BY <1>0, <2>2 DEF Request
  <2>4. \A x \in Requests : request'[x] = IF x = r THEN q ELSE request[x]
    BY <1>2, <2>2, GoIsBecome, OneRecord DEF Note
  <2>5. pending' = t /\ UNCHANGED told
    BY <1>2 DEF Note
  <2>6. NamesFit'
    BY <1>0, <2>3, <2>4 DEF SecretsInv, NamesFit, At
  <2>7. \A x \in Requests, u \in Tokens : Noting(x, u)' => Noting(x, u) /\ x # r
    BY <2>3, <2>4 DEF Noting, At
  <2>. HIDE DEF t
  <2>8. \A u \in Tokens : SecretOf(u)'
    BY <1>1, <2>1, <2>5, <2>7 DEF SecretsInv, SecretOf
  <2>. QED
    BY <2>6, <2>8 DEF SecretsInv
<1>3. CASE Consume(r)
  <2>1. \A x \in Requests : request'[x] = IF x = r THEN Idle ELSE request[x]
    BY <1>3, OneRecord DEF Consume, Return
  <2>2. /\ \A u \in Tokens : told'[u] = told[u] + IF u = pending THEN 1 ELSE 0
        /\ pending' = None
    BY <1>3 DEF Consume
  <2>3. NamesFit'
    BY <1>0, <2>1 DEF SecretsInv, NamesFit, At, Idle
  <2>4. \A x \in Requests, u \in Tokens : Noting(x, u)' => Noting(x, u)
    BY <2>1 DEF Noting, At, Idle
  <2>5. ASSUME NEW u \in Tokens PROVE SecretOf(u)'
    <3>1. SecretOf(u) /\ told[u] \in Nat /\ pending' # u
      BY <1>0, <2>2 DEF SecretsInv, TypeOK
    <3>2. CASE u = pending
      BY <1>1, <2>2, <2>4, <3>1, <3>2 DEF SecretOf
    <3>3. CASE u # pending
      <4>1. told'[u] = told[u]
        BY <2>2, <3>1, <3>3
      <4>. QED
        BY <1>1, <2>4, <3>1, <4>1 DEF SecretOf
    <3>. QED
      BY <3>2, <3>3
  <2>. QED
    BY <2>3, <2>5 DEF SecretsInv
<1>. QED
  BY <1>2, <1>3

\* Every step keeps each secret in one place.
LEMMA SecretsKept ==
  ASSUME TypeOK, Carried, SecretsInv, [Next]_vars
  PROVE  SecretsInv'
<1>1. CASE Tick \/ SetSessionTTL \/ UNCHANGED vars
  <2>1. UNCHANGED <<tokens, pending, told, ended, request>>
    BY <1>1 DEF Tick, SetSessionTTL, vars, mcps
  <2>. QED
    BY <2>1 DEF SecretsInv, NamesFit, SecretOf, Noting, Drawn, At
<1>. QED
  BY <1>1, SecretsOfGoing, SecretsOfStarts, SecretsOfTokens, SecretsOfMCP DEF Next

\* ToldOnce: the secret of a token is answered once, to the request that created
\* it or to one of those that enabled MCP (ConsumePendingMCPToken takes what
\* another request may have noted), for any number of requests and tokens.
THEOREM SecretsAreToldOnce == Spec => []ToldOnce
<1>1. Init => SecretsInv
  <2>1. None \notin Tokens
    BY AuthAssumption
  <2>. QED
    BY <2>1 DEF Init, SecretsInv, NamesFit, SecretOf, Noting, Drawn, At, Idle, NoToken
<1>2. AuthIInv /\ SecretsInv /\ [Next]_vars => SecretsInv'
  BY SecretsKept DEF AuthIInv
<1>3. SecretsInv => ToldOnce
  BY DEF SecretsInv, SecretOf, ToldOnce
<1>. QED
  BY <1>1, <1>2, <1>3, AuthInvariance, PTL DEF Spec

-----------------------------------------------------------------------------
(* Sessions keep what they promised *)

\* What an admission promises at least, and the time a request may take for it.
Half == Min(Lifetimes) \div 2
Prompt == MaxStall <= Min(Lifetimes) - Half

\* A request that acts for a session read its clock a short time ago.
Acting == {"loading", "dropping", "refreshing"}

Recent(q) ==
  /\ q.pc \in Acting =>
       /\ q.at <= now /\ now - q.at <= MaxStall
       /\ sessions[q.session] # 0 \/ q.session \in ended
  /\ q.pc = "refreshing" => q.expires >= q.at + Min(Lifetimes)

\* No promise reaches beyond half a lifetime from now, nor beyond the row.
PromisesFit ==
  \A s \in Sessions :
    /\ promised[s] <= now + Half
    /\ promised[s] # 0 => sessions[s] # 0 \/ s \in ended
    /\ sessions[s] # 0 => promised[s] <= sessions[s]

PromisesInv == PromisesFit /\ \A r \in Requests : Recent(request[r])

\* The numbers these steps compute with.
LEMMA Numbers ==
  ASSUME TypeOK
  PROVE  /\ now \in Nat /\ ttl \in Nat /\ MaxStall \in Nat
         /\ Min(Lifetimes) \in Nat /\ Half \in Nat /\ Half <= Min(Lifetimes)
         /\ Min(Lifetimes) > 0 /\ Min(Lifetimes) <= ttl /\ Half <= ttl \div 2
         /\ \A s \in Sessions : sessions[s] \in Nat /\ promised[s] \in Nat
         /\ \A r \in Requests : request[r].at \in Nat /\ request[r].expires \in Nat
<1>1. now \in Nat /\ ttl \in Lifetimes
  BY Assumed DEF TypeOK
<1>2. Lifetimes \subseteq Nat \ {0} /\ Lifetimes # {}
  BY AuthAssumption
<1>3. Min(Lifetimes) \in Lifetimes /\ Min(Lifetimes) <= ttl
  BY <1>1, <1>2, MinOfNats
<1>4. MaxStall \in Nat
  BY AuthAssumption, Zenon
<1>5. Min(Lifetimes) \in Nat /\ Min(Lifetimes) > 0 /\ ttl \in Nat
  <2>1. ttl \in Nat \ {0} /\ Min(Lifetimes) \in Nat \ {0}
    BY <1>1, <1>2, <1>3, Zenon
  <2>. QED
    BY <2>1
<1>6. Half \in Nat /\ Half <= Min(Lifetimes) /\ Half <= ttl \div 2
  BY <1>3, <1>5 DEF Half
<1>7. \A s \in Sessions : sessions[s] \in Nat /\ promised[s] \in Nat
  BY DEF TypeOK
<1>8. \A r \in Requests : request[r].at \in Nat /\ request[r].expires \in Nat
  BY DEF TypeOK, Request
<1>. QED
  BY <1>1, <1>3, <1>4, <1>5, <1>6, <1>7, <1>8

\* What a step does to the records of the other requests.
LEMMA OthersRecent ==
  ASSUME TypeOK, Carried, PromisesInv, NEW r \in Requests, NEW q, Become(r, q),
         Recent(q)', now' = now,
         \A s \in Sessions : sessions[s] # 0 \/ s \in ended => sessions'[s] # 0 \/ s \in ended'
  PROVE  \A x \in Requests : Recent(request[x])'
<1>1. \A x \in Requests : request'[x] = IF x = r THEN q ELSE request[x]
  BY OneRecord
<1>2. ASSUME NEW x \in Requests, x # r PROVE Recent(request[x])'
  <2>1. request[x].pc \in Acting => request[x].session \in Sessions
    BY DEF Acting, Carried, CarriedBy
  <2>2. Recent(request[x]) /\ request'[x] = request[x]
    BY <1>1, <1>2 DEF PromisesInv
  <2>. QED
    BY <2>1, <2>2 DEF Recent
<1>. QED
  BY <1>1, <1>2

\* A request that ends or goes on elsewhere, with sessions as they were.
LEMMA QuietPromises ==
  ASSUME TypeOK, Carried, PromisesInv, UNCHANGED <<sessions, promised, now>>,
         ended \subseteq ended', NEW r \in Requests, NEW q, Become(r, q), Recent(q)'
  PROVE  PromisesInv'
<1>1. PromisesFit'
  BY DEF PromisesInv, PromisesFit
<1>2. \A x \in Requests : Recent(request[x])'
  BY OthersRecent
<1>. QED
  BY <1>1, <1>2 DEF PromisesInv

LEMMA PromisesGoing ==
  ASSUME TypeOK, Carried, PromisesInv, UNCHANGED <<sessions, promised, now>>,
         ended \subseteq ended', NEW r \in Requests,
         \/ Return(r)
         \/ \E pc \in Steps \ Acting : Go(r, pc)
         \/ \E q : Become(r, q) /\ q.pc \notin Acting
  PROVE  PromisesInv'
<1>1. ASSUME NEW q, q.pc \notin Acting PROVE Recent(q)'
  BY <1>1 DEF Recent, Acting
<1>2. CASE Return(r)
  BY <1>1, <1>2, QuietPromises DEF Return, Idle, Acting
<1>3. ASSUME NEW pc \in Steps \ Acting, Go(r, pc) PROVE PromisesInv'
  <2>. DEFINE q == [request[r] EXCEPT !.pc = pc]
  <2>1. Become(r, q) /\ q.pc = pc
    BY <1>3, GoIsBecome DEF TypeOK, Request
  <2>. HIDE DEF q
  <2>. QED
    BY <1>1, <1>3, <2>1, QuietPromises
<1>4. ASSUME NEW q, Become(r, q), q.pc \notin Acting PROVE PromisesInv'
  BY <1>1, <1>4, QuietPromises
<1>. QED
  BY <1>2, <1>3, <1>4

\* Steps that leave sessions and promises alone.
LEMMA PromisesOfOthers ==
  ASSUME TypeOK, Carried, PromisesInv, NEW r \in Requests,
         \/ Setup(r) \/ SetKey(r) \/ Login(r) \/ Verify(r) \/ Fail(r)
         \/ CreateSessionFails(r) \/ Clear(r) \/ Refuse(r)
         \/ (\E t \in Tokens : Bearer(r, t) \/ DeleteToken(r, t))
         \/ LoadToken(r) \/ Touch(r) \/ Serve(r) \/ ChangeKey(r)
         \/ CreateToken(r) \/ InsertToken(r) \/ InsertFails(r)
         \/ (\E t \in Tokens, revoked \in BOOLEAN : SetRevoked(r, t, revoked))
         \/ Disable(r) \/ DeleteRow(r) \/ Configure(r) \/ Switch(r)
         \/ ResetOrImport(r) \/ Ensure(r) \/ InsertMCPToken(r) \/ Note(r)
         \/ Consume(r) \/ Retract(r)
  PROVE  PromisesInv'
<1>. USE DEF clock, keys
<1>1. CASE \/ Setup(r) \/ Login(r) \/ Configure(r) \/ CreateToken(r)
           \/ \E t \in Tokens : Bearer(r, t) \/ DeleteToken(r, t)
  <2>1. UNCHANGED <<sessions, promised, now, ended>>
    BY <1>1 DEF Setup, Login, Configure, CreateToken, Bearer, DeleteToken
  <2>2. \E q : Become(r, q) /\ q.pc \notin Acting
    BY <1>1, BeginsAs DEF Acting
  <2>. QED
    BY <2>1, <2>2, PromisesGoing
<1>2. CASE \/ SetKey(r) \/ Verify(r) \/ Fail(r) \/ CreateSessionFails(r) \/ Clear(r)
           \/ Refuse(r) \/ LoadToken(r) \/ Touch(r) \/ Serve(r) \/ ChangeKey(r)
  <2>1. /\ UNCHANGED <<sessions, promised, now, ended>>
        /\ Return(r) \/ \E pc \in Steps \ Acting : Go(r, pc)
    BY <1>2 DEF SetKey, Verify, Fail, CreateSessionFails, Clear, Refuse, LoadToken,
         Touch, Serve, ChangeKey, Steps, Acting
  <2>. QED
    BY <2>1, PromisesGoing
<1>3. CASE \/ InsertToken(r) \/ InsertFails(r) \/ Disable(r) \/ DeleteRow(r)
           \/ (\E t \in Tokens, revoked \in BOOLEAN : SetRevoked(r, t, revoked))
           \/ Switch(r) \/ ResetOrImport(r) \/ Note(r) \/ Consume(r) \/ Retract(r)
  <2>1. /\ UNCHANGED <<sessions, promised, now>> /\ ended \subseteq ended'
        /\ Return(r) \/ \E pc \in Steps \ Acting : Go(r, pc)
    BY <1>3 DEF InsertToken, InsertFails, Disable, DeleteRow, SetRevoked, Switch,
         ResetOrImport, Note, Consume, Retract, Steps, Acting
  <2>. QED
    BY <2>1, PromisesGoing
<1>4. CASE Ensure(r) \/ InsertMCPToken(r)
  <2>1. /\ UNCHANGED <<sessions, promised, now, ended>>
        /\ \/ Return(r) \/ Go(r, "consuming")
           \/ \E x : Become(r, [request[r] EXCEPT !.pc = "inserting", !.name = x])
           \/ \E x : Become(r, [request[r] EXCEPT !.pc = "noting", !.token = x])
    BY <1>4 DEF Ensure, InsertMCPToken
  <2>2. /\ \A x : [request[r] EXCEPT !.pc = "inserting", !.name = x].pc = "inserting"
        /\ \A x : [request[r] EXCEPT !.pc = "noting", !.token = x].pc = "noting"
    BY DEF TypeOK, Request
  <2>3. "consuming" \in Steps /\ {"consuming", "inserting", "noting"} \cap Acting = {}
    BY DEF Steps, Acting
  <2>. QED
    BY <2>1, <2>2, <2>3, PromisesGoing
<1>. QED
  BY <1>1, <1>2, <1>3, <1>4

\* A session is created: it is new, so that nothing is promised of it.
LEMMA PromisesOfNew ==
  ASSUME TypeOK, Carried, PromisesInv, NEW r \in Requests, CreateSession(r)
  PROVE  PromisesInv'
<1>1. PICK s \in Sessions \ ended :
        sessions[s] = 0 /\ sessions' = [sessions EXCEPT ![s] = now + ttl]
  BY DEF CreateSession
<1>2. UNCHANGED <<promised, now, ended>>
  BY DEF CreateSession, clock
<1>3. /\ sessions'[s] = now + ttl /\ now + ttl # 0
      /\ \A x \in Sessions : x # s => sessions'[x] = sessions[x]
  BY <1>1, Numbers DEF TypeOK
<1>4. promised[s] = 0
  BY <1>1 DEF PromisesInv, PromisesFit
<1>5. PromisesFit'
  BY <1>2, <1>3, <1>4, Numbers DEF PromisesInv, PromisesFit
<1>6. \E q : Become(r, q) /\ q.pc \notin Acting
  <2>1. [request[r] EXCEPT !.pc = "clearing"].pc = "clearing" /\ Idle.pc = "idle"
    BY DEF TypeOK, Request, Idle
  <2>2. Become(r, [request[r] EXCEPT !.pc = "clearing"]) \/ Become(r, Idle)
    BY GoIsBecome DEF CreateSession, Return
  <2>. QED
    BY <2>1, <2>2 DEF Acting
<1>7. ASSUME NEW q, q.pc \notin Acting PROVE Recent(q)'
  BY <1>7 DEF Recent, Acting
<1>8. \A x \in Requests : Recent(request[x])'
  BY <1>2, <1>3, <1>6, <1>7, OthersRecent
<1>. QED
  BY <1>5, <1>8 DEF PromisesInv

\* Sessions are deleted.
LEMMA PromisesOfDeleted ==
  ASSUME TypeOK, Carried, PromisesInv, NEW r \in Requests,
         Drop(r) \/ Logout(r) \/ ReplaceKey(r)
  PROVE  PromisesInv'
<1>1. PICK ss \in SUBSET Sessions : DeleteSessions(ss)
  BY DEF Drop, Logout, ReplaceKey, Carried, CarriedBy, At
<1>2. UNCHANGED <<promised, now>> /\ Become(r, Idle)
  BY DEF Drop, Logout, ReplaceKey, clock, Return
<1>3. \A s \in Sessions : /\ sessions'[s] = IF s \in ss THEN 0 ELSE sessions[s]
                          /\ sessions[s] # 0 \/ s \in ended =>
                               sessions'[s] # 0 \/ s \in ended'
  BY <1>1 DEF DeleteSessions
<1>4. PromisesFit'
  BY <1>2, <1>3 DEF PromisesInv, PromisesFit
<1>5. Recent(Idle)'
  BY DEF Recent, Acting, Idle
<1>. QED
  BY <1>2, <1>3, <1>4, <1>5, OthersRecent DEF PromisesInv

\* A request comes with a session.
LEMMA PromisesOfEnter ==
  ASSUME TypeOK, Carried, PromisesInv, NEW r \in Requests, NEW s \in Sessions, Enter(r, s)
  PROVE  PromisesInv'
<1>1. PICK q : q = [Idle EXCEPT !.pc = "loading", !.session = s, !.at = now,
                                !.late = s \in ended]
  OBVIOUS
<1>2. q.pc = "loading" /\ q.session = s /\ q.at = now
  BY <1>1 DEF Idle
<1>3. /\ Become(r, q) /\ UNCHANGED <<sessions, promised, now, ended>>
      /\ sessions[s] # 0 \/ s \in ended
  BY <1>1 DEF Enter, keys, clock
<1>4. Recent(q)'
  BY <1>2, <1>3, Numbers DEF Recent
<1>. QED
  BY <1>3, <1>4, QuietPromises

\* An admission promises half a lifetime from the clock of the request.
LEMMA PromiseIs ==
  ASSUME TypeOK, NEW r \in Requests, request[r].session \in Sessions, Promise(r)
  PROVE  /\ promised'[request[r].session]
              \in {promised[request[r].session], request[r].at + Half}
         /\ \A s \in Sessions : s # request[r].session => promised'[s] = promised[s]
<1>. DEFINE s == request[r].session
            a == request[r].at + Half
<1>1. promised[s] \in Nat /\ a \in Nat
  BY Numbers
<1>2. promised' = [promised EXCEPT ![s] = Max({promised[s], a})]
  BY DEF Promise, TypeOK, Half
<1>3. Max({promised[s], a}) \in {promised[s], a}
  BY <1>1, MaxOfTwo
<1>. HIDE DEF a
<1>4. promised'[s] = Max({promised[s], a})
  BY <1>2 DEF TypeOK
<1>. QED
  BY <1>2, <1>3, <1>4 DEF TypeOK, a

\* The row is read; it is due for a refresh or lasts longer than is promised.
LEMMA PromisesOfLoad ==
  ASSUME TypeOK, Carried, PromisesInv, NEW r \in Requests, Load(r)
  PROVE  PromisesInv'
<1>. DEFINE q == request[r]
            s == q.session
<1>1. /\ q.pc = "loading" /\ s \in Sessions /\ Recent(q)
      /\ UNCHANGED <<sessions, now, ended>>
  BY DEF Load, Carried, CarriedBy, PromisesInv, keys, clock
<1>2. q \in Request
  BY DEF TypeOK
<1>3. ASSUME NEW p, p.pc \notin Acting PROVE Recent(p)'
  BY <1>3 DEF Recent, Acting
<1>4. CASE Return(r) /\ UNCHANGED promised
  BY <1>1, <1>4, PromisesGoing
<1>5. CASE Go(r, "dropping") /\ UNCHANGED promised
  <2>1. PICK p : p = [q EXCEPT !.pc = "dropping"]
    OBVIOUS
  <2>2. p.pc = "dropping" /\ p.at = q.at /\ p.session = s
    BY <1>2, <2>1 DEF Request
  <2>3. Recent(p)' /\ Become(r, p)
    BY <1>1, <1>5, <2>1, <2>2, GoIsBecome DEF Recent, Acting
  <2>. QED
    BY <1>1, <1>5, <2>3, QuietPromises
<1>6. CASE Become(r, [q EXCEPT !.pc = "refreshing", !.expires = q.at + ttl])
           /\ UNCHANGED promised
  <2>1. PICK p : p = [q EXCEPT !.pc = "refreshing", !.expires = q.at + ttl]
    OBVIOUS
  <2>2. /\ p.pc = "refreshing" /\ p.at = q.at /\ p.session = s
        /\ p.expires = q.at + ttl
    BY <1>2, <2>1 DEF Request
  <2>3. p.expires >= p.at + Min(Lifetimes)
    BY <2>2, Numbers
  <2>4. Recent(p)' /\ Become(r, p)
    BY <1>1, <1>6, <2>1, <2>2, <2>3 DEF Recent, Acting
  <2>. QED
    BY <1>1, <1>6, <2>4, QuietPromises
<1>7. CASE /\ sessions[s] > q.at /\ ~DueForRefresh(sessions[s], q.at)
           /\ Go(r, "admitted") /\ Promise(r)
  <2>1. PICK p : p = [q EXCEPT !.pc = "admitted"]
    OBVIOUS
  <2>2. p.pc = "admitted" /\ Become(r, p)
    BY <1>2, <1>7, <2>1, GoIsBecome DEF Request
  <2>3. \A x \in Requests : Recent(request[x])'
    BY <1>1, <1>3, <2>2, OthersRecent DEF Acting
  <2>4. q.at + Half <= sessions[s] /\ q.at + Half <= now + Half
    <3>1. sessions[s] - q.at >= ttl \div 2
      BY <1>1, <1>7, Numbers DEF DueForRefresh
    <3>2. q.at <= now
      BY <1>1 DEF Recent, Acting
    <3>. QED
      BY <1>1, <3>1, <3>2, Numbers
  <2>5. /\ promised'[s] \in {promised[s], q.at + Half}
        /\ \A x \in Sessions : x # s => promised'[x] = promised[x]
    BY <1>1, <1>7, PromiseIs
  <2>6. sessions[s] # 0
    BY <1>1, <1>7, Numbers
  <2>7. PromisesFit'
    BY <1>1, <2>4, <2>5, <2>6 DEF PromisesInv, PromisesFit
  <2>. QED
    BY <2>3, <2>7 DEF PromisesInv
<1>. QED
  BY <1>4, <1>5, <1>6, <1>7 DEF Load

\* The row is extended, by a request that may be late: it still lasts longer
\* than any admission so far has promised.
LEMMA PromisesOfRefresh ==
  ASSUME TypeOK, Carried, PromisesInv, Prompt, NEW r \in Requests, Refresh(r)
  PROVE  PromisesInv'
<1>. DEFINE q == request[r]
            s == q.session
<1>1. /\ q.pc = "refreshing" /\ s \in Sessions /\ Recent(q)
      /\ UNCHANGED <<now, ended>> /\ Promise(r)
  BY DEF Refresh, At, Carried, CarriedBy, PromisesInv, clock
<1>2. /\ sessions'[s] = IF sessions[s] = 0 THEN 0 ELSE q.expires
      /\ \A x \in Sessions : x # s => sessions'[x] = sessions[x]
  BY <1>1 DEF Refresh, TypeOK
<1>3. /\ promised'[s] \in {promised[s], q.at + Half}
      /\ \A x \in Sessions : x # s => promised'[x] = promised[x]
  BY <1>1, PromiseIs
<1>4. /\ q.at <= now /\ now - q.at <= MaxStall /\ q.expires >= q.at + Min(Lifetimes)
      /\ sessions[s] # 0 \/ s \in ended
  BY <1>1 DEF Recent, Acting
<1>5. promised[s] <= now + Half
  BY <1>1 DEF PromisesInv, PromisesFit
<1>6. q.at \in Nat /\ q.expires \in Nat /\ promised[s] \in Nat
  BY <1>1, Numbers
<1>7. promised'[s] <= now + Half /\ now + Half <= q.expires /\ q.expires # 0
  BY <1>3, <1>4, <1>5, <1>6, Numbers DEF Prompt
<1>8. PromisesFit'
  <2>1. ASSUME NEW x \in Sessions, x # s
        PROVE  /\ promised'[x] <= now' + Half
               /\ promised'[x] # 0 => sessions'[x] # 0 \/ x \in ended'
               /\ sessions'[x] # 0 => promised'[x] <= sessions'[x]
    BY <1>1, <1>2, <1>3, <2>1 DEF PromisesInv, PromisesFit
  <2>2. /\ promised'[s] <= now' + Half
        /\ sessions'[s] # 0 \/ s \in ended'
        /\ sessions'[s] # 0 => promised'[s] <= sessions'[s]
    <3>1. sessions'[s] # 0 => sessions'[s] = q.expires
      BY <1>2
    <3>2. promised'[s] \in Nat
      BY <1>3, <1>6, Numbers
    <3>3. sessions'[s] # 0 => promised'[s] <= sessions'[s]
      BY <1>6, <1>7, <3>1, <3>2, Numbers
    <3>4. sessions'[s] # 0 \/ s \in ended'
      BY <1>1, <1>2, <1>4, <1>7
    <3>. QED
      BY <1>1, <1>7, <3>3, <3>4
  <2>. HIDE DEF s, q
  <2>3. \A x \in Sessions : x # s \/ x = s
    OBVIOUS
  <2>. QED
    BY <2>1, <2>2, Zenon DEF PromisesFit
<1>9. \A x \in Requests : Recent(request[x])'
  <2>1. PICK p : p = [q EXCEPT !.pc = "admitted"]
    OBVIOUS
  <2>2. p.pc = "admitted" /\ Become(r, p)
    BY <2>1, GoIsBecome DEF Refresh, TypeOK, Request
  <2>3. Recent(p)'
    BY <2>2 DEF Recent, Acting
  <2>4. \A x \in Sessions : sessions[x] # 0 \/ x \in ended => sessions'[x] # 0 \/ x \in ended'
    BY <1>1, <1>2, <1>7
  <2>. QED
    BY <1>1, <2>2, <2>3, <2>4, OthersRecent
<1>. QED
  BY <1>8, <1>9 DEF PromisesInv

\* Time passes, a lifetime is set.
LEMMA PromisesOfTime ==
  ASSUME TypeOK, PromisesInv, Tick \/ SetSessionTTL \/ UNCHANGED vars
  PROVE  PromisesInv'
<1>1. CASE Tick
  <2>1. /\ now' = now + 1 /\ UNCHANGED <<sessions, promised, ended, request>>
        /\ \A r \in Requests : request[r].pc \in Acting => now - request[r].at < MaxStall
    BY <1>1 DEF Tick, keys, Acting
  <2>2. PromisesFit'
    BY <2>1, Numbers DEF PromisesInv, PromisesFit
  <2>3. ASSUME NEW r \in Requests PROVE Recent(request[r])'
    <3>1. Recent(request[r])
      BY DEF PromisesInv
    <3>2. ASSUME request[r].pc \in Acting
          PROVE  request[r].at <= now' /\ now' - request[r].at <= MaxStall
      BY <2>1, <3>1, <3>2, Numbers DEF Recent
    <3>. QED
      BY <2>1, <3>1, <3>2 DEF Recent
  <2>. QED
    BY <2>2, <2>3 DEF PromisesInv
<1>2. CASE SetSessionTTL \/ UNCHANGED vars
  <2>1. UNCHANGED <<now, sessions, promised, ended, request>>
    BY <1>2 DEF SetSessionTTL, vars, keys
  <2>. QED
    BY <2>1 DEF PromisesInv, PromisesFit, Recent
<1>. QED
  BY <1>1, <1>2

\* ActiveIsKept: a session that is stored lasts as long as its last admission
\* promised, half of the shortest lifetime (the sliding renewal of
\* Service.Authenticate), for any number of requests and any lifetimes of which
\* a request takes less than half between its clock and its statement.
THEOREM SessionsKeepPromises ==
  ASSUME Prompt
  PROVE  Spec => []ActiveIsKept
<1>1. Init => PromisesInv
  <2>1. ASSUME Init PROVE PromisesInv
    <3>1. TypeOK
      BY <2>1, InitHolds DEF AuthIInv
    <3>2. PromisesFit
      BY <2>1, <3>1, Numbers DEF Init, PromisesFit
    <3>. QED
      BY <2>1, <3>2 DEF Init, PromisesInv, Recent, Acting, Idle
  <2>. QED
    BY <2>1
<1>2. AuthIInv /\ PromisesInv /\ [Next]_vars => PromisesInv'
  BY PromisesOfOthers, PromisesOfNew, PromisesOfDeleted, PromisesOfEnter,
     PromisesOfLoad, PromisesOfRefresh, PromisesOfTime DEF AuthIInv, Next
<1>3. PromisesInv => ActiveIsKept
  BY DEF PromisesInv, PromisesFit, ActiveIsKept
<1>. QED
  BY <1>1, <1>2, <1>3, AuthInvariance, PTL DEF Spec
=============================================================================
