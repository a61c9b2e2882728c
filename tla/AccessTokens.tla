---------------------------- MODULE AccessTokens ----------------------------
(***************************************************************************)
(* Access tokens: what login and refresh mint, and how an endpoint that    *)
(* needs a user (and perhaps a role) admits a request.                     *)
(*                                                                         *)
(*   Issue     _issue_token_pair, on some instance                         *)
(*   Begin     get_current_user up to decode_token                         *)
(*   ReadUser  get_user_by_id, and the role check of require_roles         *)
(*                                                                         *)
(* Time is counted in ticks, several to a second; a JWT counts in whole    *)
(* seconds.  Each instance has a clock of its own, ahead of true time by   *)
(* its skew.  A request takes time: the account may be edited, and the     *)
(* token expire, between its two steps.  Sessions are AuthSessions' part.  *)
(***************************************************************************)
EXTENDS Integers, FiniteSets

CONSTANTS
    Users,             \* registered accounts
    Instances,         \* API processes
    Requests,          \* threads that run an endpoint
    Second,            \* ticks to a second
    AccessLifetime,    \* access_token_expire_minutes, in ticks
    RefreshLifetime,   \* refresh_token_expire_days, in ticks
    Skew, MaxSkew,     \* Instances -> how far the clock is ahead; its limit
    MaxTime,           \* bound on true time
    MaxTokens,         \* bound on the tokens minted
    NoToken

ASSUME TimeAssumption ==
    /\ Second \in Nat \ {0}
    /\ AccessLifetime \in Nat /\ RefreshLifetime \in Nat
    /\ MaxTime \in Nat /\ MaxTokens \in Nat
    /\ MaxSkew \in Nat /\ Skew \in [Instances -> 0 .. MaxSkew]

VARIABLES
    account,   \* Users -> role and is_active of the stored account
    tokens,    \* the tokens minted
    now,       \* true time
    step,      \* Requests -> "idle", "read" or how it was answered
    token,     \* Requests -> the bearer token presented, or NoToken
    allowed,   \* Requests -> the roles that the endpoint admits
    began,     \* history: when the request was decoded
    seen       \* history: what the account was while the request ran

vars == <<account, tokens, now, step, token, allowed, began, seen>>

-----------------------------------------------------------------------------
UserRole == {"user", "admin"}
Account == [role : UserRole, is_active : BOOLEAN]
Answers == {"unauthorized", "forbidden", "admitted"}

\* `minted` is the true time, and `due` the expires_at that exp is made from;
\* for a refresh token `due` is also the expires_at of its session.
Token == [sub : Users, type : {"access", "refresh"}, role : UserRole,
          iat : Nat, exp : Nat, minted : Nat, due : Nat]

ASSUME NullAssumption == NoToken \notin Token

Clock(i) == now + Skew[i]

\* PyJWT writes a datetime as a whole number of seconds.
Truncated(time) == time - (time % Second)

-----------------------------------------------------------------------------
Init ==
    /\ account = [u \in Users |-> [role |-> "user", is_active |-> TRUE]]
    /\ tokens = {}
    /\ now = 0
    /\ step = [r \in Requests |-> "idle"]
    /\ token = [r \in Requests |-> NoToken]
    /\ allowed = [r \in Requests |-> {}]
    /\ began = [r \in Requests |-> 0]
    /\ seen = [r \in Requests |-> {}]

\* Faulty variant: iat is written rounded up.
EncodedRoundedUp(u, type, time, lifetime) ==
    [sub |-> u, type |-> type, role |-> account[u].role,
     iat |-> Truncated(time + Second - 1), exp |-> Truncated(time + lifetime),
     minted |-> now, due |-> time + lifetime]

\* _encode_token
Encoded(u, type, time, lifetime) ==
    [sub |-> u, type |-> type, role |-> account[u].role,
     iat |-> Truncated(time), exp |-> Truncated(time + lifetime),
     minted |-> now, due |-> time + lifetime]

\* login or refresh for an account that is active.
Issue(i, u) ==
    /\ Cardinality(tokens) < MaxTokens
    /\ account[u].is_active
    /\ tokens' = tokens \union {Encoded(u, "access", Clock(i), AccessLifetime),
                                Encoded(u, "refresh", Clock(i), RefreshLifetime)}
    /\ UNCHANGED <<account, now, step, token, allowed, began, seen>>

AcceptsAnyType(tok, type, time) == tok.iat <= time /\ time < tok.exp   \* faulty variant

\* decode_token: PyJWT refuses a token issued in the future or expired.
Accepts(tok, type, time) ==
    /\ tok.iat <= time
    /\ time < tok.exp
    /\ tok.type = type

\* A request with a bearer token reaches instance i.
Begin(r, i, tok, roles) ==
    /\ step[r] = "idle"
    /\ token' = [token EXCEPT ![r] = tok]
    /\ allowed' = [allowed EXCEPT ![r] = roles]
    /\ began' = [began EXCEPT ![r] = now]
    /\ seen' = [seen EXCEPT ![r] = {account[tok.sub]}]
    /\ step' = [step EXCEPT ![r] = IF Accepts(tok, "access", Clock(i)) THEN "read"
                                   ELSE "unauthorized"]
    /\ UNCHANGED <<account, tokens, now>>

\* Faulty variant: the role is taken from the token's claim.
VerdictByClaim(r) ==
    IF ~ account[token[r].sub].is_active THEN "unauthorized"
    ELSE IF token[r].role \in allowed[r] THEN "admitted" ELSE "forbidden"

\* What authenticate_access_token and require_roles make of the stored account.
Verdict(r) ==
    IF ~ account[token[r].sub].is_active THEN "unauthorized"
    ELSE IF account[token[r].sub].role \in allowed[r] THEN "admitted" ELSE "forbidden"

ReadUser(r) ==
    /\ step[r] = "read"
    /\ step' = [step EXCEPT ![r] = Verdict(r)]
    /\ UNCHANGED <<account, tokens, now, token, allowed, began, seen>>

Finish(r) ==
    /\ step[r] \in Answers
    /\ step' = [step EXCEPT ![r] = "idle"]
    /\ token' = [token EXCEPT ![r] = NoToken]
    /\ allowed' = [allowed EXCEPT ![r] = {}]
    /\ began' = [began EXCEPT ![r] = 0]
    /\ seen' = [seen EXCEPT ![r] = {}]
    /\ UNCHANGED <<account, tokens, now>>

-----------------------------------------------------------------------------
(* Outside the repository: an operator edits an account's document, and    *)
(* time passes.                                                            *)

Edit(u, a) ==
    /\ account' = [account EXCEPT ![u] = a]
    /\ seen' = [r \in Requests |-> IF step[r] = "read" /\ token[r].sub = u
                                   THEN seen[r] \union {a} ELSE seen[r]]
    /\ UNCHANGED <<tokens, now, step, token, allowed, began>>

Tick ==
    /\ now < MaxTime
    /\ now' = now + 1
    /\ UNCHANGED <<account, tokens, step, token, allowed, began, seen>>

Next ==
    \/ \E i \in Instances, u \in Users : Issue(i, u)
    \/ \E r \in Requests, i \in Instances, tok \in tokens, roles \in SUBSET UserRole :
          Begin(r, i, tok, roles)
    \/ \E r \in Requests : ReadUser(r) \/ Finish(r)
    \/ \E u \in Users, a \in Account : Edit(u, a)
    \/ Tick

Spec == Init /\ [][Next]_vars

-----------------------------------------------------------------------------
(* The inductive invariant.                                                *)

TypeOK ==
    /\ account \in [Users -> Account]
    /\ tokens \subseteq Token
    /\ now \in Nat
    /\ step \in [Requests -> {"idle", "read"} \union Answers]
    /\ token \in [Requests -> Token \union {NoToken}]
    /\ allowed \in [Requests -> SUBSET UserRole]
    /\ began \in [Requests -> Nat]
    /\ seen \in [Requests -> SUBSET Account]

Lifetime(tok) == IF tok.type = "access" THEN AccessLifetime ELSE RefreshLifetime

\* How the times in a token relate.
Sound(tok) ==
    /\ tok.minted + Lifetime(tok) <= tok.due
    /\ tok.due <= tok.minted + MaxSkew + Lifetime(tok)
    /\ tok.iat <= tok.minted + MaxSkew
    /\ tok.exp <= tok.due
    /\ tok.due < tok.exp + Second

\* The token was good for an access when the request began.
Current(tok, time) == tok.type = "access" /\ time < tok.due

\* A request that a client makes with an access token not too new and not too
\* old for clocks that differ by MaxSkew and a claim that is a second short.
Fresh(tok, time) ==
    /\ tok.type = "access"
    /\ tok.minted + MaxSkew <= time
    /\ time + MaxSkew + Second <= tok.minted + AccessLifetime

\* What a request's position says of it.
RequestInv(r) ==
    step[r] # "idle" =>
        /\ token[r] \in tokens
        /\ step[r] = "read" => account[token[r].sub] \in seen[r]
        /\ step[r] \in {"read", "admitted", "forbidden"} => Current(token[r], began[r])
        /\ step[r] = "admitted" =>
              \E a \in seen[r] : a.is_active /\ a.role \in allowed[r]
        /\ step[r] = "unauthorized" /\ Fresh(token[r], began[r]) =>
              \E a \in seen[r] : ~ a.is_active

IInv ==
    /\ TypeOK
    /\ \A tok \in tokens : Sound(tok)
    /\ \A r \in Requests : RequestInv(r)

-----------------------------------------------------------------------------
(* Properties *)

\* The stored account decides, not what the token says of it: a request is
\* admitted only if, while it ran, the account was active with an allowed role.
\* A demotion or deactivation is in force for every request that comes after it
\* (auth/service.py:115-118, auth/dependencies.py:43-49).
AccountDecides ==
    \A r \in Requests :
        step[r] = "admitted" =>
            \E a \in seen[r] : a.is_active /\ a.role \in allowed[r]

\* Nothing outlives its term, though exp is a whole second and clocks differ:
\* no request is let past decode_token later than the access lifetime, by the
\* instances' clocks, after its token was minted; and a refresh token that
\* decode_token accepts has a session that has not expired
\* (auth/service.py:122-132, 142-152).
TermsEnd ==
    /\ \A r \in Requests :
          step[r] \in {"read", "admitted", "forbidden"} =>
              began[r] < token[r].minted + AccessLifetime + MaxSkew
    /\ \A tok \in tokens, i \in Instances :
          Accepts(tok, "refresh", Clock(i)) => Clock(i) < tok.due

\* A client is not sent back to log in for nothing: an access token used within
\* its term, a second before the end at the latest, is refused only if its
\* account was inactive while the request ran.
FreshTokenServed ==
    \A r \in Requests :
        step[r] = "unauthorized" /\ Fresh(token[r], began[r]) =>
            \E a \in seen[r] : ~ a.is_active

=============================================================================
