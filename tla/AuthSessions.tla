---------------------------- MODULE AuthSessions ----------------------------
(***************************************************************************)
(* Login, refresh and logout of AuthService.  Refresh sessions live in the *)
(* memory of one API process (InMemoryRefreshSessionRepository, whatever   *)
(* the configured backend), while a refresh token is a signed JWT that any *)
(* process accepts until it expires; accounts are shared.                  *)
(*                                                                         *)
(* A request runs on a thread of one instance.  Each repository call is    *)
(* one step; what the thread read stays in its local variables while other *)
(* threads run, accounts are deactivated, time passes or the instance      *)
(* restarts.                                                               *)
(***************************************************************************)
EXTENDS Integers

CONSTANTS
    Users,          \* registered accounts
    Instances,      \* API processes
    Threads,        \* request threads of all instances
    InstanceOf,     \* Threads -> Instances
    SessionIds,     \* ids that uuid4 can return, each at most once (a bound)
    Lifetime,       \* refresh_token_expire_days
    MaxTime,        \* bound on the clock
    NoSession, NoToken, NoUser

ASSUME InstanceAssumption == InstanceOf \in [Threads -> Instances]
ASSUME TimeAssumption == Lifetime \in Nat \ {0} /\ MaxTime \in Nat

VARIABLES
    active,     \* is_active of each account
    store,      \* Instances -> the refresh sessions in that process
    lineage,    \* history: where each session came from, or NoSession
    tokens,     \* refresh tokens that reached a client
    now,        \* the clock
    step,       \* where each thread stands in its request
    user,       \* local variable `user`
    token       \* the token presented; from the new session on, the token issued

threadVars == <<step, user, token>>
vars == <<active, store, lineage, tokens, now, threadVars>>

-----------------------------------------------------------------------------
Steps == {"idle", "get", "check_user", "revoke", "issue", "reply",
          "logout_get", "logout_revoke"}

RefreshSession == [user_id : Users, expires_at : Nat, revoked : BOOLEAN]
Token == [sub : Users, jti : SessionIds, exp : Nat]
Lineage == [login : SessionIds, parent : SessionIds \union {NoSession}]

ASSUME NullAssumption == /\ NoSession \notin RefreshSession \union Lineage \union SessionIds
                         /\ NoToken \notin Token
                         /\ NoUser \notin Users

-----------------------------------------------------------------------------
(* The repository and the threads.                                         *)

\* The session a thread's token names, in the memory of the thread's process.
Found(t) == store[InstanceOf[t]][token[t].jti]

Usable(session) == session # NoSession /\ ~ session.revoked

At(t, s) == step[t] = s
Goto(t, s) == step' = [step EXCEPT ![t] = s]

\* The request is over.
Finish(t) ==
    /\ Goto(t, "idle")
    /\ user' = [user EXCEPT ![t] = NoUser]
    /\ token' = [token EXCEPT ![t] = NoToken]

\* The session's record is replaced by a revoked one.
RevokeFound(t) ==
    store' = [store EXCEPT ![InstanceOf[t]][token[t].jti].revoked = TRUE]

-----------------------------------------------------------------------------
Init ==
    /\ active = [u \in Users |-> TRUE]
    /\ store = [i \in Instances |-> [s \in SessionIds |-> NoSession]]
    /\ lineage = [s \in SessionIds |-> NoSession]
    /\ tokens = {}
    /\ now = 0
    /\ step = [t \in Threads |-> "idle"]
    /\ user = [t \in Threads |-> NoUser]
    /\ token = [t \in Threads |-> NoToken]

-----------------------------------------------------------------------------
(* POST /auth/login *)

\* The credentials and the account are checked; failures change nothing.
Login(t, u) ==
    /\ At(t, "idle")
    /\ active[u]
    /\ user' = [user EXCEPT ![t] = u]
    /\ Goto(t, "issue")
    /\ UNCHANGED <<active, store, lineage, tokens, now, token>>

-----------------------------------------------------------------------------
(* POST /auth/refresh *)

\* decode_token: the signature is good and the token has not expired.
BeginRefresh(t, tok) ==
    /\ At(t, "idle")
    /\ tok.exp > now
    /\ token' = [token EXCEPT ![t] = tok]
    /\ Goto(t, "get")
    /\ UNCHANGED <<active, store, lineage, tokens, now, user>>

\* Fault: the expiry of the session is not compared with the time.
SessionNotRevoked(t) == Usable(Found(t)) /\ Found(t).user_id = token[t].sub

\* What the code requires of the session it got.
SessionValid(t) ==
    /\ Usable(Found(t))
    /\ Found(t).user_id = token[t].sub
    /\ Found(t).expires_at > now

GetSession(t) ==
    /\ At(t, "get")
    /\ \/ SessionValid(t) /\ Goto(t, "check_user") /\ UNCHANGED <<user, token>>
       \/ ~ SessionValid(t) /\ Finish(t)
    /\ UNCHANGED <<active, store, lineage, tokens, now>>

\* Fault: an account only has to exist.
CheckUserExists(t) ==
    /\ At(t, "check_user")
    /\ user' = [user EXCEPT ![t] = token[t].sub]
    /\ Goto(t, "revoke")
    /\ UNCHANGED <<active, store, lineage, tokens, now, token>>

CheckUser(t) ==
    /\ At(t, "check_user")
    /\ \/ /\ active[token[t].sub]
          /\ user' = [user EXCEPT ![t] = token[t].sub]
          /\ Goto(t, "revoke")
          /\ UNCHANGED token
       \/ ~ active[token[t].sub] /\ Finish(t)
    /\ UNCHANGED <<active, store, lineage, tokens, now>>

\* Fault: the answer of revoke_refresh_session is ignored.
RevokeAndGoOn(t) ==
    /\ At(t, "revoke")
    /\ IF Usable(Found(t)) THEN RevokeFound(t) ELSE UNCHANGED store
    /\ Goto(t, "issue")
    /\ UNCHANGED <<active, lineage, tokens, now, user, token>>

\* Fault: the revoked record is not stored.
RevokeUnstored(t) ==
    /\ At(t, "revoke")
    /\ IF Usable(Found(t)) THEN Goto(t, "issue") /\ UNCHANGED <<user, token>> ELSE Finish(t)
    /\ UNCHANGED <<active, store, lineage, tokens, now>>

\* revoke_refresh_session under the repository's lock: False when another
\* request has revoked the session since it was read.
RevokeForRefresh(t) ==
    /\ At(t, "revoke")
    /\ \/ Usable(Found(t)) /\ RevokeFound(t) /\ Goto(t, "issue") /\ UNCHANGED <<user, token>>
       \/ ~ Usable(Found(t)) /\ Finish(t) /\ UNCHANGED store
    /\ UNCHANGED <<active, lineage, tokens, now>>

-----------------------------------------------------------------------------
(* _issue_token_pair, for a login (token[t] = NoToken) or a refresh *)

Ancestry(t, s) ==
    IF token[t] = NoToken
    THEN [login |-> s, parent |-> NoSession]
    ELSE [login |-> lineage[token[t].jti].login, parent |-> token[t].jti]

IssueTokenPair(t, s) ==
    /\ At(t, "issue")
    /\ lineage[s] = NoSession
    /\ store' = [store EXCEPT ![InstanceOf[t]][s] =
                    [user_id |-> user[t], expires_at |-> now + Lifetime, revoked |-> FALSE]]
    /\ lineage' = [lineage EXCEPT ![s] = Ancestry(t, s)]
    /\ token' = [token EXCEPT ![t] = [sub |-> user[t], jti |-> s, exp |-> now + Lifetime]]
    /\ Goto(t, "reply")
    /\ UNCHANGED <<active, tokens, now, user>>

\* The answer reaches the client.
Reply(t) ==
    /\ At(t, "reply")
    /\ tokens' = tokens \union {token[t]}
    /\ Finish(t)
    /\ UNCHANGED <<active, store, lineage, now>>

-----------------------------------------------------------------------------
(* POST /auth/logout *)

BeginLogout(t, tok) ==
    /\ At(t, "idle")
    /\ tok.exp > now
    /\ token' = [token EXCEPT ![t] = tok]
    /\ Goto(t, "logout_get")
    /\ UNCHANGED <<active, store, lineage, tokens, now, user>>

LogoutGet(t) ==
    LET known == Found(t) # NoSession /\ Found(t).user_id = token[t].sub
    IN  /\ At(t, "logout_get")
        /\ \/ known /\ Goto(t, "logout_revoke") /\ UNCHANGED <<user, token>>
           \/ ~ known /\ Finish(t)
        /\ UNCHANGED <<active, store, lineage, tokens, now>>

\* Whether this call or an earlier one revoked the session makes no difference.
LogoutRevoke(t) ==
    /\ At(t, "logout_revoke")
    /\ \/ Usable(Found(t)) /\ RevokeFound(t)
       \/ ~ Usable(Found(t)) /\ UNCHANGED store
    /\ Finish(t)
    /\ UNCHANGED <<active, lineage, tokens, now>>

-----------------------------------------------------------------------------
(* Failures, accounts and time *)

\* A call raises or the answer is lost; what the request has done stays done.
Fail(t) ==
    /\ ~ At(t, "idle")
    /\ Finish(t)
    /\ UNCHANGED <<active, store, lineage, tokens, now>>

\* A new process takes the place of instance i: its sessions and its requests
\* are gone, the clients' tokens are not.
Restart(i) ==
    /\ store' = [store EXCEPT ![i] = [s \in SessionIds |-> NoSession]]
    /\ step' = [t \in Threads |-> IF InstanceOf[t] = i THEN "idle" ELSE step[t]]
    /\ user' = [t \in Threads |-> IF InstanceOf[t] = i THEN NoUser ELSE user[t]]
    /\ token' = [t \in Threads |-> IF InstanceOf[t] = i THEN NoToken ELSE token[t]]
    /\ UNCHANGED <<active, lineage, tokens, now>>

\* An operator edits the account's document.
ToggleActive(u) ==
    /\ active' = [active EXCEPT ![u] = ~ active[u]]
    /\ UNCHANGED <<store, lineage, tokens, now, threadVars>>

Tick ==
    /\ now < MaxTime
    /\ now' = now + 1
    /\ UNCHANGED <<active, store, lineage, tokens, threadVars>>

-----------------------------------------------------------------------------
Refresh(t) ==
    \/ \E tok \in tokens : BeginRefresh(t, tok)
    \/ GetSession(t)
    \/ CheckUser(t)
    \/ RevokeForRefresh(t)

Logout(t) ==
    \/ \E tok \in tokens : BeginLogout(t, tok)
    \/ LogoutGet(t)
    \/ LogoutRevoke(t)

Issue(t) == (\E s \in SessionIds : IssueTokenPair(t, s)) \/ Reply(t)

Next ==
    \/ \E t \in Threads :
          (\E u \in Users : Login(t, u)) \/ Refresh(t) \/ Logout(t) \/ Issue(t) \/ Fail(t)
    \/ \E i \in Instances : Restart(i)
    \/ \E u \in Users : ToggleActive(u)
    \/ Tick

Spec == Init /\ [][Next]_vars

-----------------------------------------------------------------------------
(* Properties *)

\* Every variable holds a value of its type.
TypeOK ==
    /\ active \in [Users -> BOOLEAN]
    /\ store \in [Instances -> [SessionIds -> RefreshSession \union {NoSession}]]
    /\ lineage \in [SessionIds -> Lineage \union {NoSession}]
    /\ tokens \subseteq Token
    /\ now \in Nat
    /\ step \in [Threads -> Steps]
    /\ user \in [Threads -> Users \union {NoUser}]
    /\ token \in [Threads -> Token \union {NoToken}]

Born(s) == lineage[s] # NoSession
LoginOf(s) == lineage[s].login
Children(s) == {c \in SessionIds : Born(c) /\ lineage[c].parent = s}
Presents(t, s) == token[t] # NoToken /\ token[t].jti = s

\* "Refresh tokens are single use": of all the requests that present one
\* token, to whatever instances, one at most is given a successor.
RotatedOnce ==
    \A c, d \in SessionIds :
        Born(c) /\ Born(d) /\ lineage[c].parent = lineage[d].parent =>
            c = d \/ lineage[c].parent = NoSession

\* One session of a login is usable at any time, in one process only, however
\* refreshes, logouts and restarts interleave.
OneUsablePerLogin ==
    \A i, j \in Instances, s, r \in SessionIds :
        /\ Usable(store[i][s])
        /\ Usable(store[j][r])
        /\ LoginOf(s) = LoginOf(r)
        => i = j /\ s = r

-----------------------------------------------------------------------------
(* The inductive invariant.                                                *)

\* What a thread holds at each step of its request.
ThreadsInv ==
    \A t \in Threads :
        /\ step[t] = "idle" => user[t] = NoUser /\ token[t] = NoToken
        /\ step[t] \notin {"idle", "issue"} => token[t] # NoToken
        /\ step[t] \in {"revoke", "issue", "reply"} <=> user[t] # NoUser
        /\ user[t] # NoUser /\ token[t] # NoToken => token[t].sub = user[t]

\* Tokens, delivered or in a thread, are those of sessions that were created.
TokensInv ==
    /\ \A tok \in tokens : Born(tok.jti)
    /\ \A t \in Threads : token[t] # NoToken => Born(token[t].jti)

\* A stored session was created, and is in the memory of one process.
StoreInv ==
    \A i, j \in Instances, s \in SessionIds :
        store[i][s] # NoSession =>
            Born(s) /\ (store[j][s] # NoSession => i = j)

\* A chain starts at a login and stays in it.
LineageInv ==
    \A s \in SessionIds :
        Born(s) =>
            /\ Born(LoginOf(s)) /\ LoginOf(LoginOf(s)) = LoginOf(s)
            /\ IF lineage[s].parent = NoSession THEN LoginOf(s) = s
               ELSE /\ Born(lineage[s].parent)
                    /\ LoginOf(lineage[s].parent) = LoginOf(s)
                    /\ LoginOf(s) # s

\* A thread that replaces session s.
Replaces(t, s) == At(t, "issue") /\ Presents(t, s)

\* A chain has one end: its usable session, or the session being replaced by
\* one thread.  Neither has a successor.
ChainInv ==
    /\ \A i \in Instances, s \in SessionIds : Usable(store[i][s]) => Children(s) = {}
    /\ \A t \in Threads, s \in SessionIds :
          Replaces(t, s) =>
              /\ Children(s) = {}
              /\ \A i \in Instances, r \in SessionIds :
                    Usable(store[i][r]) => LoginOf(r) # LoginOf(s)
              /\ \A v \in Threads, r \in SessionIds :
                    Replaces(v, r) /\ LoginOf(r) = LoginOf(s) => v = t

\* All of it together, preserved by every step.
IInv ==
    /\ TypeOK
    /\ ThreadsInv
    /\ TokensInv
    /\ StoreInv
    /\ LineageInv
    /\ ChainInv
    /\ RotatedOnce
    /\ OneUsablePerLogin

-----------------------------------------------------------------------------
(* What a step may never do.                                               *)

\* A session that cannot be rotated any more: revoked or forgotten, and no
\* rotation of it between revocation and issue; or expired, and no refresh past
\* the check of its expiry.
Spent(s) ==
    /\ Born(s)
    /\ \/ /\ \A i \in Instances : ~ Usable(store[i][s])
          /\ \A t \in Threads : At(t, "issue") => ~ Presents(t, s)
       \/ /\ \A i \in Instances : store[i][s] # NoSession => store[i][s].expires_at <= now
          /\ \A t \in Threads :
                step[t] \in {"check_user", "revoke", "issue"} => ~ Presents(t, s)

\* A spent session stays spent and is given no successor: not after a logout
\* or a rotation that failed half-way, not by a refresh that read the session
\* while it was good, not in another process and not after a restart.
SpentStays ==
    [][\A s \in SessionIds :
          Spent(s) => Spent(s)' /\ Children(s)' = Children(s)]_vars

\* An inactive account with no request past the check of its activity.
Barred(u) == ~ active[u] /\ \A t \in Threads : user[t] # u

\* While it stays inactive, no request gives it a session or a token.
DeactivationHolds ==
    [][\A u \in Users :
          Barred(u) /\ ~ active'[u] =>
              /\ Barred(u)'
              /\ {tok \in tokens' : tok.sub = u} = {tok \in tokens : tok.sub = u}
              /\ \A i \in Instances, s \in SessionIds :
                    store[i][s] = NoSession /\ store'[i][s] # NoSession =>
                        store'[i][s].user_id # u]_vars

\* The service implements the promise of token rotation.
Promise == INSTANCE RotationPromise WITH
    Sessions <- SessionIds,
    opened <- {s \in SessionIds : Born(s) /\ LoginOf(s) = s},
    usable <- [l \in SessionIds |->
                  {s \in SessionIds : /\ Born(s) /\ LoginOf(s) = l
                                      /\ \E i \in Instances : Usable(store[i][s])}],
    rotating <- {l \in SessionIds : \E t \in Threads, s \in SessionIds :
                    Replaces(t, s) /\ LoginOf(s) = l}

RefinesPromise == Promise!Spec

=============================================================================
