------------------------- MODULE AuthSessionsProofs -------------------------
(***************************************************************************)
(* The safety of AuthSessions for any number of accounts, processes,       *)
(* threads and sessions, any token lifetime and any time.                  *)
(***************************************************************************)
EXTENDS AuthSessions, TLAPS

-----------------------------------------------------------------------------
LEMMA InitIInv == Init => IInv
<1> SUFFICES ASSUME Init PROVE IInv
  OBVIOUS
<1> USE DEF Init
<1>1. TypeOK
  BY DEF TypeOK, Steps
<1>2. ThreadsInv /\ TokensInv
  BY DEF ThreadsInv, TokensInv
<1>3. StoreInv /\ LineageInv
  BY DEF StoreInv, LineageInv, Born
<1>4. ChainInv /\ RotatedOnce /\ OneUsablePerLogin
  BY DEF ChainInv, RotatedOnce, OneUsablePerLogin, Born, Usable, Replaces, At
<1> QED
  BY <1>1, <1>2, <1>3, <1>4 DEF IInv

\* The parts about sessions hold after any step that creates none, makes none
\* usable and starts no replacement.
LEMMA FrameStep ==
    ASSUME IInv,
           UNCHANGED lineage,
           \A i \in Instances, s \in SessionIds :
              store'[i][s] # NoSession => store[i][s] # NoSession,
           \A i \in Instances, s \in SessionIds :
              Usable(store'[i][s]) => Usable(store[i][s]),
           \A t \in Threads, s \in SessionIds : Replaces(t, s)' => Replaces(t, s)
    PROVE  StoreInv' /\ LineageInv' /\ ChainInv' /\ RotatedOnce' /\ OneUsablePerLogin'
<1>1. StoreInv /\ LineageInv /\ ChainInv /\ RotatedOnce /\ OneUsablePerLogin
  BY DEF IInv
<1>2. /\ \A s : Born(s)' <=> Born(s)
      /\ \A s : LoginOf(s)' = LoginOf(s)
      /\ \A s : Children(s)' = Children(s)
  BY DEF Born, LoginOf, Children
<1>3. StoreInv'
  BY <1>1, <1>2 DEF StoreInv
<1>4. LineageInv'
  BY <1>1, <1>2 DEF LineageInv
<1>5. ChainInv'
  BY <1>1, <1>2 DEF ChainInv, Usable
<1>6. RotatedOnce'
  BY <1>1, <1>2 DEF RotatedOnce
<1>7. OneUsablePerLogin'
  BY <1>1, <1>2 DEF OneUsablePerLogin, Usable
<1> QED
  BY <1>3, <1>4, <1>5, <1>6, <1>7

\* Revoking the session a thread has found.
LEMMA RevokeFoundStore ==
    ASSUME IInv, NEW t \in Threads, token[t] # NoToken, Usable(Found(t)), RevokeFound(t)
    PROVE  /\ store' \in [Instances -> [SessionIds -> RefreshSession \union {NoSession}]]
           /\ InstanceOf[t] \in Instances /\ token[t].jti \in SessionIds
           /\ \A i \in Instances, s \in SessionIds :
                 /\ store'[i][s] # NoSession <=> store[i][s] # NoSession
                 /\ store[i][s] # NoSession => store'[i][s].expires_at = store[i][s].expires_at
                 /\ Usable(store'[i][s]) =>
                       Usable(store[i][s]) /\ ~ (i = InstanceOf[t] /\ s = token[t].jti)
<1> DEFINE i0 == InstanceOf[t]
           s0 == token[t].jti
           old == store[i0][s0]
           new == [old EXCEPT !.revoked = TRUE]
<1>1. TypeOK
  BY DEF IInv
<1>2. i0 \in Instances /\ s0 \in SessionIds
  BY <1>1, InstanceAssumption DEF TypeOK, Token
<1>3. old \in RefreshSession /\ old # NoSession
  BY <1>1, <1>2 DEF TypeOK, Usable, Found
<1>4. /\ new \in RefreshSession /\ new # NoSession
      /\ new.revoked /\ new.expires_at = old.expires_at
  BY <1>3, NullAssumption DEF RefreshSession
<1>5. store' = [store EXCEPT ![i0] = [store[i0] EXCEPT ![s0] = new]]
  BY <1>1, <1>2 DEF RevokeFound, TypeOK
<1> HIDE DEF i0, s0, old, new
<1>6. \A i \in Instances, s \in SessionIds :
         store'[i][s] = IF i = i0 /\ s = s0 THEN new ELSE store[i][s]
  BY <1>1, <1>2, <1>5 DEF TypeOK
<1>7. store' \in [Instances -> [SessionIds -> RefreshSession \union {NoSession}]]
  BY <1>1, <1>2, <1>4, <1>5 DEF TypeOK
<1>8. ASSUME NEW i \in Instances, NEW s \in SessionIds
      PROVE  /\ store'[i][s] # NoSession <=> store[i][s] # NoSession
             /\ store[i][s] # NoSession => store'[i][s].expires_at = store[i][s].expires_at
             /\ Usable(store'[i][s]) => Usable(store[i][s]) /\ ~ (i = i0 /\ s = s0)
  BY <1>3, <1>4, <1>6 DEF Usable, old
<1> QED
  BY <1>2, <1>7, <1>8 DEF i0, s0

-----------------------------------------------------------------------------
(* One lemma per action.                                                   *)

LEMMA LoginStep ==
    ASSUME IInv, NEW t \in Threads, NEW u \in Users, Login(t, u)
    PROVE  IInv'
<1>1. TypeOK /\ ThreadsInv /\ TokensInv
  BY DEF IInv
<1>2. /\ step[t] = "idle" /\ token[t] = NoToken
      /\ step'[t] = "issue" /\ user'[t] = u /\ u # NoUser
      /\ \A v \in Threads \ {t} : step'[v] = step[v] /\ user'[v] = user[v]
      /\ UNCHANGED <<active, store, lineage, tokens, now, token>>
  BY <1>1, NullAssumption DEF Login, At, Goto, TypeOK, ThreadsInv
<1>3. TypeOK'
  BY <1>1 DEF Login, Goto, TypeOK, Steps
<1>4. ThreadsInv' /\ TokensInv'
  BY <1>1, <1>2 DEF ThreadsInv, TokensInv, Born
<1>5. \A v \in Threads, s \in SessionIds : Replaces(v, s)' => Replaces(v, s)
  BY <1>2 DEF Replaces, At, Presents
<1>6. StoreInv' /\ LineageInv' /\ ChainInv' /\ RotatedOnce' /\ OneUsablePerLogin'
  BY <1>2, <1>5, FrameStep
<1> QED
  BY <1>3, <1>4, <1>6 DEF IInv

\* Taking up a token at the first step of a refresh or a logout.
LEMMA BeginStep ==
    ASSUME IInv, NEW t \in Threads, NEW tok \in tokens,
           BeginRefresh(t, tok) \/ BeginLogout(t, tok)
    PROVE  IInv'
<1>1. TypeOK /\ ThreadsInv /\ TokensInv
  BY DEF IInv
<1>2. tok \in Token /\ tok # NoToken /\ Born(tok.jti)
  BY <1>1, NullAssumption DEF TypeOK, TokensInv
<1>3. /\ step[t] = "idle" /\ user[t] = NoUser
      /\ step'[t] \in {"get", "logout_get"} /\ token'[t] = tok
      /\ \A v \in Threads \ {t} : step'[v] = step[v] /\ token'[v] = token[v]
      /\ UNCHANGED <<active, store, lineage, tokens, now, user>>
  BY <1>1 DEF BeginRefresh, BeginLogout, At, Goto, TypeOK, ThreadsInv
<1>4. TypeOK'
  BY <1>1, <1>2 DEF BeginRefresh, BeginLogout, Goto, TypeOK, Steps
<1>5. ThreadsInv' /\ TokensInv'
  BY <1>1, <1>2, <1>3 DEF ThreadsInv, TokensInv, Born
<1>6. \A v \in Threads, s \in SessionIds : Replaces(v, s)' => Replaces(v, s)
  BY <1>3 DEF Replaces, At, Presents
<1>7. StoreInv' /\ LineageInv' /\ ChainInv' /\ RotatedOnce' /\ OneUsablePerLogin'
  BY <1>3, <1>6, FrameStep
<1> QED
  BY <1>4, <1>5, <1>7 DEF IInv

\* The end of a request that leaves the store alone or revokes in it, with or
\* without an answer that carries a token.
LEMMA FinishStep ==
    ASSUME IInv, NEW t \in Threads, Finish(t),
           UNCHANGED <<active, lineage, now>>,
           tokens' = tokens \/ (At(t, "reply") /\ tokens' = tokens \union {token[t]}),
           store' \in [Instances -> [SessionIds -> RefreshSession \union {NoSession}]],
           \A i \in Instances, s \in SessionIds :
              store'[i][s] # NoSession => store[i][s] # NoSession,
           \A i \in Instances, s \in SessionIds :
              Usable(store'[i][s]) => Usable(store[i][s])
    PROVE  IInv'
<1>1. TypeOK /\ ThreadsInv /\ TokensInv
  BY DEF IInv
<1>2. /\ step'[t] = "idle" /\ user'[t] = NoUser /\ token'[t] = NoToken
      /\ \A v \in Threads \ {t} :
            step'[v] = step[v] /\ token'[v] = token[v] /\ user'[v] = user[v]
  BY <1>1 DEF Finish, Goto, TypeOK
<1>3. tokens' \subseteq Token /\ \A tok \in tokens' : Born(tok.jti)
  <2>1. At(t, "reply") => token[t] # NoToken /\ token[t] \in Token /\ Born(token[t].jti)
    BY <1>1 DEF At, ThreadsInv, TokensInv, TypeOK
  <2> QED
    BY <1>1, <2>1 DEF TypeOK, TokensInv
<1>4. TypeOK'
  BY <1>1, <1>3 DEF Finish, Goto, TypeOK, Steps
<1>5. ThreadsInv'
  BY <1>1, <1>2 DEF ThreadsInv
<1>6. TokensInv'
  BY <1>1, <1>2, <1>3 DEF TokensInv, Born
<1>7. \A v \in Threads, s \in SessionIds : Replaces(v, s)' => Replaces(v, s)
  BY <1>2 DEF Replaces, At, Presents
<1>8. StoreInv' /\ LineageInv' /\ ChainInv' /\ RotatedOnce' /\ OneUsablePerLogin'
  BY <1>7, FrameStep
<1> QED
  BY <1>4, <1>5, <1>6, <1>8 DEF IInv

\* The end of a request that changes no session.
LEMMA QuitStep ==
    ASSUME IInv, NEW t \in Threads, Finish(t),
           UNCHANGED <<active, store, lineage, now>>,
           tokens' = tokens \/ (At(t, "reply") /\ tokens' = tokens \union {token[t]})
    PROVE  IInv'
<1>1. store \in [Instances -> [SessionIds -> RefreshSession \union {NoSession}]]
  BY DEF IInv, TypeOK
<1> QED
  BY <1>1, FinishStep

LEMMA GetSessionStep ==
    ASSUME IInv, NEW t \in Threads, GetSession(t) \/ LogoutGet(t)
    PROVE  IInv'
<1>1. TypeOK /\ ThreadsInv /\ TokensInv
  BY DEF IInv
<1>2. UNCHANGED <<active, store, lineage, tokens, now>>
  BY DEF GetSession, LogoutGet
<1>3. CASE Finish(t)
  BY <1>2, <1>3, QuitStep
<1>4. ASSUME Goto(t, "check_user") \/ Goto(t, "logout_revoke"), UNCHANGED <<user, token>>
      PROVE  IInv'
  <2>1. /\ step[t] \in {"get", "logout_get"}
        /\ step'[t] \in {"check_user", "logout_revoke"}
        /\ \A v \in Threads \ {t} : step'[v] = step[v]
    BY <1>1, <1>4 DEF GetSession, LogoutGet, At, Goto, TypeOK
  <2>2. TypeOK'
    BY <1>1, <1>2, <1>4 DEF Goto, TypeOK, Steps
  <2>3. ThreadsInv' /\ TokensInv'
    BY <1>1, <1>2, <1>4, <2>1 DEF ThreadsInv, TokensInv, Born
  <2>4. \A v \in Threads, s \in SessionIds : Replaces(v, s)' => Replaces(v, s)
    BY <1>4, <2>1 DEF Replaces, At, Presents
  <2>5. StoreInv' /\ LineageInv' /\ ChainInv' /\ RotatedOnce' /\ OneUsablePerLogin'
    BY <1>2, <2>4, FrameStep
  <2> QED
    BY <2>2, <2>3, <2>5 DEF IInv
<1> QED
  BY <1>3, <1>4 DEF GetSession, LogoutGet

LEMMA CheckUserStep ==
    ASSUME IInv, NEW t \in Threads, CheckUser(t)
    PROVE  IInv'
<1>1. TypeOK /\ ThreadsInv /\ TokensInv
  BY DEF IInv
<1>2. UNCHANGED <<active, store, lineage, tokens, now>>
  BY DEF CheckUser
<1>3. CASE Finish(t)
  BY <1>2, <1>3, QuitStep
<1>4. ASSUME user' = [user EXCEPT ![t] = token[t].sub], Goto(t, "revoke"), UNCHANGED token
      PROVE  IInv'
  <2>1. step[t] = "check_user" /\ token[t] \in Token /\ token[t].sub \in Users
    BY <1>1 DEF CheckUser, At, ThreadsInv, TypeOK, Token
  <2>2. /\ step'[t] = "revoke" /\ user'[t] = token[t].sub /\ user'[t] # NoUser
        /\ \A v \in Threads \ {t} : step'[v] = step[v] /\ user'[v] = user[v]
    BY <1>1, <1>4, <2>1, NullAssumption DEF Goto, TypeOK
  <2>3. TypeOK'
    BY <1>1, <1>2, <1>4, <2>1 DEF Goto, TypeOK, Steps
  <2>4. ThreadsInv' /\ TokensInv'
    BY <1>1, <1>2, <1>4, <2>1, <2>2, NullAssumption DEF ThreadsInv, TokensInv, Born
  <2>5. \A v \in Threads, s \in SessionIds : Replaces(v, s)' => Replaces(v, s)
    BY <1>4, <2>2 DEF Replaces, At, Presents
  <2>6. StoreInv' /\ LineageInv' /\ ChainInv' /\ RotatedOnce' /\ OneUsablePerLogin'
    BY <1>2, <2>5, FrameStep
  <2> QED
    BY <2>3, <2>4, <2>6 DEF IInv
<1> QED
  BY <1>3, <1>4 DEF CheckUser

LEMMA LogoutRevokeStep ==
    ASSUME IInv, NEW t \in Threads, LogoutRevoke(t)
    PROVE  IInv'
<1>1. UNCHANGED <<active, lineage, tokens, now>> /\ Finish(t)
  BY DEF LogoutRevoke
<1>2. CASE Usable(Found(t)) /\ RevokeFound(t)
  <2>1. token[t] # NoToken
    BY DEF LogoutRevoke, At, IInv, ThreadsInv
  <2> QED
    BY <1>1, <1>2, <2>1, RevokeFoundStore, FinishStep
<1>3. CASE UNCHANGED store
  BY <1>1, <1>3, QuitStep
<1> QED
  BY <1>2, <1>3 DEF LogoutRevoke

\* Taking the usable session of a login: it has no successor, and no other
\* thread is replacing a session of the login.
LEMMA RevokeForRefreshStep ==
    ASSUME IInv, NEW t \in Threads, RevokeForRefresh(t)
    PROVE  IInv'
<1>1. TypeOK /\ ThreadsInv /\ TokensInv /\ StoreInv /\ LineageInv /\ ChainInv
      /\ RotatedOnce /\ OneUsablePerLogin
  BY DEF IInv
<1>2. UNCHANGED <<active, lineage, tokens, now>>
  BY DEF RevokeForRefresh
<1>3. CASE Finish(t) /\ UNCHANGED store
  BY <1>2, <1>3, QuitStep
<1>4. ASSUME Usable(Found(t)), RevokeFound(t), Goto(t, "issue"), UNCHANGED <<user, token>>
      PROVE  IInv'
  <2>1. step[t] = "revoke" /\ token[t] # NoToken /\ user[t] # NoUser
    BY <1>1 DEF RevokeForRefresh, At, ThreadsInv
  <2>2. PICK i0 \in Instances, s0 \in SessionIds :
           /\ i0 = InstanceOf[t] /\ s0 = token[t].jti /\ Usable(store[i0][s0])
           /\ store' \in [Instances -> [SessionIds -> RefreshSession \union {NoSession}]]
           /\ \A i \in Instances, s \in SessionIds :
                 /\ store'[i][s] # NoSession <=> store[i][s] # NoSession
                 /\ Usable(store'[i][s]) =>
                       Usable(store[i][s]) /\ ~ (i = i0 /\ s = s0)
    BY <1>4, <2>1, RevokeFoundStore DEF Found
  <2>3. step'[t] = "issue" /\ \A v \in Threads \ {t} : step'[v] = step[v]
    BY <1>1, <1>4 DEF Goto, TypeOK
  <2>4. TypeOK'
    BY <1>1, <1>2, <1>4, <2>2 DEF Goto, TypeOK, Steps
  <2>5. ThreadsInv' /\ TokensInv'
    BY <1>1, <1>2, <1>4, <2>1, <2>3 DEF ThreadsInv, TokensInv, Born
  <2>6. /\ \A s : Born(s)' <=> Born(s)
        /\ \A s : LoginOf(s)' = LoginOf(s)
        /\ \A s : Children(s)' = Children(s)
    BY <1>2 DEF Born, LoginOf, Children
  <2>7. StoreInv' /\ LineageInv' /\ RotatedOnce'
    <3>1. StoreInv'
      BY <1>1, <2>2, <2>6 DEF StoreInv
    <3>2. LineageInv'
      BY <1>1, <1>2, <2>6 DEF LineageInv
    <3>3. RotatedOnce'
      BY <1>1, <1>2, <2>6 DEF RotatedOnce
    <3> QED
      BY <3>1, <3>2, <3>3
  <2>8. \A v \in Threads, s \in SessionIds :
           Replaces(v, s)' => Replaces(v, s) \/ (v = t /\ s = s0)
    BY <1>4, <2>2, <2>3 DEF Replaces, At, Presents
  <2>9. \A v \in Threads, s \in SessionIds : Replaces(v, s) => LoginOf(s) # LoginOf(s0)
    BY <1>1, <2>2 DEF ChainInv
  <2>10. \A i \in Instances, s \in SessionIds :
            Usable(store'[i][s]) => Usable(store[i][s]) /\ LoginOf(s) # LoginOf(s0)
    BY <1>1, <2>2 DEF OneUsablePerLogin
  <2>11. ChainInv'
    <3>1. \A i \in Instances, s \in SessionIds :
             Usable(store'[i][s]) => Children(s)' = {}
      BY <1>1, <2>6, <2>10 DEF ChainInv
    <3>2. ASSUME NEW v \in Threads, NEW s \in SessionIds, Replaces(v, s)'
          PROVE  /\ Children(s)' = {}
                 /\ \A i \in Instances, r \in SessionIds :
                       Usable(store'[i][r]) => LoginOf(r)' # LoginOf(s)'
                 /\ \A w \in Threads, r \in SessionIds :
                       Replaces(w, r)' /\ LoginOf(r)' = LoginOf(s)' => w = v
      <4>1. CASE Replaces(v, s)
        BY <1>1, <4>1, <2>6, <2>8, <2>9, <2>10 DEF ChainInv
      <4>2. CASE v = t /\ s = s0
        <5>1. Children(s0) = {}
          BY <1>1, <2>2 DEF ChainInv
        <5> QED
          BY <4>2, <5>1, <2>6, <2>8, <2>9, <2>10
      <4> QED
        BY <3>2, <4>1, <4>2, <2>8
    <3> QED
      BY <3>1, <3>2 DEF ChainInv, Usable
  <2>12. OneUsablePerLogin'
    BY <1>1, <2>6, <2>10 DEF OneUsablePerLogin, Usable
  <2> QED
    BY <2>4, <2>5, <2>7, <2>11, <2>12 DEF IInv
<1> QED
  BY <1>3, <1>4 DEF RevokeForRefresh

\* The new session joins the chain at its end: a login's chain is new, and the
\* end of a refreshed one was the session this thread took.
LEMMA IssueTokenPairStep ==
    ASSUME IInv, NEW t \in Threads, NEW n \in SessionIds, IssueTokenPair(t, n)
    PROVE  IInv'
<1>1. TypeOK /\ ThreadsInv /\ TokensInv /\ StoreInv /\ LineageInv /\ ChainInv
      /\ RotatedOnce /\ OneUsablePerLogin
  BY DEF IInv
<1>2. /\ step[t] = "issue" /\ user[t] \in Users /\ user[t] # NoUser
      /\ UNCHANGED <<active, tokens, now, user>>
  BY <1>1, NullAssumption DEF IssueTokenPair, At, ThreadsInv, TypeOK
<1>3. PICK rec : rec = [user_id |-> user[t], expires_at |-> now + Lifetime, revoked |-> FALSE]
  OBVIOUS
<1>4. PICK tok : tok = [sub |-> user[t], jti |-> n, exp |-> now + Lifetime]
  OBVIOUS
<1>5. PICK anc : anc = Ancestry(t, n)
  OBVIOUS
<1>6. /\ rec \in RefreshSession /\ rec # NoSession
      /\ tok \in Token /\ tok # NoToken /\ tok.jti = n /\ tok.sub = user[t]
  <2>1. now + Lifetime \in Nat
    BY <1>1, TimeAssumption DEF TypeOK
  <2>2. rec \in RefreshSession
    BY <1>2, <1>3, <2>1 DEF RefreshSession
  <2>3. tok \in Token /\ tok.jti = n /\ tok.sub = user[t]
    BY <1>2, <1>4, <2>1 DEF Token
  <2> QED
    BY <2>2, <2>3, NullAssumption
<1>7. PICK p : p = IF token[t] = NoToken THEN NoSession ELSE token[t].jti
  OBVIOUS
<1>8. /\ p # NoSession <=> token[t] # NoToken
      /\ p # NoSession => /\ p \in SessionIds /\ Born(p) /\ Replaces(t, p)
                          /\ lineage[p] \in Lineage
  BY <1>1, <1>2, <1>7, NullAssumption DEF TypeOK, Token, TokensInv, Replaces, Presents, At, Born
<1>9. /\ anc.parent = p
      /\ anc.login = IF p = NoSession THEN n ELSE LoginOf(p)
      /\ anc \in Lineage /\ anc # NoSession
  BY <1>5, <1>7, <1>8, NullAssumption DEF Ancestry, Lineage, LoginOf
<1>10. ~ Born(n) /\ \A i \in Instances : store[i][n] = NoSession
  BY <1>1 DEF IssueTokenPair, Born, StoreInv
<1>11. PICK i0 \in Instances : i0 = InstanceOf[t]
  BY InstanceAssumption
<1>12. /\ store' = [store EXCEPT ![i0] = [store[i0] EXCEPT ![n] = rec]]
       /\ lineage' = [lineage EXCEPT ![n] = anc]
       /\ token' = [token EXCEPT ![t] = tok]
       /\ step' = [step EXCEPT ![t] = "reply"]
  BY <1>1, <1>3, <1>4, <1>5, <1>11 DEF IssueTokenPair, Goto, TypeOK
<1>13. /\ \A i \in Instances, s \in SessionIds :
             store'[i][s] = IF i = i0 /\ s = n THEN rec ELSE store[i][s]
       /\ \A s \in SessionIds : lineage'[s] = IF s = n THEN anc ELSE lineage[s]
       /\ \A v \in Threads : token'[v] = IF v = t THEN tok ELSE token[v]
       /\ \A v \in Threads : step'[v] = IF v = t THEN "reply" ELSE step[v]
  BY <1>1, <1>12 DEF TypeOK
<1>14. TypeOK'
  BY <1>1, <1>2, <1>6, <1>9, <1>12 DEF TypeOK, Steps
<1>15. /\ \A s \in SessionIds : Born(s)' <=> Born(s) \/ s = n
       /\ \A s \in SessionIds : s # n => LoginOf(s)' = LoginOf(s)
       /\ LoginOf(n)' = anc.login
       /\ \A s \in SessionIds : s # n => lineage'[s] = lineage[s]
  BY <1>9, <1>13 DEF Born, LoginOf
<1>16. ThreadsInv'
  BY <1>1, <1>2, <1>6, <1>13 DEF ThreadsInv
<1>17. TokensInv'
  <2>1. \A v \in Threads : token[v] # NoToken => token[v].jti \in SessionIds /\ Born(token[v].jti)
    BY <1>1 DEF TokensInv, TypeOK, Token
  <2>2. \A k \in tokens : k.jti \in SessionIds /\ Born(k.jti)
    BY <1>1 DEF TokensInv, TypeOK, Token
  <2> QED
    BY <1>2, <1>6, <1>13, <1>15, <2>1, <2>2 DEF TokensInv
<1>18. StoreInv'
  BY <1>1, <1>6, <1>10, <1>13, <1>15 DEF StoreInv
<1>19. LineageInv'
  <2>1. ASSUME NEW s \in SessionIds, Born(s), s # n
        PROVE  /\ LoginOf(s) \in SessionIds /\ LoginOf(s) # n
               /\ lineage[s].parent # NoSession =>
                     lineage[s].parent \in SessionIds /\ lineage[s].parent # n
    BY <1>1, <1>10, <2>1 DEF LineageInv, TypeOK, Lineage, Born, LoginOf
  <2>2. ASSUME NEW s \in SessionIds, Born(s), s # n
        PROVE  /\ Born(LoginOf(s))' /\ (LoginOf(LoginOf(s)) = LoginOf(s))'
               /\ IF lineage'[s].parent = NoSession THEN LoginOf(s)' = s
                  ELSE /\ Born(lineage[s].parent)'
                       /\ LoginOf(lineage[s].parent)' = LoginOf(s)'
                       /\ LoginOf(s)' # s
    <3>1. PICK l \in SessionIds : l = LoginOf(s) /\ l # n
      BY <2>1, <2>2
    <3>2. /\ Born(l) /\ LoginOf(l) = l
          /\ lineage[s].parent = NoSession => l = s
          /\ lineage[s].parent # NoSession =>
                Born(lineage[s].parent) /\ LoginOf(lineage[s].parent) = l /\ l # s
      BY <1>1, <2>2, <3>1 DEF LineageInv
    <3>3. LoginOf(s)' = l /\ lineage'[s] = lineage[s] /\ Born(l)' /\ LoginOf(l)' = l
      BY <1>15, <2>2, <3>1, <3>2
    <3>4. Born(LoginOf(s))' /\ (LoginOf(LoginOf(s)) = LoginOf(s))'
      BY <3>3 DEF Born, LoginOf
    <3>5. CASE lineage[s].parent = NoSession
      BY <3>1, <3>2, <3>3, <3>4, <3>5
    <3>6. CASE lineage[s].parent # NoSession
      <4>1. PICK q \in SessionIds : q = lineage[s].parent /\ q # n
        BY <2>1, <2>2, <3>6
      <4>2. Born(q)' /\ LoginOf(q)' = l
        BY <1>15, <3>2, <3>6, <4>1
      <4>3. Born(lineage[s].parent)' /\ LoginOf(lineage[s].parent)' = l
        BY <3>3, <4>1, <4>2 DEF Born, LoginOf
      <4> QED
        BY <3>2, <3>3, <3>4, <3>6, <4>3
    <3> QED
      BY <3>5, <3>6
  <2>3. /\ Born(LoginOf(n))' /\ (LoginOf(LoginOf(n)) = LoginOf(n))'
        /\ IF lineage'[n].parent = NoSession THEN LoginOf(n)' = n
           ELSE /\ Born(lineage[n].parent)'
                /\ LoginOf(lineage[n].parent)' = LoginOf(n)'
                /\ LoginOf(n)' # n
    <3>1. lineage'[n] = anc /\ Born(n)'
      BY <1>13, <1>15
    <3>2. CASE p = NoSession
      <4>1. LoginOf(n)' = n /\ lineage'[n].parent = NoSession
        BY <1>9, <3>1, <3>2, <1>15
      <4> QED
        BY <3>1, <4>1 DEF Born, LoginOf
    <3>3. CASE p # NoSession
      <4>1. p \in SessionIds /\ Born(p) /\ p # n
        BY <1>8, <1>10, <3>3
      <4>2. PICK l \in SessionIds : l = LoginOf(p) /\ l # n /\ Born(l) /\ LoginOf(l) = l
        BY <1>1, <2>1, <4>1 DEF LineageInv
      <4>3. /\ LoginOf(n)' = l /\ lineage'[n].parent = p
            /\ Born(l)' /\ LoginOf(l)' = l /\ Born(p)' /\ LoginOf(p)' = l
        BY <1>9, <1>15, <3>1, <3>3, <4>1, <4>2
      <4>4. Born(LoginOf(n))' /\ (LoginOf(LoginOf(n)) = LoginOf(n))'
        BY <4>3 DEF Born, LoginOf
      <4>5. Born(lineage[n].parent)' /\ LoginOf(lineage[n].parent)' = l
        BY <4>3 DEF Born, LoginOf
      <4> QED
        BY <3>3, <4>2, <4>3, <4>4, <4>5
    <3> QED
      BY <3>2, <3>3
  <2>4. SUFFICES ASSUME NEW s \in SessionIds, Born(s)'
                 PROVE  /\ Born(LoginOf(s))' /\ (LoginOf(LoginOf(s)) = LoginOf(s))'
                        /\ IF lineage'[s].parent = NoSession THEN LoginOf(s)' = s
                           ELSE /\ Born(lineage[s].parent)'
                                /\ LoginOf(lineage[s].parent)' = LoginOf(s)'
                                /\ LoginOf(s)' # s
    BY DEF LineageInv
  <2> QED
    BY <1>15, <2>2, <2>3, <2>4
<1>20. \A s \in SessionIds : Born(s) =>
          /\ s # n /\ LoginOf(s) \in SessionIds /\ LoginOf(s) # n
          /\ lineage[s].parent # n
          /\ LoginOf(s)' = LoginOf(s) /\ lineage'[s] = lineage[s]
  <2>1. SUFFICES ASSUME NEW s \in SessionIds, Born(s)
                 PROVE  /\ s # n /\ LoginOf(s) \in SessionIds /\ LoginOf(s) # n
                        /\ lineage[s].parent # n
                        /\ LoginOf(s)' = LoginOf(s) /\ lineage'[s] = lineage[s]
    OBVIOUS
  <2>2. s # n /\ n # NoSession
    BY <1>10, <2>1, NullAssumption
  <2>3. LoginOf(s) \in SessionIds
    BY <1>1, <2>1 DEF TypeOK, Lineage, Born, LoginOf
  <2>4. LoginOf(s) # n /\ lineage[s].parent # n
    BY <1>1, <1>10, <2>1, <2>2 DEF LineageInv
  <2> QED
    BY <1>15, <2>2, <2>3, <2>4
<1>21. \A s \in SessionIds : s # p => Children(s)' \subseteq Children(s)
  BY <1>9, <1>13, <1>15, <1>20 DEF Children
<1>22. Children(n)' = {}
  <2>1. Children(n) = {} /\ n # p
    BY <1>8, <1>10, <1>20, NullAssumption DEF Children
  <2> QED
    BY <1>21, <2>1
<1>23. \A v \in Threads, s \in SessionIds :
          Replaces(v, s)' => v # t /\ Replaces(v, s) /\ Born(s)
  BY <1>1, <1>13 DEF Replaces, At, Presents, TokensInv
<1>24. \A i \in Instances, s \in SessionIds :
          Usable(store'[i][s]) =>
              (i = i0 /\ s = n) \/ (s # n /\ Usable(store[i][s]) /\ Born(s))
  BY <1>1, <1>10, <1>13 DEF Usable, StoreInv
<1>25. \A s \in SessionIds : Born(s) /\ LoginOf(s) = anc.login => p # NoSession
  BY <1>9, <1>20
<1>26. \A i \in Instances, s \in SessionIds :
          Usable(store[i][s]) /\ Born(s) => s # p /\ LoginOf(s) # anc.login
  <2>1. SUFFICES ASSUME NEW i \in Instances, NEW s \in SessionIds,
                        Usable(store[i][s]), Born(s)
                 PROVE  s # p /\ LoginOf(s) # anc.login
    OBVIOUS
  <2>2. CASE p = NoSession
    BY <1>25, <2>1, <2>2, NullAssumption
  <2>3. CASE p # NoSession
    BY <1>1, <1>8, <1>9, <2>1, <2>3 DEF ChainInv
  <2> QED
    BY <2>2, <2>3
<1>27. \A v \in Threads, s \in SessionIds :
          v # t /\ Replaces(v, s) /\ Born(s) => s # p /\ LoginOf(s) # anc.login
  <2>1. SUFFICES ASSUME NEW v \in Threads, NEW s \in SessionIds,
                        v # t, Replaces(v, s), Born(s)
                 PROVE  s # p /\ LoginOf(s) # anc.login
    OBVIOUS
  <2>2. CASE p = NoSession
    BY <1>25, <2>1, <2>2, NullAssumption
  <2>3. CASE p # NoSession
    BY <1>1, <1>8, <1>9, <2>1, <2>3 DEF ChainInv
  <2> QED
    BY <2>2, <2>3
<1>28. ChainInv'
  <2>1. \A i \in Instances, s \in SessionIds : Usable(store'[i][s]) => Children(s)' = {}
    BY <1>1, <1>21, <1>22, <1>24, <1>26 DEF ChainInv
  <2>2. ASSUME NEW v \in Threads, NEW s \in SessionIds, Replaces(v, s)'
        PROVE  /\ Children(s)' = {}
               /\ \A i \in Instances, r \in SessionIds :
                     Usable(store'[i][r]) => LoginOf(r)' # LoginOf(s)'
               /\ \A w \in Threads, r \in SessionIds :
                     Replaces(w, r)' /\ LoginOf(r)' = LoginOf(s)' => w = v
    <3>1. Replaces(v, s) /\ Born(s) /\ s # p /\ LoginOf(s) # anc.login
      BY <1>23, <1>27, <2>2
    <3>2. LoginOf(s)' = LoginOf(s) /\ LoginOf(n)' = anc.login
      BY <1>15, <1>20, <3>1
    <3>3. Children(s)' = {}
      BY <1>1, <1>21, <3>1 DEF ChainInv
    <3>4. \A i \in Instances, r \in SessionIds :
             Usable(store'[i][r]) => LoginOf(r)' # LoginOf(s)'
      BY <1>1, <1>20, <1>24, <3>1, <3>2 DEF ChainInv
    <3>5. \A w \in Threads, r \in SessionIds :
             Replaces(w, r)' /\ LoginOf(r)' = LoginOf(s)' => w = v
      BY <1>1, <1>20, <1>23, <3>1, <3>2 DEF ChainInv
    <3> QED
      BY <3>3, <3>4, <3>5
  <2> QED
    BY <2>1, <2>2 DEF ChainInv, Usable
<1>29. RotatedOnce'
  <2>1. SUFFICES ASSUME NEW c \in SessionIds, NEW d \in SessionIds,
                        Born(c)', Born(d)', lineage'[c].parent = lineage'[d].parent,
                        lineage'[c].parent # NoSession
                 PROVE  c = d
    BY DEF RotatedOnce
  <2>2. p # NoSession => Children(p) = {}
    BY <1>1, <1>8 DEF ChainInv
  <2>3. \A s \in SessionIds : Born(s) /\ p # NoSession => lineage[s].parent # p
    BY <2>2 DEF Children
  <2>4. lineage'[n] = anc
    BY <1>13
  <2> QED
    BY <1>1, <1>9, <1>15, <1>20, <2>1, <2>3, <2>4 DEF RotatedOnce
<1>30. OneUsablePerLogin'
  <2>1. SUFFICES ASSUME NEW i \in Instances, NEW j \in Instances,
                        NEW s \in SessionIds, NEW r \in SessionIds,
                        Usable(store'[i][s]), Usable(store'[j][r]),
                        LoginOf(s)' = LoginOf(r)'
                 PROVE  i = j /\ s = r
    BY DEF OneUsablePerLogin, Usable
  <2>2. LoginOf(n)' = anc.login
    BY <1>15
  <2>3. CASE s = n
    BY <1>20, <1>24, <1>26, <2>1, <2>2, <2>3
  <2>4. CASE r = n
    BY <1>20, <1>24, <1>26, <2>1, <2>2, <2>4
  <2>5. CASE s # n /\ r # n
    BY <1>1, <1>20, <1>24, <2>1, <2>5 DEF OneUsablePerLogin
  <2> QED
    BY <2>3, <2>4, <2>5
<1> QED
  BY <1>14, <1>16, <1>17, <1>18, <1>19, <1>28, <1>29, <1>30 DEF IInv

\* The end of a request with its answer, or without one.
LEMMA EndStep ==
    ASSUME IInv, NEW t \in Threads, Reply(t) \/ Fail(t)
    PROVE  IInv'
BY QuitStep DEF Reply, Fail

LEMMA RestartStep ==
    ASSUME IInv, NEW i \in Instances, Restart(i)
    PROVE  IInv'
<1>1. TypeOK /\ ThreadsInv /\ TokensInv
  BY DEF IInv
<1>2. UNCHANGED <<active, lineage, tokens, now>>
  BY DEF Restart
<1>3. TypeOK'
  BY <1>1 DEF Restart, TypeOK, Steps
<1>4. \A t \in Threads :
         \/ step'[t] = "idle" /\ user'[t] = NoUser /\ token'[t] = NoToken
         \/ step'[t] = step[t] /\ user'[t] = user[t] /\ token'[t] = token[t]
  BY DEF Restart
<1>5. ThreadsInv' /\ TokensInv'
  BY <1>1, <1>2, <1>4 DEF ThreadsInv, TokensInv, Born
<1>6. \A t \in Threads, s \in SessionIds : Replaces(t, s)' => Replaces(t, s)
  BY <1>4 DEF Replaces, At, Presents
<1>7. \A j \in Instances, s \in SessionIds :
         store'[j][s] = NoSession \/ store'[j][s] = store[j][s]
  BY <1>1 DEF Restart, TypeOK
<1>8. StoreInv' /\ LineageInv' /\ ChainInv' /\ RotatedOnce' /\ OneUsablePerLogin'
  BY <1>2, <1>6, <1>7, FrameStep DEF Usable
<1> QED
  BY <1>3, <1>5, <1>8 DEF IInv

\* A change of an account, of the time, or of nothing.
LEMMA OutsideStep ==
    ASSUME IInv, (\E u \in Users : ToggleActive(u)) \/ Tick \/ UNCHANGED vars
    PROVE  IInv'
<1>1. TypeOK /\ ThreadsInv /\ TokensInv
  BY DEF IInv
<1>2. UNCHANGED <<store, lineage, tokens, step, user, token>>
  BY DEF ToggleActive, Tick, vars, threadVars
<1>3. active' \in [Users -> BOOLEAN]
  <2>1. ASSUME NEW u \in Users, ToggleActive(u) PROVE active' \in [Users -> BOOLEAN]
    <3>1. (~ active[u]) \in BOOLEAN
      OBVIOUS
    <3>2. PICK b \in BOOLEAN : b = (~ active[u])
      BY <3>1, Zenon
    <3>3. active' = [active EXCEPT ![u] = b]
      BY <2>1, <3>2, Zenon DEF ToggleActive
    <3> QED
      BY <1>1, <3>3 DEF TypeOK
  <2>2. Tick \/ UNCHANGED vars => active' = active
    BY DEF Tick, vars
  <2> QED
    BY <1>1, <2>1, <2>2 DEF TypeOK
<1>4. now' \in Nat
  BY <1>1 DEF ToggleActive, Tick, vars, threadVars, TypeOK
<1>5. TypeOK' /\ ThreadsInv' /\ TokensInv'
  BY <1>1, <1>2, <1>3, <1>4 DEF TypeOK, ThreadsInv, TokensInv, Born
<1>6. \A t \in Threads, s \in SessionIds : Replaces(t, s)' => Replaces(t, s)
  BY <1>2 DEF Replaces, At, Presents
<1>7. StoreInv' /\ LineageInv' /\ ChainInv' /\ RotatedOnce' /\ OneUsablePerLogin'
  BY <1>2, <1>6, FrameStep
<1> QED
  BY <1>5, <1>7 DEF IInv

LEMMA NextIInv == IInv /\ [Next]_vars => IInv'
<1> SUFFICES ASSUME IInv, [Next]_vars PROVE IInv'
  OBVIOUS
<1>1. ASSUME NEW t \in Threads, NEW u \in Users, Login(t, u) PROVE IInv'
  BY <1>1, LoginStep
<1>2. ASSUME NEW t \in Threads, Refresh(t) PROVE IInv'
  BY <1>2, BeginStep, GetSessionStep, CheckUserStep, RevokeForRefreshStep DEF Refresh
<1>3. ASSUME NEW t \in Threads, Logout(t) PROVE IInv'
  BY <1>3, BeginStep, GetSessionStep, LogoutRevokeStep DEF Logout
<1>4. ASSUME NEW t \in Threads, Issue(t) PROVE IInv'
  BY <1>4, IssueTokenPairStep, EndStep DEF Issue
<1>5. ASSUME NEW t \in Threads, Fail(t) PROVE IInv'
  BY <1>5, EndStep
<1>6. ASSUME NEW i \in Instances, Restart(i) PROVE IInv'
  BY <1>6, RestartStep
<1> QED
  BY <1>1, <1>2, <1>3, <1>4, <1>5, <1>6, OutsideStep DEF Next

\* The inductive invariant holds in every reachable state.
THEOREM Invariance == Spec => []IInv
<1>1. Init => IInv
  BY InitIInv
<1>2. IInv /\ [Next]_vars => IInv'
  BY NextIInv
<1> QED
  BY <1>1, <1>2, PTL DEF Spec

-----------------------------------------------------------------------------
(* The invariants.                                                         *)

\* Every variable keeps a value of its type.
THEOREM TypeCorrect == Spec => []TypeOK
<1>1. IInv => TypeOK
  BY DEF IInv
<1> QED
  BY <1>1, Invariance, PTL

\* A refresh token is rotated once, by whatever requests present it and
\* whatever processes serve them.
THEOREM SingleUse == Spec => []RotatedOnce
<1>1. IInv => RotatedOnce
  BY DEF IInv
<1> QED
  BY <1>1, Invariance, PTL

\* A login never has two usable sessions, in one process or in several.
THEOREM OneUsable == Spec => []OneUsablePerLogin
<1>1. IInv => OneUsablePerLogin
  BY DEF IInv
<1> QED
  BY <1>1, Invariance, PTL

-----------------------------------------------------------------------------
(* Steps that create no session: what they leave of the others.            *)

Shrinks ==
    /\ UNCHANGED lineage
    /\ now <= now'
    /\ \A i \in Instances, s \in SessionIds :
          store'[i][s] # NoSession =>
              store[i][s] # NoSession /\ store'[i][s].expires_at = store[i][s].expires_at
    /\ \A i \in Instances, s \in SessionIds :
          Usable(store'[i][s]) => Usable(store[i][s])

\* Thread t is refreshing s, past the check of its expiry.
Checked(t, s) == step[t] \in {"check_user", "revoke", "issue"} /\ Presents(t, s)

\* A replacement starts with a usable session, and a refresh passes the check
\* with one that has not expired.
Starts ==
    \A t \in Threads, s \in SessionIds :
        /\ Replaces(t, s)' =>
              Replaces(t, s) \/ (RevokeForRefresh(t) /\ Presents(t, s) /\ Usable(Found(t)))
        /\ Checked(t, s)' =>
              \/ Checked(t, s)
              \/ \E i \in Instances : store[i][s] # NoSession /\ store[i][s].expires_at > now

\* One thread finishes or moves on with its token.
LEMMA SameStore ==
    ASSUME IInv, UNCHANGED <<store, lineage, now>>
    PROVE  Shrinks
BY DEF Shrinks, IInv, TypeOK

LEMMA FinishStarts ==
    ASSUME IInv, NEW t \in Threads, Finish(t)
    PROVE  Starts
<1>1. /\ step'[t] = "idle"
      /\ \A v \in Threads \ {t} : step'[v] = step[v] /\ token'[v] = token[v]
  BY DEF IInv, TypeOK, Finish, Goto
<1> QED
  BY <1>1 DEF Starts, Replaces, Checked, At, Presents

LEMMA RevokeShrinks ==
    ASSUME IInv, NEW t \in Threads, token[t] # NoToken, Usable(Found(t)), RevokeFound(t),
           UNCHANGED <<lineage, now>>
    PROVE  Shrinks
<1>1. now \in Nat
  BY DEF IInv, TypeOK
<1> QED
  BY <1>1, RevokeFoundStore DEF Shrinks

LEMMA OtherSteps ==
    ASSUME IInv, [Next]_vars
    PROVE  \/ Shrinks /\ Starts
           \/ \E t \in Threads, n \in SessionIds : IssueTokenPair(t, n)
<1>1. TypeOK /\ ThreadsInv
  BY DEF IInv
<1>2. ASSUME NEW t \in Threads, NEW u \in Users, Login(t, u) PROVE Shrinks /\ Starts
  <2>1. UNCHANGED <<store, lineage, now, token>> /\ token[t] = NoToken
    BY <1>1, <1>2 DEF Login, At, ThreadsInv
  <2>2. \A v \in Threads \ {t} : step'[v] = step[v]
    BY <1>1, <1>2 DEF Login, Goto, TypeOK
  <2>3. Starts
    BY <2>1, <2>2 DEF Starts, Replaces, Checked, At, Presents
  <2> QED
    BY <2>1, <2>3, SameStore
<1>3. ASSUME NEW t \in Threads, NEW tok \in tokens, BeginRefresh(t, tok) \/ BeginLogout(t, tok)
      PROVE  Shrinks /\ Starts
  <2>1. UNCHANGED <<store, lineage, now>> /\ step'[t] \in {"get", "logout_get"}
    BY <1>1, <1>3 DEF BeginRefresh, BeginLogout, Goto, TypeOK
  <2>2. \A v \in Threads \ {t} : step'[v] = step[v] /\ token'[v] = token[v]
    BY <1>1, <1>3 DEF BeginRefresh, BeginLogout, Goto, TypeOK
  <2>3. Starts
    BY <2>1, <2>2 DEF Starts, Replaces, Checked, At, Presents
  <2> QED
    BY <2>1, <2>3, SameStore
<1>4. ASSUME NEW t \in Threads, GetSession(t) PROVE Shrinks /\ Starts
  <2>1. UNCHANGED <<store, lineage, now>>
    BY <1>4 DEF GetSession
  <2>2. ASSUME SessionValid(t), Goto(t, "check_user"), UNCHANGED token PROVE Starts
    <3>1. step'[t] = "check_user" /\ \A v \in Threads \ {t} : step'[v] = step[v]
      BY <1>1, <2>2 DEF Goto, TypeOK
    <3>2. PICK i \in Instances : i = InstanceOf[t]
      BY InstanceAssumption
    <3>3. store[i][token[t].jti] # NoSession /\ store[i][token[t].jti].expires_at > now
      BY <2>2, <3>2 DEF SessionValid, Usable, Found
    <3> QED
      BY <2>2, <3>1, <3>3 DEF Starts, Replaces, Checked, At, Presents
  <2> QED
    BY <1>4, <2>1, <2>2, SameStore, FinishStarts DEF GetSession
<1>5. ASSUME NEW t \in Threads, CheckUser(t) PROVE Shrinks /\ Starts
  <2>1. UNCHANGED <<store, lineage, now>> /\ step[t] = "check_user"
    BY <1>5 DEF CheckUser, At
  <2>2. ASSUME Goto(t, "revoke"), UNCHANGED token PROVE Starts
    <3>1. step'[t] = "revoke" /\ \A v \in Threads \ {t} : step'[v] = step[v]
      BY <1>1, <2>2 DEF Goto, TypeOK
    <3> QED
      BY <2>1, <2>2, <3>1 DEF Starts, Replaces, Checked, At, Presents
  <2> QED
    BY <1>5, <2>1, <2>2, SameStore, FinishStarts DEF CheckUser
<1>6. ASSUME NEW t \in Threads, RevokeForRefresh(t) PROVE Shrinks /\ Starts
  <2>1. UNCHANGED <<lineage, now>> /\ step[t] = "revoke" /\ token[t] # NoToken
    BY <1>1, <1>6 DEF RevokeForRefresh, At, ThreadsInv
  <2>2. ASSUME Usable(Found(t)), RevokeFound(t), Goto(t, "issue"), UNCHANGED token
        PROVE  Shrinks /\ Starts
    <3>1. step'[t] = "issue" /\ \A v \in Threads \ {t} : step'[v] = step[v]
      BY <1>1, <2>2 DEF Goto, TypeOK
    <3>2. Starts
      BY <1>6, <2>1, <2>2, <3>1 DEF Starts, Replaces, Checked, At, Presents
    <3> QED
      BY <2>1, <2>2, <3>2, RevokeShrinks
  <2> QED
    BY <1>6, <2>1, <2>2, SameStore, FinishStarts DEF RevokeForRefresh
<1>7. ASSUME NEW t \in Threads, LogoutGet(t) PROVE Shrinks /\ Starts
  <2>1. UNCHANGED <<store, lineage, now>>
    BY <1>7 DEF LogoutGet
  <2>2. ASSUME Goto(t, "logout_revoke"), UNCHANGED token PROVE Starts
    <3>1. step'[t] = "logout_revoke" /\ \A v \in Threads \ {t} : step'[v] = step[v]
      BY <1>1, <2>2 DEF Goto, TypeOK
    <3> QED
      BY <2>2, <3>1 DEF Starts, Replaces, Checked, At, Presents
  <2> QED
    BY <1>7, <2>1, <2>2, SameStore, FinishStarts DEF LogoutGet
<1>8. ASSUME NEW t \in Threads, LogoutRevoke(t) PROVE Shrinks /\ Starts
  <2>1. UNCHANGED <<lineage, now>> /\ token[t] # NoToken /\ Finish(t)
    BY <1>1, <1>8 DEF LogoutRevoke, At, ThreadsInv
  <2> QED
    BY <1>8, <2>1, SameStore, RevokeShrinks, FinishStarts DEF LogoutRevoke
<1>9. ASSUME NEW t \in Threads, Reply(t) \/ Fail(t) PROVE Shrinks /\ Starts
  BY <1>9, SameStore, FinishStarts DEF Reply, Fail
<1>10. ASSUME NEW i \in Instances, Restart(i) PROVE Shrinks /\ Starts
  <2>1. \A j \in Instances, s \in SessionIds :
           store'[j][s] = NoSession \/ store'[j][s] = store[j][s]
    BY <1>1, <1>10 DEF Restart, TypeOK
  <2>2. \A t \in Threads :
           step'[t] = "idle" \/ (step'[t] = step[t] /\ token'[t] = token[t])
    BY <1>10 DEF Restart
  <2>3. UNCHANGED <<lineage, now>> /\ now \in Nat
    BY <1>1, <1>10 DEF Restart, TypeOK
  <2>4. Shrinks
    BY <2>1, <2>3 DEF Shrinks, Usable
  <2>5. Starts
    BY <2>2 DEF Starts, Replaces, Checked, At, Presents
  <2> QED
    BY <2>4, <2>5
<1>11. ASSUME (\E u \in Users : ToggleActive(u)) \/ Tick \/ UNCHANGED vars
       PROVE  Shrinks /\ Starts
  <2>1. UNCHANGED <<store, lineage, step, token>>
    BY <1>11 DEF ToggleActive, Tick, vars, threadVars
  <2>2. now <= now'
    BY <1>1, <1>11 DEF ToggleActive, Tick, vars, threadVars, TypeOK
  <2> QED
    BY <2>1, <2>2 DEF Shrinks, Starts, Replaces, Checked, At, Presents
<1> QED
  BY <1>2, <1>3, <1>4, <1>5, <1>6, <1>7, <1>8, <1>9, <1>10, <1>11
     DEF Next, Refresh, Logout, Issue

-----------------------------------------------------------------------------
(* What no step does to a spent session.                                   *)

LEMMA SpentStep ==
    ASSUME IInv, [Next]_vars, NEW s \in SessionIds, Spent(s)
    PROVE  Spent(s)' /\ Children(s)' = Children(s)
<1>1. TypeOK /\ ThreadsInv /\ TokensInv /\ StoreInv
  BY DEF IInv
<1>2. Born(s)
  BY DEF Spent
<1>3. CASE Shrinks /\ Starts
  <2>1. Born(s)' /\ Children(s)' = Children(s)
    BY <1>2, <1>3 DEF Shrinks, Born, Children
  <2>2. ASSUME \A i \in Instances : ~ Usable(store[i][s]),
               \A t \in Threads : At(t, "issue") => ~ Presents(t, s)
        PROVE  Spent(s)'
    <3>1. \A i \in Instances : ~ Usable(store'[i][s])
      BY <1>3, <2>2 DEF Shrinks
    <3>2. ASSUME NEW t \in Threads PROVE ~ Replaces(t, s)'
      <4>1. ~ Replaces(t, s)
        BY <2>2 DEF Replaces
      <4>2. Presents(t, s) => ~ Usable(Found(t))
        BY <2>2, InstanceAssumption DEF Presents, Found
      <4> QED
        BY <1>3, <4>1, <4>2 DEF Starts
    <3> QED
      BY <2>1, <3>1, <3>2 DEF Spent, Usable, Replaces
  <2>3. ASSUME \A i \in Instances :
                  store[i][s] # NoSession => store[i][s].expires_at <= now,
               \A t \in Threads : ~ Checked(t, s)
        PROVE  Spent(s)'
    <3>1. ASSUME NEW i \in Instances, store'[i][s] # NoSession
          PROVE  store'[i][s].expires_at <= now'
      <4>1. store[i][s] # NoSession /\ store'[i][s].expires_at = store[i][s].expires_at
        BY <1>3, <3>1 DEF Shrinks
      <4>2. store[i][s].expires_at \in Nat /\ now \in Nat
        BY <1>1, <4>1 DEF TypeOK, RefreshSession
      <4>3. TypeOK'
        BY NextIInv DEF IInv
      <4> QED
        BY <1>3, <2>3, <4>1, <4>2, <4>3 DEF Shrinks, TypeOK
    <3>2. ASSUME NEW t \in Threads PROVE ~ Checked(t, s)'
      <4>1. \A i \in Instances :
               ~ (store[i][s] # NoSession /\ store[i][s].expires_at > now)
        BY <1>1, <2>3 DEF TypeOK, RefreshSession
      <4> QED
        BY <1>3, <2>3, <4>1 DEF Starts
    <3> QED
      BY <2>1, <3>1, <3>2 DEF Spent, Checked
  <2> QED
    BY <2>1, <2>2, <2>3 DEF Spent, Checked
<1>4. ASSUME NEW t \in Threads, NEW n \in SessionIds, IssueTokenPair(t, n)
      PROVE  Spent(s)' /\ Children(s)' = Children(s)
  <2>1. s # n
    BY <1>2, <1>4 DEF IssueTokenPair, Born
  <2>2. step[t] = "issue" /\ step'[t] = "reply" /\ now' = now
    BY <1>1, <1>4 DEF IssueTokenPair, At, Goto, TypeOK
  <2>3. \A v \in Threads \ {t} : step'[v] = step[v] /\ token'[v] = token[v]
    BY <1>1, <1>4 DEF IssueTokenPair, Goto, TypeOK
  <2>4. \A i \in Instances : store'[i][s] = store[i][s]
    BY <1>1, <1>4, <2>1, InstanceAssumption DEF IssueTokenPair, TypeOK
  <2>5. /\ lineage'[n] = Ancestry(t, n)
        /\ \A c \in SessionIds : c # n => lineage'[c] = lineage[c]
    BY <1>1, <1>4 DEF IssueTokenPair, TypeOK
  <2>6. ~ Presents(t, s)
    BY <2>2 DEF Spent, At
  <2>7. Ancestry(t, n).parent # s
    BY <1>1, <2>6, NullAssumption DEF Ancestry, Presents
  <2>8. ~ Born(n)
    BY <1>4 DEF IssueTokenPair, Born
  <2>9. Children(s)' = Children(s)
    <3>1. \A c \in SessionIds : c # n => (Born(c)' <=> Born(c)) /\ lineage'[c] = lineage[c]
      BY <2>5 DEF Born
    <3>2. n \notin Children(s) /\ n \notin Children(s)'
      BY <2>5, <2>7, <2>8 DEF Children
    <3>3. \A c \in SessionIds : c # n => (c \in Children(s)' <=> c \in Children(s))
      BY <3>1 DEF Children
    <3> QED
      BY <3>2, <3>3 DEF Children
  <2>10. Born(s)'
    BY <1>2, <2>1, <2>5 DEF Born
  <2>11. \A v \in Threads :
            /\ Replaces(v, s)' => Replaces(v, s)
            /\ Checked(v, s)' => Checked(v, s)
    BY <2>2, <2>3 DEF Replaces, Checked, At, Presents
  <2>12. Spent(s)'
    <3>1. CASE /\ \A i \in Instances : ~ Usable(store[i][s])
               /\ \A v \in Threads : ~ Replaces(v, s)
      BY <2>4, <2>10, <2>11, <3>1 DEF Spent, Usable, Replaces
    <3>2. CASE /\ \A i \in Instances :
                     store[i][s] # NoSession => store[i][s].expires_at <= now
               /\ \A v \in Threads : ~ Checked(v, s)
      BY <2>2, <2>4, <2>10, <2>11, <3>2 DEF Spent, Checked
    <3> QED
      BY <3>1, <3>2 DEF Spent, Replaces, Checked
  <2> QED
    BY <2>9, <2>12
<1> QED
  BY <1>3, <1>4, OtherSteps

\* A session that is revoked, forgotten or expired is never rotated again.
THEOREM SpentStaysHolds == Spec => SpentStays
<1>1. IInv /\ [Next]_vars =>
         [\A s \in SessionIds : Spent(s) => Spent(s)' /\ Children(s)' = Children(s)]_vars
  BY SpentStep
<1> QED
  BY <1>1, Invariance, PTL DEF Spec, SpentStays

-----------------------------------------------------------------------------
(* What no step gives to a barred account.                                 *)

Tokens(u) == {tok \in tokens : tok.sub = u}

\* The sessions of u stored by a step.
Opens(u) ==
    \E i \in Instances, s \in SessionIds :
        store[i][s] = NoSession /\ store'[i][s] # NoSession /\ store'[i][s].user_id = u

\* The account of the request a thread takes on is active.
LEMMA UsersStep ==
    ASSUME IInv, [Next]_vars, NEW u \in Users, Barred(u), ~ active'[u], NEW t \in Threads
    PROVE  user'[t] # u
<1>1. TypeOK /\ ThreadsInv /\ u # NoUser
  BY NullAssumption DEF IInv
<1>2. ~ active[u] /\ user[t] # u
  BY DEF Barred
<1>3. ASSUME NEW v \in Threads, Finish(v) PROVE user'[t] # u
  BY <1>1, <1>2, <1>3 DEF Finish, TypeOK
<1>4. ASSUME NEW v \in Threads, NEW w \in Users, Login(v, w) PROVE user'[t] # u
  BY <1>1, <1>2, <1>4 DEF Login, TypeOK
<1>5. ASSUME NEW v \in Threads, CheckUser(v) PROVE user'[t] # u
  BY <1>1, <1>2, <1>3, <1>5 DEF CheckUser, TypeOK
<1>6. ASSUME NEW i \in Instances, Restart(i) PROVE user'[t] # u
  BY <1>1, <1>2, <1>6 DEF Restart
<1>7. CASE UNCHANGED user
  BY <1>2, <1>7
<1>8. ASSUME NEW v \in Threads, GetSession(v) \/ RevokeForRefresh(v) \/ LogoutGet(v) \/ LogoutRevoke(v)
      PROVE  user'[t] # u
  BY <1>3, <1>7, <1>8 DEF GetSession, RevokeForRefresh, LogoutGet, LogoutRevoke
<1>9. ASSUME NEW v \in Threads, Reply(v) \/ Fail(v) PROVE user'[t] # u
  BY <1>3, <1>9 DEF Reply, Fail
<1> QED
  BY <1>4, <1>5, <1>6, <1>7, <1>8, <1>9
     DEF Next, Refresh, Logout, Issue, BeginRefresh, BeginLogout, IssueTokenPair,
         ToggleActive, Tick, vars, threadVars

LEMMA TokensStep ==
    ASSUME IInv, [Next]_vars, NEW u \in Users, Barred(u)
    PROVE  Tokens(u)' = Tokens(u)
<1>1. ASSUME NEW t \in Threads, Reply(t) PROVE Tokens(u)' = Tokens(u)
  <2>1. tokens' = tokens \union {token[t]}
    BY <1>1 DEF Reply
  <2>2. token[t].sub = user[t] /\ user[t] # u
    BY <1>1 DEF Reply, At, IInv, ThreadsInv, Barred
  <2> QED
    BY <2>1, <2>2 DEF Tokens
<1>2. CASE UNCHANGED tokens
  BY <1>2 DEF Tokens
<1> QED
  BY <1>1, <1>2
     DEF Next, Refresh, Logout, Issue, Login, BeginRefresh, GetSession, CheckUser,
         RevokeForRefresh, IssueTokenPair, BeginLogout, LogoutGet, LogoutRevoke, Fail,
         Restart, ToggleActive, Tick, vars

LEMMA OpensStep ==
    ASSUME IInv, [Next]_vars, NEW u \in Users, Barred(u)
    PROVE  ~ Opens(u)
<1>1. CASE Shrinks
  BY <1>1 DEF Shrinks, Opens
<1>2. ASSUME NEW t \in Threads, NEW n \in SessionIds, IssueTokenPair(t, n)
      PROVE  ~ Opens(u)
  <2>1. user[t] # u
    BY DEF Barred
  <2>2. \A i \in Instances, s \in SessionIds :
           store'[i][s] = store[i][s] \/ store'[i][s].user_id = user[t]
    BY <1>2, InstanceAssumption DEF IssueTokenPair, IInv, TypeOK
  <2> QED
    BY <2>1, <2>2 DEF Opens
<1> QED
  BY <1>1, <1>2, OtherSteps

\* An account that is deactivated gets nothing more, once the requests that
\* found it active are over.
THEOREM Deactivated == Spec => DeactivationHolds
<1>1. IInv /\ [Next]_vars =>
         [\A u \in Users :
             Barred(u) /\ ~ active'[u] =>
                 /\ Barred(u)'
                 /\ {tok \in tokens' : tok.sub = u} = {tok \in tokens : tok.sub = u}
                 /\ \A i \in Instances, s \in SessionIds :
                       store[i][s] = NoSession /\ store'[i][s] # NoSession =>
                           store'[i][s].user_id # u]_vars
  BY UsersStep, TokensStep, OpensStep DEF Barred, Tokens, Opens
<1> QED
  BY <1>1, Invariance, PTL DEF Spec, DeactivationHolds

-----------------------------------------------------------------------------
(* The service implements RotationPromise.                                 *)

Opened == {s \in SessionIds : Born(s) /\ LoginOf(s) = s}
UsableOf(l) == {s \in SessionIds : /\ Born(s) /\ LoginOf(s) = l
                                   /\ \E i \in Instances : Usable(store[i][s])}
UsableMap == [l \in SessionIds |-> UsableOf(l)]
Rotating == {l \in SessionIds : \E t \in Threads, s \in SessionIds :
                Replaces(t, s) /\ LoginOf(s) = l}

\* What the invariant says of the promise's variables.
LEMMA PromiseState ==
    ASSUME IInv
    PROVE  /\ \A l \in SessionIds : \A s, r \in UsableOf(l) : s = r
           /\ \A l \in Rotating : UsableOf(l) = {}
<1>1. OneUsablePerLogin /\ ChainInv
  BY DEF IInv
<1>2. \A l \in SessionIds : \A s, r \in UsableOf(l) : s = r
  BY <1>1 DEF OneUsablePerLogin, UsableOf
<1>3. \A l \in Rotating : UsableOf(l) = {}
  BY <1>1 DEF ChainInv, Rotating, UsableOf
<1> QED
  BY <1>2, <1>3

\* A step that only ends sessions and rotations closes the chains that have
\* neither any more.
LEMMA CloseStep ==
    ASSUME IInv, Shrinks,
           \A t \in Threads, s \in SessionIds : Replaces(t, s)' => Replaces(t, s)
    PROVE  Promise!Next
<1>1. /\ \A s : Born(s)' <=> Born(s)
      /\ \A s : LoginOf(s)' = LoginOf(s)
  BY DEF Shrinks, Born, LoginOf
<1>2. Opened' = Opened
  BY <1>1 DEF Opened
<1>3. \A l \in SessionIds : UsableOf(l)' \subseteq UsableOf(l)
  BY <1>1 DEF Shrinks, UsableOf, Usable
<1>4. Rotating' \subseteq Rotating
  BY <1>1 DEF Rotating
<1>5. PICK ended \in SUBSET SessionIds :
         \A l \in SessionIds : l \in ended <=> UsableOf(l)' = {} /\ l \notin Rotating'
  <2>1. {l \in SessionIds : UsableOf(l)' = {} /\ l \notin Rotating'} \in SUBSET SessionIds
    OBVIOUS
  <2> QED
    BY <2>1
<1>6. Rotating' = Rotating \ ended
  <2>1. ASSUME NEW l \in Rotating, l \notin ended PROVE l \in Rotating'
    <3>1. l \in SessionIds /\ UsableOf(l) = {}
      BY PromiseState DEF Rotating
    <3> QED
      BY <1>3, <1>5, <2>1, <3>1
  <2>2. Rotating' \subseteq SessionIds
    BY DEF Rotating
  <2> QED
    BY <1>4, <1>5, <2>1, <2>2
<1>7. \A l \in SessionIds : UsableOf(l)' = IF l \in ended THEN {} ELSE UsableOf(l)
  <2>1. SUFFICES ASSUME NEW l \in SessionIds, l \notin ended PROVE UsableOf(l)' = UsableOf(l)
    BY <1>5
  <2>2. CASE l \in Rotating'
    BY <1>3, <1>4, <2>2, PromiseState
  <2>3. CASE UsableOf(l)' # {}
    BY <1>3, <2>3, PromiseState
  <2> QED
    BY <1>5, <2>1, <2>2, <2>3
<1>8. UsableMap' = [l \in SessionIds |-> IF l \in ended THEN {} ELSE UsableMap[l]]
  BY <1>7 DEF UsableMap
<1>9. Promise!Close(ended)
  BY <1>2, <1>6, <1>8 DEF Promise!Close, Opened, UsableMap, UsableOf, Rotating
<1> QED
  BY <1>9 DEF Promise!Next

\* A refresh revokes the one usable session of its login.
LEMMA TakeStep ==
    ASSUME IInv, Shrinks, Starts, NEW t \in Threads, NEW s0 \in SessionIds,
           RevokeForRefresh(t), Presents(t, s0), Usable(Found(t)), Replaces(t, s0)'
    PROVE  Promise!Next
<1>1. TypeOK /\ ThreadsInv /\ TokensInv /\ LineageInv /\ OneUsablePerLogin
  BY DEF IInv
<1>2. /\ \A s : Born(s)' <=> Born(s)
      /\ \A s : LoginOf(s)' = LoginOf(s)
  BY DEF Shrinks, Born, LoginOf
<1>3. Opened' = Opened
  BY <1>2 DEF Opened
<1>4. PICK i0 \in Instances : i0 = InstanceOf[t]
  BY InstanceAssumption
<1>5. Born(s0) /\ Usable(store[i0][s0]) /\ token[t] # NoToken /\ token[t].jti = s0
  BY <1>1, <1>4 DEF TokensInv, Presents, Found
<1>6. PICK l \in SessionIds : l = LoginOf(s0)
  BY <1>1, <1>5 DEF TypeOK, Lineage, Born, LoginOf
<1>7. s0 \in UsableOf(l) /\ UsableOf(l) # {}
  BY <1>5, <1>6 DEF UsableOf
<1>8. step[t] = "revoke" /\ step'[t] = "issue"
  BY DEF RevokeForRefresh, Replaces, At
<1>9. RevokeFound(t) /\ UNCHANGED token
  <2>1. ~ (Finish(t))
    BY <1>1, <1>8 DEF Finish, Goto, TypeOK
  <2> QED
    BY <2>1 DEF RevokeForRefresh
<1>10. \A i \in Instances : ~ Usable(store'[i][s0])
  BY <1>1, <1>4, <1>5, <1>9, RevokeFoundStore DEF OneUsablePerLogin
<1>11. \A k \in SessionIds : UsableOf(k)' \subseteq UsableOf(k)
  BY <1>2 DEF Shrinks, UsableOf, Usable
<1>12. UsableOf(l)' = {}
  <2>1. s0 \notin UsableOf(l)'
    BY <1>10 DEF UsableOf, Usable
  <2> QED
    BY <1>7, <1>11, <2>1, PromiseState
<1>13. \A k \in SessionIds : k # l => UsableOf(k)' = UsableOf(k)
  <2>1. \A i \in Instances, s \in SessionIds : s # s0 => store'[i][s] = store[i][s]
    BY <1>1, <1>4, <1>5, <1>9 DEF RevokeFound, TypeOK
  <2>2. \A k \in SessionIds : k # l => s0 \notin UsableOf(k) /\ s0 \notin UsableOf(k)'
    BY <1>2, <1>6 DEF UsableOf
  <2>3. \A k, s \in SessionIds : s # s0 => (s \in UsableOf(k)' <=> s \in UsableOf(k))
    BY <1>2, <2>1 DEF UsableOf, Usable
  <2>4. \A k \in SessionIds : UsableOf(k) \subseteq SessionIds /\ UsableOf(k)' \subseteq SessionIds
    BY DEF UsableOf
  <2> QED
    BY <2>2, <2>3, <2>4
<1>14. UsableMap' = [UsableMap EXCEPT ![l] = {}]
  BY <1>12, <1>13 DEF UsableMap
<1>15. Rotating' = Rotating \union {l}
  <2>1. \A v \in Threads : step'[v] = IF v = t THEN "issue" ELSE step[v]
    <3>1. Goto(t, "issue")
      BY <1>1, <1>8 DEF RevokeForRefresh, Finish, Goto, TypeOK
    <3> QED
      BY <1>1, <3>1 DEF Goto, TypeOK
  <2>2. \A v \in Threads, s \in SessionIds :
           Replaces(v, s)' <=> Replaces(v, s) \/ (v = t /\ s = s0)
    BY <1>5, <1>8, <1>9, <2>1 DEF Replaces, At, Presents
  <2> QED
    BY <1>2, <1>6, <2>2 DEF Rotating
<1>16. Promise!Take(l)
  BY <1>3, <1>7, <1>14, <1>15 DEF Promise!Take, Opened, UsableMap, UsableOf, Rotating
<1> QED
  BY <1>16 DEF Promise!Next

\* A login opens a chain; a refresh gives its chain the next session.
LEMMA IssueRefines ==
    ASSUME IInv, NEW t \in Threads, NEW n \in SessionIds, IssueTokenPair(t, n)
    PROVE  Promise!Next
<1>1. TypeOK /\ ThreadsInv /\ TokensInv /\ StoreInv /\ LineageInv /\ ChainInv
  BY DEF IInv
<1>2. IInv'
  BY IssueTokenPairStep
<1>3. ~ Born(n) /\ n # NoSession
  BY NullAssumption DEF IssueTokenPair, Born
<1>4. PICK anc \in Lineage : anc = lineage'[n] /\ lineage'[n] = Ancestry(t, n)
  <2>1. lineage'[n] = Ancestry(t, n)
    BY <1>1 DEF IssueTokenPair, TypeOK
  <2>2. Ancestry(t, n) \in Lineage
    <3>1. CASE token[t] = NoToken
      BY <3>1 DEF Ancestry, Lineage
    <3>2. CASE token[t] # NoToken
      <4>1. token[t].jti \in SessionIds /\ lineage[token[t].jti] \in Lineage
        BY <1>1, <3>2 DEF TypeOK, Token, TokensInv, Born
      <4> QED
        BY <3>2, <4>1 DEF Ancestry, Lineage
    <3> QED
      BY <3>1, <3>2
  <2> QED
    BY <2>1, <2>2
<1>5. PICK l \in SessionIds : l = anc.login /\ l = LoginOf(n)'
  BY <1>4 DEF Lineage, LoginOf
<1>6. \A s \in SessionIds : s # n => (Born(s)' <=> Born(s)) /\ LoginOf(s)' = LoginOf(s)
  BY <1>1 DEF IssueTokenPair, TypeOK, Born, LoginOf
<1>7. Born(n)'
  BY <1>4, NullAssumption DEF Born
<1>8. \A s \in SessionIds : Born(s) => s # n /\ LoginOf(s) # n
  BY <1>1, <1>3 DEF LineageInv
<1>9. PICK i0 \in Instances : i0 = InstanceOf[t]
  BY InstanceAssumption
<1>10. /\ Usable(store'[i0][n])
       /\ \A i \in Instances, s \in SessionIds : s # n => store'[i][s] = store[i][s]
  <2>1. PICK rec : rec = [user_id |-> user[t], expires_at |-> now + Lifetime, revoked |-> FALSE]
    OBVIOUS
  <2>2. user[t] \in Users /\ now + Lifetime \in Nat
    BY <1>1, NullAssumption, TimeAssumption DEF IssueTokenPair, At, ThreadsInv, TypeOK
  <2>3. rec \in RefreshSession /\ rec # NoSession /\ ~ rec.revoked
    <3>1. rec \in RefreshSession /\ ~ rec.revoked
      BY <2>1, <2>2 DEF RefreshSession
    <3> QED
      BY <3>1, NullAssumption
  <2>4. store' = [store EXCEPT ![i0] = [store[i0] EXCEPT ![n] = rec]]
    BY <1>1, <1>9, <2>1 DEF IssueTokenPair, TypeOK
  <2> QED
    BY <1>1, <2>3, <2>4 DEF TypeOK, Usable
<1>11. n \in UsableOf(l)'
  BY <1>5, <1>7, <1>9, <1>10 DEF UsableOf, Usable
<1>12. UsableOf(l)' = {n}
  <2>1. \A s, r \in UsableOf(l)' : s = r
    BY <1>2 DEF IInv, OneUsablePerLogin, UsableOf
  <2> QED
    BY <1>11, <2>1
<1>13. \A k \in SessionIds : k # l => UsableOf(k)' = UsableOf(k)
  <2>1. SUFFICES ASSUME NEW k \in SessionIds, k # l PROVE UsableOf(k)' = UsableOf(k)
    OBVIOUS
  <2>2. n \notin UsableOf(k)' /\ n \notin UsableOf(k)
    BY <1>3, <1>5, <2>1 DEF UsableOf
  <2>3. \A s \in SessionIds : s # n => (s \in UsableOf(k)' <=> s \in UsableOf(k))
    BY <1>6, <1>10 DEF UsableOf, Usable
  <2>4. UsableOf(k) \subseteq SessionIds /\ UsableOf(k)' \subseteq SessionIds
    BY DEF UsableOf
  <2> QED
    BY <2>2, <2>3, <2>4
<1>14. UsableMap' = [UsableMap EXCEPT ![l] = {n}]
  BY <1>12, <1>13 DEF UsableMap
<1>15. /\ step[t] = "issue" /\ step'[t] = "reply"
       /\ \A v \in Threads \ {t} : step'[v] = step[v] /\ token'[v] = token[v]
  BY <1>1 DEF IssueTokenPair, At, Goto, TypeOK
<1>16. \A v \in Threads, s \in SessionIds : Replaces(v, s)' <=> Replaces(v, s) /\ v # t
  BY <1>15 DEF Replaces, At, Presents
<1>17. \A v \in Threads, s \in SessionIds : Replaces(v, s) => Born(s)
  BY <1>1 DEF Replaces, Presents, TokensInv
<1>18. CASE token[t] = NoToken
  <2>1. l = n
    <3>1. Ancestry(t, n) = [login |-> n, parent |-> NoSession]
      BY <1>18 DEF Ancestry
    <3>2. anc = Ancestry(t, n) /\ l = anc.login
      BY <1>4, <1>5
    <3> QED
      BY <3>1, <3>2
  <2>2. Opened' = Opened \union {n} /\ n \notin Opened
    BY <1>3, <1>5, <1>6, <1>7, <2>1 DEF Opened
  <2>3. \A v \in Threads, s \in SessionIds : Replaces(v, s)' <=> Replaces(v, s)
    BY <1>16, <1>18 DEF Replaces, Presents
  <2>4. Rotating' = Rotating
    <3>1. \A v \in Threads, s \in SessionIds :
             Replaces(v, s) => LoginOf(s)' = LoginOf(s)
      BY <1>6, <1>8, <1>17
    <3> QED
      BY <2>3, <3>1 DEF Rotating
  <2>5. Promise!Open(n)
    BY <1>14, <2>1, <2>2, <2>4 DEF Promise!Open, Opened, UsableMap, UsableOf, Rotating
  <2> QED
    BY <2>5 DEF Promise!Next
<1>19. CASE token[t] # NoToken
  <2>1. PICK p \in SessionIds : p = token[t].jti /\ Born(p) /\ Replaces(t, p)
    BY <1>1, <1>15, <1>19 DEF TypeOK, Token, TokensInv, Replaces, Presents, At
  <2>2. l = LoginOf(p) /\ l # n
    BY <1>4, <1>5, <1>8, <1>19, <2>1 DEF Ancestry, LoginOf
  <2>3. Opened' = Opened
    <3>1. n \notin Opened /\ n \notin Opened'
      BY <1>3, <1>5, <2>2 DEF Opened
    <3>2. \A s \in SessionIds : s # n => (s \in Opened' <=> s \in Opened)
      BY <1>6 DEF Opened
    <3> QED
      BY <3>1, <3>2 DEF Opened
  <2>4. l \in Rotating
    BY <2>1, <2>2 DEF Rotating
  <2>5. \A v \in Threads, s \in SessionIds :
           Replaces(v, s) /\ LoginOf(s) = l => v = t
    BY <1>1, <2>1, <2>2 DEF ChainInv
  <2>6. \A s \in SessionIds : Replaces(t, s) => s = p
    BY <2>1 DEF Replaces, Presents
  <2>7. \A v \in Threads, s \in SessionIds :
           Replaces(v, s) => LoginOf(s)' = LoginOf(s)
    BY <1>6, <1>8, <1>17
  <2>8. Rotating' = Rotating \ {l}
    <3>1. \A k \in SessionIds : k \in Rotating' <=>
             \E v \in Threads, s \in SessionIds : v # t /\ Replaces(v, s) /\ LoginOf(s) = k
      BY <1>16, <2>7 DEF Rotating
    <3>2. \A k \in SessionIds : k \in Rotating /\ k # l <=>
             \E v \in Threads, s \in SessionIds : v # t /\ Replaces(v, s) /\ LoginOf(s) = k
      BY <2>2, <2>5, <2>6 DEF Rotating
    <3>3. Rotating \subseteq SessionIds /\ Rotating' \subseteq SessionIds
      BY DEF Rotating
    <3> QED
      BY <3>1, <3>2, <3>3
  <2>9. Promise!Give(l)
    BY <1>14, <2>3, <2>4, <2>8 DEF Promise!Give, Opened, UsableMap, UsableOf, Rotating
  <2> QED
    BY <2>9 DEF Promise!Next
<1> QED
  BY <1>18, <1>19

LEMMA StepRefines ==
    ASSUME IInv, [Next]_vars
    PROVE  Promise!Next
<1>1. CASE Shrinks /\ Starts
  <2>1. CASE \A t \in Threads, s \in SessionIds : Replaces(t, s)' => Replaces(t, s)
    BY <1>1, <2>1, CloseStep
  <2>2. ASSUME NEW t \in Threads, NEW s \in SessionIds, Replaces(t, s)', ~ Replaces(t, s)
        PROVE  Promise!Next
    BY <1>1, <2>2, TakeStep DEF Starts
  <2> QED
    BY <2>1, <2>2
<1>2. ASSUME NEW t \in Threads, NEW n \in SessionIds, IssueTokenPair(t, n)
      PROVE  Promise!Next
  BY <1>2, IssueRefines
<1> QED
  BY <1>1, <1>2, OtherSteps

\* The sessions of the service implement RotationPromise.
THEOREM SessionsImplementPromise == Spec => RefinesPromise
<1>1. Init => Promise!Init
  BY DEF Init, Promise!Init, Born, Usable, Replaces, At
<1>2. IInv /\ [Next]_vars => [Promise!Next]_(Promise!vars)
  BY StepRefines
<1> QED
  BY <1>1, <1>2, Invariance, PTL DEF Spec, RefinesPromise, Promise!Spec

=============================================================================
