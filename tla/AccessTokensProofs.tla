------------------------ MODULE AccessTokensProofs ------------------------
(***************************************************************************)
(* The properties of AccessTokens for any number of accounts, instances    *)
(* and requests, any lifetimes, any skew and any length of a second.       *)
(***************************************************************************)
EXTENDS AccessTokens, TLAPS

\* What truncation to whole seconds does to a time.
LEMMA TruncatedBounds ==
    ASSUME NEW time \in Nat
    PROVE  /\ Truncated(time) \in Nat
           /\ Truncated(time) <= time
           /\ time < Truncated(time) + Second
<1>1. Second \in Nat /\ Second > 0
  BY TimeAssumption
<1>2. time % Second \in 0 .. Second - 1
  BY <1>1
<1>3. time % Second <= time
  <2> DEFINE q == time \div Second
  <2>1. time = Second * q + (time % Second) /\ q \in Int
    BY <1>1
  <2>2. q >= 0
    BY <1>1
  <2>3. Second * q >= 0
    BY <1>1, <2>1, <2>2
  <2> QED
    BY <1>1, <1>2, <2>1, <2>3
<1> QED
  BY <1>1, <1>2, <1>3 DEF Truncated

\* A token is minted with times that relate as Sound says.
LEMMA EncodedSound ==
    ASSUME TypeOK, NEW i \in Instances, NEW u \in Users,
           NEW type \in {"access", "refresh"}, NEW lifetime \in Nat,
           lifetime = IF type = "access" THEN AccessLifetime ELSE RefreshLifetime
    PROVE  /\ Encoded(u, type, Clock(i), lifetime) \in Token
           /\ Sound(Encoded(u, type, Clock(i), lifetime))
<1>1. Skew[i] \in 0 .. MaxSkew /\ now \in Nat
  BY TimeAssumption DEF TypeOK
<1> DEFINE time == Clock(i)
<1>2. time \in Nat /\ now <= time /\ time <= now + MaxSkew
  BY <1>1, TimeAssumption DEF Clock
<1>3. account[u].role \in UserRole
  BY DEF TypeOK, Account
<1> HIDE DEF time
<1>4. /\ Truncated(time) \in Nat /\ Truncated(time) <= time
      /\ Truncated(time + lifetime) \in Nat
      /\ Truncated(time + lifetime) <= time + lifetime
      /\ time + lifetime < Truncated(time + lifetime) + Second
  BY <1>2, TruncatedBounds
<1>5. Encoded(u, type, time, lifetime) \in Token
  BY <1>1, <1>2, <1>3, <1>4 DEF Encoded, Token
<1>6. Sound(Encoded(u, type, time, lifetime))
  <2> DEFINE tok == Encoded(u, type, time, lifetime)
  <2>1. /\ tok.minted = now /\ tok.due = time + lifetime /\ tok.iat = Truncated(time)
        /\ tok.exp = Truncated(time + lifetime) /\ tok.type = type
    BY DEF Encoded
  <2>2. Lifetime(tok) = lifetime
    BY <2>1 DEF Lifetime
  <2> HIDE DEF tok
  <2>3. Sound(tok)
    BY <1>1, <1>2, <1>4, <2>1, <2>2, TimeAssumption DEF Sound
  <2> QED
    BY <2>3 DEF tok
<1> QED
  BY <1>5, <1>6 DEF time

\* decode_token refuses no fresh access token and accepts only current ones.
LEMMA Accepted ==
    ASSUME TypeOK, NEW tok \in Token, Sound(tok), NEW i \in Instances
    PROVE  /\ Fresh(tok, now) => Accepts(tok, "access", Clock(i))
           /\ Accepts(tok, "access", Clock(i)) => Current(tok, now)
<1>1. Skew[i] \in 0 .. MaxSkew /\ now \in Nat /\ MaxSkew \in Nat /\ Second \in Nat
  BY TimeAssumption DEF TypeOK
<1>2. /\ tok.iat \in Nat /\ tok.exp \in Nat /\ tok.minted \in Nat /\ tok.due \in Nat
      /\ tok.type \in {"access", "refresh"} /\ Lifetime(tok) \in Nat
  BY TimeAssumption DEF Token, Lifetime
<1> QED
  BY <1>1, <1>2 DEF Sound, Lifetime, Fresh, Accepts, Current, Clock

-----------------------------------------------------------------------------
LEMMA InitIInv == Init => IInv
<1> SUFFICES ASSUME Init PROVE IInv
  OBVIOUS
<1>1. TypeOK
  BY DEF Init, TypeOK, Account, UserRole
<1> QED
  BY <1>1 DEF Init, IInv, RequestInv

LEMMA IssueStep ==
    ASSUME IInv, NEW i \in Instances, NEW u \in Users, Issue(i, u)
    PROVE  IInv'
<1> DEFINE a == Encoded(u, "access", Clock(i), AccessLifetime)
           b == Encoded(u, "refresh", Clock(i), RefreshLifetime)
<1>1. TypeOK /\ \A tok \in tokens : Sound(tok)
  BY DEF IInv
<1>2. a \in Token /\ Sound(a) /\ b \in Token /\ Sound(b)
  BY <1>1, EncodedSound, TimeAssumption
<1>3. tokens' = tokens \union {a, b} /\ UNCHANGED <<account, now, step, token, allowed, began, seen>>
  BY DEF Issue
<1> HIDE DEF a, b
<1>4. TypeOK' /\ \A tok \in tokens' : Sound(tok)
  BY <1>1, <1>2, <1>3 DEF TypeOK
<1>5. ASSUME NEW r \in Requests PROVE RequestInv(r)'
  BY <1>3 DEF IInv, RequestInv
<1> QED
  BY <1>4, <1>5 DEF IInv, Sound, Lifetime

LEMMA BeginStep ==
    ASSUME IInv, NEW r \in Requests, NEW i \in Instances, NEW tok \in tokens,
           NEW roles \in SUBSET UserRole, Begin(r, i, tok, roles)
    PROVE  IInv'
<1>1. TypeOK /\ tok \in Token /\ Sound(tok)
  BY DEF IInv, TypeOK
<1>2. account[tok.sub] \in Account
  BY <1>1 DEF TypeOK, Token
<1>3. TypeOK'
  BY <1>1, <1>2 DEF Begin, TypeOK, Answers
<1>4. RequestInv(r)'
  <2>1. /\ token'[r] = tok /\ began'[r] = now /\ seen'[r] = {account[tok.sub]}
        /\ step'[r] = IF Accepts(tok, "access", Clock(i)) THEN "read" ELSE "unauthorized"
        /\ UNCHANGED <<account, tokens, now>>
    BY <1>1 DEF Begin, TypeOK
  <2>2. CASE Accepts(tok, "access", Clock(i))
    <3>1. step'[r] = "read" /\ Current(tok, now)
      BY <1>1, <2>1, <2>2, Accepted
    <3> QED
      BY <2>1, <3>1 DEF RequestInv, Current
  <2>3. CASE ~ Accepts(tok, "access", Clock(i))
    <3>1. step'[r] = "unauthorized" /\ ~ Fresh(tok, now)
      BY <1>1, <2>1, <2>3, Accepted
    <3> QED
      BY <2>1, <3>1 DEF RequestInv, Fresh
  <2> QED
    BY <2>2, <2>3
<1>5. ASSUME NEW q \in Requests, q # r PROVE RequestInv(q)'
  <2>1. /\ token'[q] = token[q] /\ began'[q] = began[q] /\ seen'[q] = seen[q]
        /\ step'[q] = step[q] /\ allowed'[q] = allowed[q] /\ UNCHANGED <<account, tokens>>
    BY <1>1, <1>5 DEF Begin, TypeOK
  <2> QED
    BY <2>1 DEF IInv, RequestInv, Current, Fresh
<1>6. \A t \in tokens' : Sound(t)'
  BY DEF Begin, IInv, Sound, Lifetime
<1> QED
  BY <1>3, <1>4, <1>5, <1>6 DEF IInv

LEMMA ReadUserStep ==
    ASSUME IInv, NEW r \in Requests, ReadUser(r)
    PROVE  IInv'
<1>1. TypeOK /\ RequestInv(r)
  BY DEF IInv
<1>2. step'[r] = Verdict(r) /\ Verdict(r) \in Answers
  BY <1>1 DEF ReadUser, TypeOK, Verdict, Answers
<1>3. TypeOK'
  BY <1>1, <1>2 DEF ReadUser, TypeOK
<1>4. RequestInv(r)'
  <2>1. /\ token[r] \in tokens /\ account[token[r].sub] \in seen[r]
        /\ Current(token[r], began[r])
    BY <1>1 DEF ReadUser, RequestInv
  <2> QED
    BY <1>2, <2>1 DEF ReadUser, RequestInv, Verdict, Current
<1>5. ASSUME NEW q \in Requests, q # r PROVE RequestInv(q)'
  <2>1. step'[q] = step[q] /\ UNCHANGED <<account, tokens, token, allowed, began, seen>>
    BY <1>1, <1>5 DEF ReadUser, TypeOK
  <2> QED
    BY <2>1 DEF IInv, RequestInv, Current, Fresh
<1>6. \A t \in tokens' : Sound(t)'
  BY DEF ReadUser, IInv, Sound, Lifetime
<1> QED
  BY <1>3, <1>4, <1>5, <1>6 DEF IInv

LEMMA FinishStep ==
    ASSUME IInv, NEW r \in Requests, Finish(r)
    PROVE  IInv'
<1>1. TypeOK
  BY DEF IInv
<1>2. TypeOK'
  BY <1>1 DEF Finish, TypeOK
<1>3. RequestInv(r)'
  BY <1>1 DEF Finish, TypeOK, RequestInv
<1>4. ASSUME NEW q \in Requests, q # r PROVE RequestInv(q)'
  <2>1. /\ token'[q] = token[q] /\ began'[q] = began[q] /\ seen'[q] = seen[q]
        /\ step'[q] = step[q] /\ allowed'[q] = allowed[q] /\ UNCHANGED <<account, tokens>>
    BY <1>1, <1>4 DEF Finish, TypeOK
  <2> QED
    BY <2>1 DEF IInv, RequestInv, Current, Fresh
<1>5. \A t \in tokens' : Sound(t)'
  BY DEF Finish, IInv, Sound, Lifetime
<1> QED
  BY <1>2, <1>3, <1>4, <1>5 DEF IInv

LEMMA EditStep ==
    ASSUME IInv, NEW u \in Users, NEW a \in Account, Edit(u, a)
    PROVE  IInv'
<1>1. TypeOK /\ account' = [account EXCEPT ![u] = a]
  BY DEF IInv, Edit
<1>2. \A r \in Requests : seen'[r] = IF step[r] = "read" /\ token[r].sub = u
                                     THEN seen[r] \union {a} ELSE seen[r]
  BY DEF Edit
<1>3. TypeOK'
  BY <1>1 DEF Edit, TypeOK
<1>4. ASSUME NEW r \in Requests PROVE RequestInv(r)'
  <2>1. UNCHANGED <<tokens, step, token, allowed, began>>
    BY DEF Edit
  <2>2. step[r] = "read" => account'[token[r].sub] \in seen'[r]
    <3> SUFFICES ASSUME step[r] = "read" PROVE account'[token[r].sub] \in seen'[r]
      OBVIOUS
    <3>1. token[r] \in Token /\ account[token[r].sub] \in seen[r]
      BY DEF IInv, RequestInv, TypeOK
    <3>2. token[r].sub \in Users
      BY <3>1 DEF Token
    <3> QED
      BY <1>1, <1>2, <3>1, <3>2 DEF TypeOK
  <2>3. seen[r] \subseteq seen'[r]
    BY <1>2
  <2> QED
    BY <2>1, <2>2, <2>3 DEF IInv, RequestInv, Current, Fresh
<1>5. \A t \in tokens' : Sound(t)'
  BY DEF Edit, IInv, Sound, Lifetime
<1> QED
  BY <1>3, <1>4, <1>5 DEF IInv

LEMMA NextIInv == IInv /\ [Next]_vars => IInv'
<1> SUFFICES ASSUME IInv, [Next]_vars PROVE IInv'
  OBVIOUS
<1>1. ASSUME UNCHANGED <<account, tokens, step, token, allowed, began, seen>>, now' \in Nat
      PROVE  IInv'
  <2>1. TypeOK'
    BY <1>1 DEF IInv, TypeOK
  <2>2. \A tok \in tokens' : Sound(tok)'
    BY <1>1 DEF IInv, Sound, Lifetime
  <2>3. \A r \in Requests : RequestInv(r)'
    BY <1>1 DEF IInv, RequestInv, Current, Fresh
  <2> QED
    BY <2>1, <2>2, <2>3 DEF IInv
<1>2. CASE Tick
  BY <1>1, <1>2 DEF Tick, IInv, TypeOK
<1>3. CASE UNCHANGED vars
  BY <1>1, <1>3 DEF vars, IInv, TypeOK
<1> QED
  BY <1>2, <1>3, IssueStep, BeginStep, ReadUserStep, FinishStep, EditStep DEF Next

\* The invariant holds in every reachable state.
THEOREM Invariance == Spec => []IInv
  BY InitIInv, NextIInv, PTL DEF Spec

\* The stored account decides whether a request is admitted.
THEOREM AccountAlwaysDecides == Spec => []AccountDecides
<1>1. IInv => AccountDecides
  BY DEF IInv, RequestInv, AccountDecides
<1> QED
  BY <1>1, Invariance, PTL

\* No token is good for longer than its term, or than its session.
THEOREM TermsAlwaysEnd == Spec => []TermsEnd
<1>1. IInv => TermsEnd
  <2> SUFFICES ASSUME IInv PROVE TermsEnd
    OBVIOUS
  <2>1. ASSUME NEW tok \in tokens
        PROVE  /\ tok \in Token /\ Sound(tok)
               /\ tok.exp \in Nat /\ tok.due \in Nat /\ tok.minted \in Nat
    BY DEF IInv, TypeOK, Token
  <2>2. ASSUME NEW r \in Requests, step[r] \in {"read", "admitted", "forbidden"}
        PROVE  began[r] < token[r].minted + AccessLifetime + MaxSkew
    <3>1. token[r] \in tokens /\ Current(token[r], began[r]) /\ began[r] \in Nat
      BY <2>2 DEF IInv, RequestInv, TypeOK
    <3> QED
      BY <2>1, <3>1, TimeAssumption DEF Current, Sound, Lifetime
  <2>3. ASSUME NEW tok \in tokens, NEW i \in Instances, Accepts(tok, "refresh", Clock(i))
        PROVE  Clock(i) < tok.due
    <3>1. Clock(i) \in Nat
      BY TimeAssumption DEF IInv, TypeOK, Clock
    <3> QED
      BY <2>1, <2>3, <3>1 DEF Accepts, Sound
  <2> QED
    BY <2>2, <2>3 DEF TermsEnd
<1> QED
  BY <1>1, Invariance, PTL

\* A fresh access token of an active account is always accepted.
THEOREM FreshTokensServed == Spec => []FreshTokenServed
<1>1. IInv => FreshTokenServed
  BY DEF IInv, RequestInv, FreshTokenServed
<1> QED
  BY <1>1, Invariance, PTL
=============================================================================
