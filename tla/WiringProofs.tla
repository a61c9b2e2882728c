---------------------------- MODULE WiringProofs ----------------------------
(***************************************************************************)
(* What is found of what was written, for any number of processes, starts  *)
(* and ids.  A process in memory writes only to objects of its own number, *)
(* which no other process ever has.                                        *)
(***************************************************************************)
EXTENDS Wiring, TLAPS

\* Where the objects of an application are.
LEMMA SlotsWhere ==
    ASSUME NEW b \in Backend, NEW n \in 1 .. MaxStarts
    PROVE  /\ Slots(b, n) \in [Slot -> Store]
           /\ Slots(b, n)["session"] = <<n, "session">>
           /\ Slots(b, n)["job_file"] = Slots(b, n)["file"]
           /\ \A k \in Kind \ {"session"} :
                 Slots(b, n)[k] = IF b = "memory" THEN <<n, k>> ELSE <<0, k>>
<1>1. 0 \in 0 .. MaxStarts /\ n \in 0 .. MaxStarts
  BY BoundAssumption
<1>2. \A slot \in Slot :
         Slots(b, n)[slot] = IF slot = "session" THEN <<n, slot>>
                             ELSE Create(b, n, IF slot = "job_file" THEN "file" ELSE slot)
  BY DEF Slots
<1>3. \A k \in Kind : Create(b, n, k) \in Store
  BY <1>1 DEF Create, Store
<1>4. Kind \subseteq Slot /\ "job_file" \in Slot /\ "session" \in Kind /\ "file" \in Kind
      /\ "job_file" \notin Kind /\ \A slot \in Slot : slot = "job_file" \/ slot \in Kind
  BY DEF Slot, Kind
<1>5. <<n, "session">> \in Store
  BY <1>1, <1>4 DEF Store
<1>6. Slots(b, n)["session"] = <<n, "session">>
  BY <1>2, <1>4
<1>7. Slots(b, n)["job_file"] = Create(b, n, "file") /\ Slots(b, n)["file"] = Create(b, n, "file")
  BY <1>2, <1>4
<1>8. \A k \in Kind \ {"session"} : Slots(b, n)[k] = Create(b, n, k)
  BY <1>2, <1>4
<1>9. ASSUME NEW slot \in Slot PROVE Slots(b, n)[slot] \in Store
  <2>1. CASE slot = "job_file"
    BY <1>3, <1>4, <1>7, <2>1
  <2>2. CASE slot = "session"
    BY <1>5, <1>6, <2>2
  <2>3. CASE slot \in Kind \ {"session"}
    BY <1>3, <1>8, <2>3
  <2> QED
    BY <1>4, <2>1, <2>2, <2>3
<1>10. Slots(b, n) \in [Slot -> Store]
  <2>1. Slots(b, n) = [slot \in Slot |-> Slots(b, n)[slot]]
    BY DEF Slots
  <2> QED
    BY <1>9, <2>1
<1> QED
  BY <1>6, <1>7, <1>8, <1>10 DEF Create

\* The running applications, spelled out.
LEMMA Running ==
    ASSUME IInv, NEW p \in Processes, Runs(p)
    PROVE  /\ app[p] \in App
           /\ app[p].number \in 1 .. MaxStarts /\ app[p].number <= starts
           /\ app[p].backend \in Backend
           /\ app[p].slots = Slots(app[p].backend, app[p].number)
<1>1. /\ app[p] \in App /\ app[p].number <= starts
      /\ app[p].slots = Slots(app[p].backend, app[p].number)
  BY DEF IInv, TypeOK, AppsInv, Runs
<1>2. app[p].number \in 1 .. MaxStarts /\ app[p].backend \in Backend
  BY <1>1 DEF App
<1> QED
  BY <1>1, <1>2

\* The store behind a kind of things.
LEMMA StoreOf ==
    ASSUME IInv, NEW p \in Processes, Runs(p), NEW k \in Kind
    PROVE  /\ app[p].slots[k] \in Store
           /\ \/ /\ app[p].slots[k] = <<app[p].number, k>>
                 /\ k = "session" \/ app[p].backend = "memory"
              \/ /\ app[p].slots[k] = <<0, k>>
                 /\ k # "session" /\ app[p].backend = "firestore"
<1> DEFINE b == app[p].backend n == app[p].number
<1>1. b \in Backend /\ n \in 1 .. MaxStarts /\ app[p].slots = Slots(b, n)
  BY Running
<1> HIDE DEF b, n
<1>2. k \in Slot
  BY DEF Slot
<1>3. b = "memory" \/ (b = "firestore" /\ b # "memory")
  <2>1. b \in {"firestore", "memory"}
    BY <1>1 DEF Backend
  <2> QED
    BY <2>1
<1>4. Slots(b, n)[k] \in Store
  BY <1>1, <1>2, SlotsWhere
<1>5. CASE k = "session"
  BY <1>1, <1>4, <1>5, SlotsWhere DEF b, n
<1>6. CASE k # "session"
  <2>1. Slots(b, n)[k] = IF b = "memory" THEN <<n, k>> ELSE <<0, k>>
    BY <1>1, <1>6, SlotsWhere
  <2>2. CASE b = "memory"
    BY <1>1, <1>4, <2>1, <2>2 DEF b, n
  <2>3. CASE b = "firestore" /\ b # "memory"
    BY <1>1, <1>4, <1>6, <2>1, <2>3 DEF b, n
  <2> QED
    BY <1>3, <2>2, <2>3
<1> QED
  BY <1>5, <1>6

LEMMA InitIInv == Init => IInv
<1> SUFFICES ASSUME Init PROVE IInv
  OBVIOUS
<1>1. TypeOK
  BY BoundAssumption DEF Init, TypeOK
<1>2. AppsInv /\ KeptInv
  BY DEF Init, AppsInv, KeptInv, Runs
<1>3. \A n \in 0 .. MaxStarts : <<n, "session">> \in Store
  BY DEF Store, Kind
<1>4. SessionsInv
  BY <1>3 DEF Init, SessionsInv
<1> QED
  BY <1>1, <1>2, <1>4 DEF IInv

-----------------------------------------------------------------------------
LEMMA StartStep ==
    ASSUME IInv, NEW p \in Processes, NEW b \in Backend, Start(p, b)
    PROVE  IInv'
<1> DEFINE n == starts + 1
<1>1. starts \in Nat /\ n \in 1 .. MaxStarts /\ starts' = n
  BY BoundAssumption DEF IInv, TypeOK, Start
<1>2. CreateApp(b, n) \in App
  BY <1>1, SlotsWhere DEF CreateApp, App
<1>3. /\ app'[p] = CreateApp(b, n)
      /\ app'[p].number = n /\ app'[p].backend = b /\ app'[p].slots = Slots(b, n)
      /\ \A q \in Processes \ {p} : app'[q] = app[q]
      /\ UNCHANGED <<holds, kept>>
  BY <1>1 DEF IInv, TypeOK, Start, CreateApp
<1>4. TypeOK'
  BY <1>1, <1>2, <1>3 DEF IInv, TypeOK, Start
<1>5. AppsInv'
  <2>1. \A q \in Processes \ {p} : Runs(q) => app[q].number \in Nat /\ app[q].number <= starts
    BY <1>1, Running
  <2> QED
    BY <1>1, <1>3, <2>1 DEF IInv, AppsInv, Runs
<1>6. KeptInv'
  <2>1. \A k \in kept : k.scope \in Nat /\ k.scope <= starts
    <3>1. \A k \in kept : k \in Kept /\ k.scope <= starts
      BY DEF IInv, TypeOK, KeptInv
    <3> QED
      BY <3>1, BoundAssumption DEF Kept
  <2>2. ASSUME NEW k \in kept, NEW q \in Processes, Runs(q)', k.scope = app'[q].number
        PROVE  k.id \in holds[app'[q].slots[k.kind]]
    <3>1. q # p
      BY <1>1, <1>3, <2>1, <2>2
    <3>2. app'[q] = app[q] /\ Runs(q)
      BY <1>3, <2>2, <3>1 DEF Runs
    <3> QED
      BY <2>2, <3>2 DEF IInv, KeptInv, Finds
  <2>3. \A k \in kept : k.scope <= starts'
    BY <1>1, <2>1
  <2> QED
    BY <1>3, <2>2, <2>3 DEF IInv, KeptInv, Finds
<1>7. SessionsInv'
  BY <1>3 DEF IInv, SessionsInv
<1> QED
  BY <1>4, <1>5, <1>6, <1>7 DEF IInv

LEMMA StopStep ==
    ASSUME IInv, NEW p \in Processes, Stop(p)
    PROVE  IInv'
<1> DEFINE n == app[p].number
<1>1. n \in 1 .. MaxStarts
  BY Running DEF Stop
<1>2. /\ app' = [app EXCEPT ![p] = NoApp]
      /\ \A s \in Store : holds'[s] = IF s[1] = n THEN {} ELSE holds[s]
      /\ UNCHANGED <<starts, kept>>
  BY DEF Stop
<1>3. TypeOK'
  <2>1. holds' \in [Store -> SUBSET Ids]
    BY DEF IInv, TypeOK, Stop
  <2> QED
    BY <1>2, <2>1 DEF IInv, TypeOK
<1>4. \A q \in Processes : Runs(q)' => q # p /\ Runs(q) /\ app'[q] = app[q]
  BY <1>2 DEF IInv, TypeOK, Runs
<1>5. AppsInv'
  BY <1>2, <1>4 DEF IInv, AppsInv, Runs
<1>6. ASSUME NEW s \in Store, s[1] # n PROVE holds'[s] = holds[s]
  BY <1>2, <1>6
<1>7. KeptInv'
  <2> SUFFICES ASSUME NEW k \in kept
               PROVE  /\ k.scope <= starts
                      /\ k.scope = 0 => k.kind # "session" /\ k.id \in holds'[<<0, k.kind>>]
                      /\ \A q \in Processes : Runs(q)' /\ k.scope = app'[q].number =>
                              k.id \in holds'[app'[q].slots[k.kind]]
    BY <1>2 DEF KeptInv, Finds
  <2>1. k.kind \in Kind
    BY DEF IInv, TypeOK, Kept
  <2>2. k.scope = 0 => k.kind # "session" /\ k.id \in holds'[<<0, k.kind>>]
    <3>1. <<0, k.kind>> \in Store
      BY <2>1, BoundAssumption DEF Store
    <3> QED
      BY <1>1, <1>6, <3>1 DEF IInv, KeptInv
  <2>3. ASSUME NEW q \in Processes, Runs(q)', k.scope = app'[q].number
        PROVE  k.id \in holds'[app'[q].slots[k.kind]]
    <3>1. q # p /\ Runs(q) /\ app'[q] = app[q] /\ k.id \in holds[app[q].slots[k.kind]]
      BY <1>4, <2>3 DEF IInv, KeptInv, Finds
    <3>2. app[q].number # n
      BY <3>1 DEF IInv, AppsInv, Stop
    <3>3. app[q].slots[k.kind] \in Store /\ app[q].slots[k.kind][1] # n
      BY <1>1, <2>1, <3>1, <3>2, StoreOf
    <3> QED
      BY <1>6, <3>1, <3>3
  <2>4. k.scope <= starts
    BY DEF IInv, KeptInv
  <2> QED
    BY <2>2, <2>3, <2>4
<1>8. SessionsInv'
  <2>1. \A m \in 0 .. MaxStarts : <<m, "session">> \in Store
    BY DEF Store, Kind
  <2> QED
    BY <1>2, <2>1 DEF IInv, SessionsInv
<1> QED
  BY <1>3, <1>5, <1>7, <1>8 DEF IInv

-----------------------------------------------------------------------------
(* The requests.                                                           *)

\* Nothing that was found is lost by a write.
LEMMA WriteStep ==
    ASSUME IInv, NEW p \in Processes, Runs(p), NEW id \in Ids,
           NEW kinds \in SUBSET Kind, Write(p, kinds, id), UNCHANGED <<app, starts>>
    PROVE  IInv'
<1> DEFINE Written(s) == \E k \in kinds : s = app[p].slots[k]
           noted == {[kind |-> k, id |-> id, scope |-> Scope(p, k)] : k \in kinds}
<1>1. /\ \A s \in Store : holds'[s] = IF Written(s) THEN holds[s] \union {id} ELSE holds[s]
      /\ kept' = kept \union noted
  BY DEF Write, Note
<1>2. /\ app[p].number \in 1 .. MaxStarts /\ app[p].number <= starts
      /\ app[p].backend \in Backend
  BY Running
<1>3. \A k \in kinds : Scope(p, k) \in 0 .. MaxStarts /\ Scope(p, k) <= starts
  BY <1>2, BoundAssumption DEF Scope, IInv, TypeOK
<1>4. TypeOK'
  <2>1. holds' \in [Store -> SUBSET Ids]
    BY DEF IInv, TypeOK, Write
  <2>2. noted \subseteq Kept
    BY <1>3 DEF Kept
  <2> HIDE DEF noted
  <2> QED
    BY <1>1, <2>1, <2>2 DEF IInv, TypeOK
<1>5. AppsInv'
  BY DEF IInv, AppsInv, Runs
<1>6. \A s \in Store : holds[s] \subseteq holds'[s]
  BY <1>1
<1>7. ASSUME NEW k \in kinds PROVE id \in holds'[app[p].slots[k]]
  <2>1. app[p].slots[k] \in Store
    BY StoreOf
  <2>2. Written(app[p].slots[k])
    OBVIOUS
  <2> HIDE DEF Written, noted
  <2>3. holds'[app[p].slots[k]] = holds[app[p].slots[k]] \union {id}
    BY <1>1, <2>1, <2>2
  <2> QED
    BY <2>3
<1>8. KeptInv'
  <2>1. ASSUME NEW k \in kept
        PROVE  /\ k.scope <= starts
               /\ k.scope = 0 => k.kind # "session" /\ k.id \in holds'[<<0, k.kind>>]
               /\ \A q \in Processes : Runs(q) /\ k.scope = app[q].number =>
                     k.id \in holds'[app[q].slots[k.kind]]
    <3>1. k.kind \in Kind /\ <<0, k.kind>> \in Store
      BY BoundAssumption DEF IInv, TypeOK, Kept, Store
    <3> QED
      BY <1>6, <3>1, StoreOf DEF IInv, KeptInv, Finds
  <2>2. ASSUME NEW k \in kinds
        PROVE  /\ Scope(p, k) <= starts
               /\ Scope(p, k) = 0 => k # "session" /\ id \in holds'[<<0, k>>]
               /\ \A q \in Processes : Runs(q) /\ Scope(p, k) = app[q].number =>
                     id \in holds'[app[q].slots[k]]
    <3>1. Scope(p, k) = 0 => k # "session" /\ app[p].slots[k] = <<0, k>>
      <4>1. k = "session" \/ app[p].backend # "firestore" => Scope(p, k) = app[p].number
        BY DEF Scope
      <4>2. app[p].number # 0
        BY <1>2
      <4> QED
        BY <4>1, <4>2, StoreOf
    <3>2. ASSUME NEW q \in Processes, Runs(q), Scope(p, k) = app[q].number PROVE q = p
      <4>1. app[q].number \in 1 .. MaxStarts
        BY <3>2, Running
      <4>2. Scope(p, k) = app[p].number
        BY <3>2, <4>1 DEF Scope
      <4> QED
        BY <3>2, <4>2 DEF IInv, AppsInv
    <3> QED
      BY <1>3, <1>7, <3>1, <3>2
  <2>3. ASSUME NEW k \in kept' \ kept
        PROVE  \E j \in kinds : k.kind = j /\ k.id = id /\ k.scope = Scope(p, j)
    BY <1>1
  <2>4. ASSUME NEW k \in kept'
        PROVE  /\ k.scope <= starts
               /\ k.scope = 0 => k.kind # "session" /\ k.id \in holds'[<<0, k.kind>>]
               /\ \A q \in Processes : Runs(q) /\ k.scope = app[q].number =>
                     k.id \in holds'[app[q].slots[k.kind]]
    BY <2>1, <2>2, <2>3
  <2> QED
    BY <2>4 DEF KeptInv, Runs, Finds
<1>9. SessionsInv'
  <2> SUFFICES ASSUME NEW n \in 0 .. MaxStarts, NEW a \in Ids, a \in holds'[<<n, "session">>]
               PROVE  [kind |-> "session", id |-> a, scope |-> n] \in kept'
    BY DEF SessionsInv
  <2>1. <<n, "session">> \in Store
    BY DEF Store, Kind
  <2>2. CASE a \in holds[<<n, "session">>]
    BY <1>1, <2>2 DEF IInv, SessionsInv
  <2>3. CASE a = id /\ Written(<<n, "session">>)
    <3>1. PICK k \in kinds : <<n, "session">> = app[p].slots[k]
      BY <2>3
    <3>2. k = "session" /\ n = app[p].number
      BY <3>1, StoreOf
    <3>3. Scope(p, k) = n
      BY <3>2 DEF Scope
    <3>4. [kind |-> k, id |-> id, scope |-> Scope(p, k)] \in noted
      OBVIOUS
    <3> QED
      BY <1>1, <2>3, <3>2, <3>3, <3>4
  <2>4. CASE ~ Written(<<n, "session">>)
    <3>1. holds'[<<n, "session">>] = holds[<<n, "session">>]
      BY <1>1, <2>1, <2>4
    <3> QED
      BY <2>2, <3>1
  <2>5. CASE Written(<<n, "session">>)
    <3>1. holds'[<<n, "session">>] = holds[<<n, "session">>] \union {id}
      BY <1>1, <2>1, <2>5
    <3> QED
      BY <2>2, <2>3, <2>5, <3>1
  <2> QED
    BY <2>4, <2>5
<1> QED
  BY <1>4, <1>5, <1>8, <1>9 DEF IInv

LEMMA NextIInv == IInv /\ [Next]_vars => IInv'
<1> SUFFICES ASSUME IInv, [Next]_vars PROVE IInv'
  OBVIOUS
<1>1. CASE UNCHANGED vars
  BY <1>1 DEF vars, IInv, TypeOK, AppsInv, KeptInv, SessionsInv, Runs, Finds
<1>2. ASSUME NEW p \in Processes, Request(p) PROVE IInv'
  <2>1. UNCHANGED <<app, starts>>
    BY <1>2 DEF Request
  <2>2. CASE UNCHANGED <<holds, kept>>
    BY <2>1, <2>2 DEF IInv, TypeOK, AppsInv, KeptInv, SessionsInv, Runs, Finds
  <2>3. ASSUME NEW id \in Ids, Runs(p),
               \/ Write(p, {"account"}, id) \/ Write(p, {"session"}, id)
               \/ Write(p, {"file"}, id) \/ Write(p, {"job", "task"}, id)
        PROVE  IInv'
    <3>1. {"account"} \in SUBSET Kind /\ {"session"} \in SUBSET Kind
          /\ {"file"} \in SUBSET Kind /\ {"job", "task"} \in SUBSET Kind
      BY DEF Kind
    <3> QED
      BY <2>1, <2>3, <3>1, WriteStep
  <2> QED
    BY <1>2, <2>2, <2>3 DEF Request, Register, Login, CreateUploadUrl, StorageEvent
<1> QED
  BY <1>1, <1>2, StartStep, StopStep DEF Next

\* The invariant holds in every reachable state.
THEOREM Invariance == Spec => []IInv
  BY InitIInv, NextIInv, PTL DEF Spec

\* What was written is found by those who ought to find it.
THEOREM WrittenIsAlwaysFound == Spec => []WrittenIsFound
<1>1. IInv => WrittenIsFound
  <2> SUFFICES ASSUME IInv, NEW p \in Processes, NEW k \in kept, Runs(p),
                      k.scope = app[p].number \/ (k.scope = 0 /\ app[p].backend = "firestore")
               PROVE  /\ Finds(p, k.kind, k.id)
                      /\ k.kind = "file" => Finds(p, "job_file", k.id)
    BY DEF WrittenIsFound
  <2>1. k.kind \in Kind
    BY DEF IInv, TypeOK, Kept
  <2>2. Finds(p, k.kind, k.id)
    <3>1. CASE k.scope = app[p].number
      BY <3>1 DEF IInv, KeptInv
    <3>2. CASE k.scope = 0 /\ app[p].backend = "firestore"
      <4>1. k.kind # "session" /\ k.id \in holds[<<0, k.kind>>]
        BY <3>2 DEF IInv, KeptInv
      <4>2. app[p].slots[k.kind] = <<0, k.kind>>
        BY <2>1, <3>2, <4>1, StoreOf
      <4> QED
        BY <4>1, <4>2 DEF Finds
    <3> QED
      BY <3>1, <3>2
  <2>3. app[p].slots["job_file"] = app[p].slots["file"]
    BY Running, SlotsWhere
  <2> QED
    BY <2>2, <2>3 DEF Finds
<1> QED
  BY <1>1, Invariance, PTL

\* Sessions are found where they were opened only.
THEOREM SessionsAreAlwaysLocal == Spec => []SessionsAreLocal
<1>1. IInv => SessionsAreLocal
  <2> SUFFICES ASSUME IInv, NEW p \in Processes, NEW a \in Ids, Runs(p), Finds(p, "session", a)
               PROVE  [kind |-> "session", id |-> a, scope |-> app[p].number] \in kept
    BY DEF SessionsAreLocal
  <2>1. app[p].number \in 0 .. MaxStarts
    BY Running
  <2>2. app[p].slots["session"] = <<app[p].number, "session">>
    BY Running, SlotsWhere
  <2> QED
    BY <2>1, <2>2 DEF Finds, IInv, SessionsInv
<1> QED
  BY <1>1, Invariance, PTL
=============================================================================
