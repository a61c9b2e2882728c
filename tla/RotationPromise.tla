-------------------------- MODULE RotationPromise --------------------------
(***************************************************************************)
(* What refresh-token rotation promises.  A login starts a chain of        *)
(* sessions, of which at most one is usable at any time; a rotation takes  *)
(* the usable one away before it gives its successor; a chain that is      *)
(* closed (by a logout, a restart, or a rotation that failed half-way) has *)
(* no usable session ever again.                                           *)
(***************************************************************************)
CONSTANT Sessions   \* a login is named by its first session

VARIABLES
    opened,     \* logins that have taken place
    usable,     \* the usable sessions of each login
    rotating    \* logins whose session is being replaced

vars == <<opened, usable, rotating>>

-----------------------------------------------------------------------------
Init ==
    /\ opened = {}
    /\ usable = [l \in Sessions |-> {}]
    /\ rotating = {}

Open(l) ==
    /\ l \notin opened
    /\ opened' = opened \union {l}
    /\ usable' = [usable EXCEPT ![l] = {l}]
    /\ UNCHANGED rotating

Take(l) ==
    /\ usable[l] # {}
    /\ usable' = [usable EXCEPT ![l] = {}]
    /\ rotating' = rotating \union {l}
    /\ UNCHANGED opened

Give(l) ==
    /\ l \in rotating
    /\ rotating' = rotating \ {l}
    /\ \E s \in Sessions : usable' = [usable EXCEPT ![l] = {s}]
    /\ UNCHANGED opened

\* A restart closes several chains at once.
Close(ended) ==
    /\ usable' = [l \in Sessions |-> IF l \in ended THEN {} ELSE usable[l]]
    /\ rotating' = rotating \ ended
    /\ UNCHANGED opened

Next ==
    \/ \E l \in Sessions : Open(l) \/ Take(l) \/ Give(l)
    \/ \E ended \in SUBSET Sessions : Close(ended)

Spec == Init /\ [][Next]_vars

=============================================================================
