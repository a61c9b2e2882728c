--------------------------- MODULE MCAuthSessions ---------------------------
(* AuthSessions with model values. *)
EXTENDS AuthSessions, TLC

CONSTANTS i1, i2, t1, t2, t3

\* Two threads in one process and a third in another.
TwoProcesses == (t1 :> i1) @@ (t2 :> i1) @@ (t3 :> i2)

OneProcess == (t1 :> i1) @@ (t2 :> i1)

\* Session ids, and the threads of one process, are interchangeable.
Symmetry == Permutations(SessionIds) \union Permutations({t1, t2})
=============================================================================
