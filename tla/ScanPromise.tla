---------------------------- MODULE ScanPromise ----------------------------
(***************************************************************************)
(* What the upload pipeline promises, without events, handlers, documents  *)
(* or queues: an accepted file whose upload is confirmed is scanned under  *)
(* exactly one task name, and is unless its owner deletes it first.  How   *)
(* often a task of that name is created is not part of the promise.        *)
(***************************************************************************)
CONSTANTS
    Files,
    Tasks    \* names of scan tasks

VARIABLES
    accepted,    \* files for which an upload was accepted
    confirmed,   \* files whose upload was confirmed
    withdrawn,   \* files their owners have deleted
    scans        \* the names of the scan tasks created for each file

vars == <<accepted, confirmed, withdrawn, scans>>

-----------------------------------------------------------------------------
Init ==
    /\ accepted = {}
    /\ confirmed = {}
    /\ withdrawn = {}
    /\ scans = [f \in Files |-> {}]

Accept(f) ==
    /\ f \notin accepted
    /\ accepted' = accepted \union {f}
    /\ UNCHANGED <<confirmed, withdrawn, scans>>

\* An upload is confirmed once, and never after the file is withdrawn.
Confirm(f) ==
    /\ f \in accepted \ (confirmed \union withdrawn)
    /\ confirmed' = confirmed \union {f}
    /\ UNCHANGED <<accepted, withdrawn, scans>>

\* Only a confirmed file is scanned, and only under one name.  A file withdrawn
\* after its confirmation may still be scanned, but need not be.
Schedule(f) ==
    /\ f \in confirmed
    /\ scans[f] = {}
    /\ \E t \in Tasks : scans' = [scans EXCEPT ![f] = {t}]
    /\ UNCHANGED <<accepted, confirmed, withdrawn>>

Withdraw(f) ==
    /\ f \in accepted \ withdrawn
    /\ withdrawn' = withdrawn \union {f}
    /\ UNCHANGED <<accepted, confirmed, scans>>

Next ==
    \E f \in Files : Accept(f) \/ Confirm(f) \/ Schedule(f) \/ Withdraw(f)

Spec == Init /\ [][Next]_vars

\* Every confirmed file is scanned in the end, or withdrawn.
Served == \A f \in Files : f \in confirmed ~> scans[f] # {} \/ f \in withdrawn

=============================================================================
