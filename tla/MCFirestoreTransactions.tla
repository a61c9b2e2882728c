----------------------- MODULE MCFirestoreTransactions -----------------------
(* Instances of FirestoreTransactions for TLC. *)
EXTENDS FirestoreTransactions

CONSTANTS t1, t2, t3, f1, a1, a2, u1, u2, e1, e2

\* One file under two owners: its own and the one of a key that does not match.
OneFileOperations ==
    {[type |-> "create", id |-> f1, owner_id |-> u1]} \union
    [type : {"delete_for_owner", "mark_uploaded"}, id : {f1}, owner_id : {u1, u2}]

\* Registrations for two addresses next to the calls on one file.
Registrations ==
    [type : {"create_user"}, id : {a1}, email : {e1}] \union
    [type : {"create_user"}, id : {a2}, email : {e1, e2}]

AllOperations == OneFileOperations \union Registrations
=============================================================================
