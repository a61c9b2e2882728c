--------------------------- MODULE MCScanPipeline ---------------------------
(* ScanPipeline with model values, and the constants that are not simple. *)
EXTENDS ScanPipeline, TLC

CONSTANTS quarantine, trusted, alice, bob, f1, f2, uploads

MCSegment == {Empty, quarantine, trusted, alice, bob, f1, f2}

\* "quarantine/", the default of QUARANTINE_PREFIX.
MCPrefix == <<quarantine, Empty>>

\* Events that reach the subscription with no PUT to a signed URL: the removal
\* of an uploaded object, a key naming a file of another owner, an object that
\* the worker promoted to the trusted prefix.
MCForeign ==
    {[type |-> "deleted", bucket |-> uploads, name |-> <<quarantine, alice, f1>>],
     [type |-> "finalized", bucket |-> uploads, name |-> <<quarantine, bob, f1>>],
     [type |-> "finalized", bucket |-> uploads, name |-> <<trusted, alice, f1>>]}

\* Only an event that is refused each time it is delivered.
MCTrusted == {e \in MCForeign : e.name[1] = trusted}

Symmetry == Permutations(Messages) \union Permutations(Handlers)
=============================================================================
