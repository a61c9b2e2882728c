---------------------------- MODULE StorageKeys ----------------------------
(***************************************************************************)
(* Quarantine object names: how FileService builds one for a new upload    *)
(* and how it recognises one in a Cloud Storage event.                     *)
(*                                                                         *)
(* A name is the sequence of its segments, that is, of the strings that    *)
(* splitting it on "/" yields: "quarantine/alice/f1" is                    *)
(* <<"quarantine", "alice", "f1">>, "a//b" is <<"a", Empty, "b">> and the  *)
(* empty string is <<Empty>>.  MCStorageKeys checks this reading against   *)
(* the character-level operations of the code.                             *)
(***************************************************************************)
EXTENDS Integers, Sequences, FiniteSetsExt

CONSTANTS
    Segment,           \* strings without "/"
    Empty,             \* the empty string
    QuarantinePrefix   \* the setting QUARANTINE_PREFIX, split on "/"

ASSUME EmptyAssumption == Empty \in Segment
ASSUME PrefixAssumption == QuarantinePrefix \in Seq(Segment) \ {<<>>}

Name == Seq(Segment) \ {<<>>}

-----------------------------------------------------------------------------
\* settings.quarantine_prefix.strip("/"): leading and trailing slashes are
\* leading and trailing empty segments; a setting made of slashes only, or an
\* empty one, strips to the empty string.
Kept == {i \in DOMAIN QuarantinePrefix : QuarantinePrefix[i] # Empty}

Root ==
    IF Kept = {} THEN <<Empty>>
    ELSE SubSeq(QuarantinePrefix, Min(Kept), Max(Kept))

\* f"{quarantine_prefix}/{owner_id}/{file_id}"
StorageKey(owner, file) == Root \o <<owner, file>>

\* The name lies under the prefix and has exactly an owner and a file part.
IsQuarantineKey(name) ==
    /\ Root # <<Empty>>
    /\ Len(name) = Len(Root) + 2
    /\ SubSeq(name, 1, Len(Root)) = Root
    /\ name[Len(Root) + 1] # Empty
    /\ name[Len(Root) + 2] # Empty

\* parts[1] of a quarantine name.
FileIdOf(name) == name[Len(name)]

=============================================================================
