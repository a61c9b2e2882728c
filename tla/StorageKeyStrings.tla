------------------------- MODULE StorageKeyStrings -------------------------
(***************************************************************************)
(* The character-level reading of object names: the string operations of   *)
(* create_pending_upload and handle_upload_finalized on sequences of       *)
(* characters, next to the segment-level module StorageKeys that the rest  *)
(* of the project uses.  A behaviour types a setting and an object name    *)
(* one character at a time, so that the reachable states are all pairs of  *)
(* short strings.                                                          *)
(***************************************************************************)
EXTENDS Integers, FiniteSets, SequencesExt

CONSTANTS
    Char,        \* the alphabet, "/" among it
    MaxSetting,  \* bound on the length of QUARANTINE_PREFIX
    MaxName      \* bound on the length of an object name

VARIABLES
    setting,     \* QUARANTINE_PREFIX as written in the environment
    name         \* the object name of a storage event

vars == <<setting, name>>

ASSUME SlashAssumption == "/" \in Char

-----------------------------------------------------------------------------
(* Python's string operations on sequences of characters.                  *)

\* Where s.split(c) cuts: at every c, and before and after the string.
Cuts(s, c) == {0, Len(s) + 1} \union {i \in DOMAIN s : s[i] = c}

\* The k-th smallest of a set of positions.
Nth(S, k) == CHOOSE i \in S : Cardinality({j \in S : j <= i}) = k

\* s.split(c)
Split(s, c) ==
    LET cuts == Cuts(s, c)
    IN  [k \in 1..(Cardinality(cuts) - 1) |->
            SubSeq(s, Nth(cuts, k) + 1, Nth(cuts, k + 1) - 1)]

SplitSlash(s) == Split(s, "/")

\* s.strip(chars)
StripAll(s, chars) ==
    LET kept == {i \in DOMAIN s : s[i] \notin chars}
    IN  IF kept = {} THEN <<>> ELSE SubSeq(s, Min(kept), Max(kept))

StripSlash(s) == StripAll(s, {"/"})

\* s.removeprefix(p)
RemovePrefix(s, p) ==
    IF IsPrefix(p, s) THEN SubSeq(s, Len(p) + 1, Len(s)) ELSE s

-----------------------------------------------------------------------------
(* Faulty variants, to confirm that the properties below can fail.         *)

BuildKeyUnstripped(s, owner, file) == s \o <<"/">> \o owner \o <<"/">> \o file

PartsWithoutCount(s, n) ==
    LET prefix == StripSlash(s)
        object_prefix == prefix \o <<"/">>
        parts == SplitSlash(RemovePrefix(n, object_prefix))
    IN  IF \/ prefix = <<>>
           \/ ~ IsPrefix(object_prefix, n)
           \/ Len(parts) < 2
           \/ parts[1] = <<>>
           \/ parts[2] = <<>>
        THEN <<>> ELSE parts

-----------------------------------------------------------------------------
(* The two places of the code that handle object names.                    *)

\* The storage key of a new upload.
BuildKey(s, owner, file) ==
    StripSlash(s) \o <<"/">> \o owner \o <<"/">> \o file

\* The owner and file parts of an event's object name, or <<>> when
\* InvalidUploadEventError is raised.
EventParts(s, n) ==
    LET prefix == StripSlash(s)
        object_prefix == prefix \o <<"/">>
        parts == SplitSlash(RemovePrefix(n, object_prefix))
    IN  IF \/ prefix = <<>>
           \/ ~ IsPrefix(object_prefix, n)
           \/ Len(parts) # 2
           \/ parts[1] = <<>>
           \/ parts[2] = <<>>
        THEN <<>> ELSE parts

-----------------------------------------------------------------------------
Init == setting = <<>> /\ name = <<>>

TypeSetting(c) ==
    /\ Len(setting) < MaxSetting
    /\ setting' = Append(setting, c)
    /\ UNCHANGED name

TypeName(c) ==
    /\ Len(name) < MaxName
    /\ name' = Append(name, c)
    /\ UNCHANGED setting

Next == \E c \in Char : TypeSetting(c) \/ TypeName(c)

Spec == Init /\ [][Next]_vars

-----------------------------------------------------------------------------
Segment == BoundedSeq(Char \ {"/"}, MaxSetting + MaxName)
Keys(s) == INSTANCE StorageKeys
             WITH Empty <- <<>>, QuarantinePrefix <- SplitSlash(s)

\* The identifiers tried as owner and file id: every non-empty segment of the
\* name that has been typed.
Identifiers == Range(SplitSlash(name)) \ {<<>>}

\* The segment-level recogniser accepts exactly the names that
\* handle_upload_finalized accepts, and reads the same file id from them
\* (files/service.py:131-144).
RecognitionAgrees ==
    LET parts == EventParts(setting, name)
        segments == SplitSlash(name)
    IN  /\ Keys(setting)!IsQuarantineKey(segments) <=> parts # <<>>
        /\ parts # <<>> => Keys(setting)!FileIdOf(segments) = parts[2]

\* A storage key built by create_pending_upload for any owner and file id is
\* recognised when its finalized event arrives, with that owner and file id,
\* unless the setting strips to the empty string: then no event at all is
\* accepted.  The segment-level key is the same name (files/service.py:85-90
\* against 131-144).
BuiltKeyIsRecognised ==
    \A owner, file \in Identifiers :
        LET key == BuildKey(setting, owner, file)
        IN  /\ SplitSlash(key) = Keys(setting)!StorageKey(owner, file)
            /\ EventParts(setting, key) =
                 IF StripSlash(setting) = <<>> THEN <<>> ELSE <<owner, file>>

=============================================================================
