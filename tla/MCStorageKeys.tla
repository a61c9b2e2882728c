--------------------------- MODULE MCStorageKeys ---------------------------
(* StorageKeyStrings over a three-letter alphabet, RequestStrings over eight. *)
EXTENDS RequestStrings

MCChar == {"/", "q", "x"}

MCTextChar == {"a", "A", "@", ".", "/", "-", " ", "NUL"}
MCLowerOf == [c \in {"A"} |-> "a"]
MCExtensions == {<<".", "a">>}
=============================================================================
