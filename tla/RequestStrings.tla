--------------------------- MODULE RequestStrings ---------------------------
(***************************************************************************)
(* What the API makes of the strings of a request body: the e-mail address *)
(* of a registration or login, the file name and the MIME type of an       *)
(* upload request.  A behaviour either types the setting and the object    *)
(* name of StorageKeyStrings or one text, which is tried as each of the    *)
(* three.  The schema of a request limits the length of a string as it was *)
(* sent, before anything is stripped from it.                              *)
(***************************************************************************)
EXTENDS StorageKeyStrings

CONSTANTS
    TextChar,    \* the alphabet of a text
    Blank,       \* what strip() removes and \s matches
    Control,     \* characters below 32
    Alphanumeric, \* what [a-z0-9] matches, whatever the case
    Punctuation, \* the rest of a local part: .!#$%&'*+/=?^_`{|}~-
    LowerOf,     \* lower(), on the upper-case letters of TextChar
    MaxText,     \* bound on the length of a text
    MaxLabel,    \* limits: of a label of a domain (63),
    MaxEmail,    \*   of an e-mail address (254),
    MaxDeclared, \*   of a file name and of a MIME type (255)
    SupportedFileExtensions

VARIABLE text

\* The letters that have both cases: the checks of requests single none out.
Letters == DOMAIN LowerOf \union {LowerOf[c] : c \in DOMAIN LowerOf}

ASSUME TextAssumption ==
    /\ Blank \union Control \union Alphanumeric \union Letters \subseteq TextChar
    /\ \A c \in DOMAIN LowerOf : LowerOf[c] \notin DOMAIN LowerOf
    /\ Blank # {}
    /\ Punctuation \intersect (Blank \union Control \union Letters \union {"@"}) = {}
    /\ Letters \intersect (Blank \union Control \union {"@", ".", "/", "\\", ";"}) = {}

ASSUME LimitsAssumption == {MaxLabel, MaxEmail, MaxDeclared} \subseteq Nat

-----------------------------------------------------------------------------
Strip(s) == StripAll(s, Blank)

Lower(s) == [i \in DOMAIN s |-> IF s[i] \in DOMAIN LowerOf THEN LowerOf[s[i]] ELSE s[i]]

Refused == <<>>   \* the request is answered 422

-----------------------------------------------------------------------------
(* normalize_email *)

LocalPart(s) ==
    s # <<>> /\ \A i \in DOMAIN s : s[i] \in Alphanumeric \union Punctuation

\* A label of the domain begins and ends with a letter or a digit.
Label(s) ==
    /\ s # <<>> /\ Len(s) <= MaxLabel
    /\ {s[1], s[Len(s)]} \subseteq Alphanumeric
    /\ \A i \in DOMAIN s : s[i] \in Alphanumeric \union {"-"}

\* EMAIL_PATTERN.fullmatch(s), whatever the case of s
EmailPattern(s) ==
    LET sides == Split(s, "@")
        labels == Split(sides[2], ".")
    IN  /\ Len(sides) = 2 /\ LocalPart(sides[1])
        /\ Len(labels) >= 2 /\ \A i \in DOMAIN labels : Label(labels[i])

\* Faulty variant: the pattern ignores case, so lower() looks superfluous.
NormalizeEmailAsTyped(value) == IF EmailPattern(Strip(value)) THEN Strip(value) ELSE Refused

NormalizeEmail(value) ==
    LET normalized == Lower(Strip(value))
    IN  IF EmailPattern(normalized) THEN normalized ELSE Refused

\* The field "email" of RegisterRequest and LoginRequest.  (The least lengths of
\* the schemas, 3 here and 1 below, refuse nothing that would be accepted.)
RequestEmail(value) ==
    IF Len(value) <= MaxEmail THEN NormalizeEmail(value) ELSE Refused

-----------------------------------------------------------------------------
(* create_pending_upload, before it stores anything *)

\* MIME_TYPE_PATTERN.fullmatch(s)
MimeTypePattern(s) ==
    LET sides == Split(s, "/")
    IN  /\ Len(sides) = 2 /\ <<>> \notin {sides[1], sides[2]}
        /\ \A i \in DOMAIN s : s[i] \notin Blank \union {";"}

DeclaredMimeType(content_type) ==
    LET normalized == Lower(Strip(content_type))
    IN  IF MimeTypePattern(normalized) THEN normalized ELSE Refused

ValidateFilename(s) ==
    /\ s \notin {<<>>, <<".">>, <<".", ".">>}
    /\ \A i \in DOMAIN s : s[i] \notin Control \union {"/", "\\"}

\* PurePath(s).suffix of a name without "/" (Python 3.12): from the last dot,
\* unless that is the first or the last character.
Suffix(s) ==
    LET dots == {i \in DOMAIN s : s[i] = "."}
    IN  IF dots \ {1} = {} \/ Max(dots) = Len(s) THEN <<>>
        ELSE SubSeq(s, Max(dots), Len(s))

Extension(filename) == Lower(Suffix(filename))

OriginalFilename(filename) ==
    LET normalized == Strip(filename)
    IN  IF ValidateFilename(normalized) /\ Extension(normalized) \in SupportedFileExtensions
        THEN normalized ELSE Refused

\* The two through the fields of UploadURLRequest.
RequestMimeType(content_type) ==
    IF Len(content_type) <= MaxDeclared THEN DeclaredMimeType(content_type) ELSE Refused

RequestFilename(filename) ==
    IF Len(filename) <= MaxDeclared THEN OriginalFilename(filename) ELSE Refused

-----------------------------------------------------------------------------
RInit == Init /\ text = <<>>

TypeText(c) ==
    /\ setting = <<>> /\ name = <<>>
    /\ Len(text) < MaxText
    /\ text' = Append(text, c)
    /\ UNCHANGED vars

RNext == \/ \E c \in TextChar : TypeText(c)
         \/ text = <<>> /\ Next /\ UNCHANGED text

RSpec == RInit /\ [][RNext]_<<vars, text>>

-----------------------------------------------------------------------------
\* The same text as a client may also send it: blanks around it, other case.
Padded(s) == LET blank == CHOOSE b \in Blank : TRUE IN <<blank>> \o s \o <<blank>>
UpperCased(s) ==
    [i \in DOMAIN s |-> IF \E u \in DOMAIN LowerOf : LowerOf[u] = s[i]
                        THEN CHOOSE u \in DOMAIN LowerOf : LowerOf[u] = s[i] ELSE s[i]]

\* ... as far as the limit on what is sent leaves room for the blanks.
Spellings(limit) == {UpperCased(text)} \union {t \in {Padded(text)} : Len(t) <= limit}

\* One address is one account however it is typed: register and login look up
\* the same normal form, and sending that form, or normalising it once more, as
\* the schema and then the service do (auth/schemas.py:37, auth/service.py:55,
\* 67), changes nothing.  The policy for uploads (files/service.py:71-81) judges
\* what is stored, not what was sent: the stored name and type would be accepted
\* again and stored unchanged, and neither case nor blanks within the limit decide.
SpellingDoesNotMatter ==
    /\ \A t \in Spellings(MaxEmail) : RequestEmail(t) = RequestEmail(text)
    /\ RequestEmail(text) # Refused =>
          /\ RequestEmail(RequestEmail(text)) = RequestEmail(text)
          /\ NormalizeEmail(RequestEmail(text)) = RequestEmail(text)
    /\ \A t \in Spellings(MaxDeclared) :
          /\ RequestMimeType(t) = RequestMimeType(text)
          /\ RequestFilename(t) = Refused <=> RequestFilename(text) = Refused
          /\ Extension(RequestFilename(t)) = Extension(RequestFilename(text))
          /\ Strip(t) = Strip(text) => RequestFilename(t) = RequestFilename(text)
    /\ RequestMimeType(text) # Refused =>
          RequestMimeType(RequestMimeType(text)) = RequestMimeType(text)
    /\ RequestFilename(text) # Refused =>
          RequestFilename(RequestFilename(text)) = RequestFilename(text)

=============================================================================
