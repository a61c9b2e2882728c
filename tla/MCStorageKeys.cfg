CONSTANTS
    Char <- MCChar
    MaxSetting = 3
    MaxName = 7
    TextChar <- MCTextChar
    Blank = {" "}
    Control = {"NUL"}
    Alphanumeric = {"a", "A"}
    Punctuation = {".", "/", "-"}
    LowerOf <- MCLowerOf
    MaxText = 6
    MaxLabel = 1
    MaxEmail = 7
    MaxDeclared = 5
    SupportedFileExtensions <- MCExtensions
SPECIFICATION RSpec
INVARIANTS
    RecognitionAgrees
    BuiltKeyIsRecognised
    SpellingDoesNotMatter
CHECK_DEADLOCK FALSE
