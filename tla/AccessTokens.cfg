CONSTANTS
    Users = {alice}
    ahead = ahead
    behind = behind
    Instances = {ahead, behind}
    Requests = {r1}
    Second = 2
    AccessLifetime = 6
    RefreshLifetime = 8
    Skew <- MCSkew
    MaxSkew = 1
    MaxTime = 9
    MaxTokens = 2
    NoToken = NoToken
SPECIFICATION Spec
INVARIANTS
    IInv
    AccountDecides
    TermsEnd
    FreshTokenServed
