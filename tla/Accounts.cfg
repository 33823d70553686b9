SPECIFICATION FairSpec
CONSTANTS
    Session = {s1, s2}
    Email = {e1}
    MaxTokens = 3
    NoOne = NoOne
INVARIANTS
    RotatedOnce
    FamilyRevoked
    DisabledChainEnds
PROPERTIES
    NoExchangeAfterRevocation
    AccountsKept
    SessionsEnd
