SPECIFICATION Spec
CONSTANTS
    Tokens <- SomeTokens
    Outputs <- SomeOutputs
    Texts <- SomeTexts
    ErrorText <- AnError
    SmallBand = 1
    LargeBand = 2
INVARIANTS
    TypeOK
    ResponseWhole
    SentAsApproved
