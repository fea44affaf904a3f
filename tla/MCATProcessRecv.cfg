CONSTANTS
    Lines <- MCLines
    SpecificTable <- MCSpecificTable
    SpecificTokens <- MCSpecificTokens
SPECIFICATION Spec
INVARIANT TypeOK
INVARIANT ReturnsTokenEvent
