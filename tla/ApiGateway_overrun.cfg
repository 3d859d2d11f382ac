SPECIFICATION GatewaySpec
CONSTANTS
    Routes <- MCRoutes
    Paths <- MCPaths
    Exact <- MCExact
    Regexes <- MCRegexes
    Tests <- MCTests
    LengthChoices <- AnyLengths
    MaxLength = 3
INVARIANT NextHostReturns
