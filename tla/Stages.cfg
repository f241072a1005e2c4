SPECIFICATION Spec
CONSTANTS
    Nil = Nil
    NaN = 99
    Mantissa = 2
    Lexicon <- MCLexicon
    Matches <- MCMatches
    WebURLs = {}
    Records <- MCRecords
    Transforms <- MCTransforms
    Suites <- MCSuites
    Bounds <- MCBounds
    MaxStages <- MCMaxStages
INVARIANTS
    TypedOnceParsed
    HeadersSettled
    WrappersAgree
PROPERTIES
    InputUntouched
CHECK_DEADLOCK FALSE
