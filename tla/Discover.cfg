SPECIFICATION FairSpec
CONSTANTS
    FieldOrder <- MCFieldOrder
    Records <- MCRecords
    Lexicon <- MCLexicon
    SampleSize = 3
    MaxExamples = 2
    MaxUnique = 2
    NullThreshold <- MCNullThreshold
    MixedThreshold <- MCMixedThreshold
    Shown <- MCShown
    NaN <- MCNaN
    Fractions = {15}
    Mantissa = 8
INVARIANTS
    ProfileIsReference
    IssuesJustified
PROPERTIES
    InspectReturns
CHECK_DEADLOCK FALSE
