SPECIFICATION MCSpec
CONSTANTS
    Inputs <- MCInputs
    MaxHex = 2
    ConsumeTrailer = TRUE
INVARIANTS InBounds PrefixDecoded EndReported
    VerdictStable RequestReadBack FormsReadBack RepliesFramed DigestRight
PROPERTY DecodesAll
CHECK_DEADLOCK FALSE
