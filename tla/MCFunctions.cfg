\* Every step but those of double_sha256 picks one input: nothing follows it.
SPECIFICATION FunctionsSpec
CONSTANTS
    Hashes <- MCHashes
    Difficulties <- MCDifficulties
    Nonces <- MCNonces
    Messages <- MCMessages
    Known <- MCKnown
    Symbols <- MCSymbols
    Texts <- MCTexts
    Files <- MCFiles
    DigitValue <- MCDigitValue
    MaxNumber <- MCMaxNumber
INVARIANTS
    TypeOK
    DifficultyCounts
    HexAgrees
    PaddingStandard
    KnownDigests
    EscapeSurvives
    ParserAccepts
    ParserReads
    TruncatedRefused
CHECK_DEADLOCK FALSE
