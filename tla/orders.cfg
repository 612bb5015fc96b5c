\* All command lines of up to five words, and clients that wrap their counter.
SPECIFICATION RequestsSpec
CONSTANTS
    MaxWords = 5
    MaxSent = 1
    Width = 4
    MaxSends = 8
INVARIANTS
    TypeOK
    OnlyWhatWasAsked
    ExitTells
    FlagsSurvive
PROPERTIES
    NumbersLast
\* The tool exits.
CHECK_DEADLOCK FALSE
