SPECIFICATION Spec
CONSTANTS
    h1 = h1
    h2 = h2
    Handlers <- TwoHandlers
    MaxTries = 1
    MaxExpiring = 1
    MaxCrashes = 1
    Outcomes <- AllOutcomes
SYMMETRY Symmetry
INVARIANTS
    TypeOK
    EffectOnce
    CompletedWasReported
    ExpiredAfterGrace
PROPERTIES
    QuietOutcomeIsFinal
CHECK_DEADLOCK FALSE
