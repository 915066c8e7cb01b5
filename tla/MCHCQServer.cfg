SPECIFICATION Spec
CONSTANTS
    Containers <- Tree
    Parameters <- Added
    Components <- Paths
    Addresses = {"A", "B"}
    Scripts <- AnyScript
    Returned <- AnyValue
    MethodErrs <- TwoErrors
    WriteMax = 56
    WellFormed <- Good
INVARIANTS
    TypeOK
    FirstCellsCarriedOut
    AnswersWholeQuery
    GoodQueryRead
    OwnAnswer
\* The server rests when all programs have their answers or stopped waiting.
CHECK_DEADLOCK FALSE
