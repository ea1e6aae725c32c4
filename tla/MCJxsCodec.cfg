SPECIFICATION Spec
CONSTANT Jobs <- MCJobs
CONSTANT Foreign <- MCForeign
INVARIANTS
    Lossless
    DecoderFollows
    BestFits
    BudgetExact
    OnlyAsWritten
CHECK_DEADLOCK FALSE
