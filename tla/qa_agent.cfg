SPECIFICATION Spec
CONSTANTS
    n1 = n1
    t1 = t1
    Notes = {n1}
    Transcripts = {t1}
    TranscriptOf <- MadeFromOne
    MaxChanges = 3
    MaxToolCallsDefault = 3
    MaxToolCallsLimit = 2
    MaxInputTokensDefault = 3
    MaxInputTokensLimit = 4
    MaxUsage = 2
    MaxUses = 2
INVARIANTS
    BudgetKept
    ToolUsesAnswered
    AnswerCoherent
    OnlySightedShown
    VisibilityRulesAgree
PROPERTIES
    AskEnds
