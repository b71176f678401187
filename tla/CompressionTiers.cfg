SPECIFICATION CompressSpec
CONSTANTS
    f = f
    g = g
    h = h
    Facts = {f, g, h}
    Texts <- MCTexts
    Targets = {0, 2, 5, 7}
    Summaries <- MCSummaries
    WithLlm = TRUE
INVARIANTS
    NothingFabricated
    ExtractMeetsTarget
    SummaryPaysOff
CHECK_DEADLOCK FALSE
