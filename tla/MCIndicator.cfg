CONSTANTS
    Panels = {"indicator"}
    Answers <- TwoAnswers
    Cut = 7
    MaxSessions = 2
    MaxChats = 2
    Ticker = {t1, t2}
    First = t1
    None = None
    MaxCalls = 2
    Rows <- MCRows
    PageSize = 1
    Bars <- MCBars
    MonthStarts = {8}
    NumBins = 3
    Days = {1, 2}
    DefaultDays = 1
    Indicator = {"sma", "macd", "bollinger"}
    Word = {w1, w2}
    TotalPages <- MCPages
    Item = {i1, i2}
    MaxWrites = 3
    Hook = {h1, h2}
SPECIFICATION Spec
INVARIANT OverlayHasValues
