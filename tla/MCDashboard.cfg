CONSTANTS
    Panels = {"assistant", "news", "fundamentals", "table", "candles", "compare", "vix", "indicator", "overview", "search", "palette", "alerts", "portfolio", "storage", "tickers"}
    Answers <- TwoAnswers
    Cut = 7
    MaxSessions = 2
    MaxChats = 2
    Ticker = {t1, t2}
    First = t1
    None = None
    MaxCalls = 2
    Rows <- MCRows
    PageSize = 1
    Bars <- MCBars
    MonthStarts = {8}
    NumBins = 3
    Days = {1, 2}
    DefaultDays = 1
    Indicator = {"sma", "ema", "rsi", "macd", "bollinger", "vwap", "atr", "stochastic", "obv", "adx"}
    Word = {w1, w2}
    TotalPages <- MCPages
    Item = {i1, i2}
    MaxWrites = 3
    Hook = {h1, h2}
SPECIFICATION Spec
INVARIANT DashboardTypeOK
INVARIANT NothingLost
INVARIANT ConversationInTurn
INVARIANT PanelShowsChoice
INVARIANT ChartsDrawData
INVARIANT ListMatchesServer
PROPERTY AnswerWhole
PROPERTY Unlocks
PROPERTY LoadingEnds
