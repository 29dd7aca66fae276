---------------------------- MODULE PriceCharts ----------------------------
(***************************************************************************)
(* The panels that draw on a canvas of the chart library, which keeps what *)
(* it was last given: the candles with their volume profile, the           *)
(* comparison, the VIX and the indicators.  Each has effects of its own    *)
(* that copy the loaded data to the canvas, and forget to, or do it twice, *)
(* in ways of their own.                                                   *)
(***************************************************************************)
EXTENDS PanelFetch, FiniteSetsExt, Selection

CONSTANTS
    Bars,           \* the daily bars of each ticker, oldest first
    MonthStarts,    \* the days on which another month begins; day 0 is a Monday
    NumBins,        \* NUM_BINS, 40 in the source
    Days,           \* the spans offered
    DefaultDays,    \* the span at the start
    Indicator       \* the indicators to explore

IndicatorType ==
    {"sma", "ema", "rsi", "macd", "bollinger", "vwap", "atr", "stochastic", "obv", "adx"}

BarType == [day : Int, open : Int, high : Int, low : Int, close : Int, volume : Int]

\* The store keeps its bars sorted by day and each day once.
ASSUME ChartAssumption ==
    /\ Indicator \subseteq IndicatorType
    /\ MonthStarts \in SUBSET Int /\ IsFiniteSet(MonthStarts)
    /\ NumBins \in Nat \ {0}
    /\ \A t \in Ticker :
          /\ Bars[t] \in Seq(BarType)
          /\ \A i, j \in DOMAIN Bars[t] : i < j => Bars[t][i].day < Bars[t][j].day

Interval == {"daily", "weekly", "monthly"}

-----------------------------------------------------------------------------
(* CandlestickChart.tsx: the bars of an interval.                          *)

\* getMondayDateString: the date is read as midnight in Greenwich and its weekday is
\* taken where the browser is, which to the west of there is the day before.
WeekOf(bar, west) == (bar.day - IF west THEN 1 ELSE 0) \div 7

\* The year and the month of its date: the months that have begun are as many.
MonthOf(bar) == Cardinality({d \in MonthStarts : d <= bar.day})

\* The volume and the range of prices of the bars at the indices I.
Volume(bars, I) == SumFunctionOnSet([i \in DOMAIN bars |-> bars[i].volume], I)
Highest(bars, I) == Max({bars[i].high : i \in I})
Lowest(bars, I) == Min({bars[i].low : i \in I})

\* One candle of the bars at the indices I.
Candle(bars, I) ==
    [day |-> bars[Min(I)].day, open |-> bars[Min(I)].open, close |-> bars[Max(I)].close,
     high |-> Highest(bars, I), low |-> Lowest(bars, I), volume |-> Volume(bars, I)]

\* Mutant: the last bar's volume is the candle's.
LastVolume(bars, I) ==
    [Candle(bars, I) EXCEPT !.volume = bars[Max(I)].volume]

\* One entry of weekMap or monthMap.
Entry(bars, I) == Candle(bars, I)

\* The indices of the group of i, and those that are the first of theirs.
Group(key, i) == {j \in DOMAIN key : key[j] = key[i]}
Firsts(key) == {i \in DOMAIN key : \A j \in Group(key, i) : i <= j}

\* The candles of bars that have the same key, oldest first.
Aggregate(bars, key) ==
    Selected([i \in DOMAIN bars |-> Entry(bars, Group(key, i))], Firsts(key))

Weeks(bars, west) == [i \in DOMAIN bars |-> WeekOf(bars[i], west)]
Months(bars) == [i \in DOMAIN bars |-> MonthOf(bars[i])]

AggregateWeekly(bars, west) == Aggregate(bars, Weeks(bars, west))
AggregateMonthly(bars) == Aggregate(bars, Months(bars))

DisplayBars(bars, interval, west) ==
    CASE interval = "weekly"  -> AggregateWeekly(bars, west)
      [] interval = "monthly" -> AggregateMonthly(bars)
      [] OTHER                -> bars

\* The bin of a close; one below all lows has none.
BinAt(close, low, range) == Min({((close - low) * NumBins) \div range, NumBins - 1})

\* computeBins: the volume by the price of the close, of bars that rose and that fell.
Bins(bars) ==
    LET low == Lowest(bars, DOMAIN bars)
        range == Highest(bars, DOMAIN bars) - low
        In(n) == {i \in DOMAIN bars : BinAt(bars[i].close, low, range) = n - 1}
        Rose == {i \in DOMAIN bars : bars[i].close >= bars[i].open}
    IN  IF bars = <<>> \/ range <= 0 THEN <<>>
        ELSE [n \in 1 .. NumBins |->
                 [buy |-> Volume(bars, In(n) \cap Rose), sell |-> Volume(bars, In(n) \ Rose)]]

\* All of it for every ticker, so that it is computed once.
CandlesOf ==
    [t \in Ticker |-> [interval \in Interval |-> [west \in BOOLEAN |->
        DisplayBars(Bars[t], interval, west)]]]
BinsOf ==
    [t \in Ticker |-> [interval \in Interval |-> [west \in BOOLEAN |->
        Bins(CandlesOf[t][interval][west])]]]

-----------------------------------------------------------------------------
(* CandlestickChart.tsx: the chart.                                        *)

\* The bars of t are loaded and interval is chosen: the draw effect returns early when
\* there are none, the profile's effect does not.
Redraw(t, interval) ==
    /\ drawn' = (IF t = None \/ Bars[t] = <<>> THEN drawn ELSE [of |-> t, interval |-> interval])
    /\ view' = [view EXCEPT !.interval = interval,
                            !.profile = IF view.vp THEN [of |-> t, interval |-> interval] ELSE None]

CandlesLoad(t) ==
    /\ panel = "candles" /\ MayPick(t) /\ Load(t)
    /\ UNCHANGED <<panel, view, drawn>>

CandlesArrive ==
    /\ panel = "candles"
    /\ \E i \in DOMAIN calls :
          \/ CallAnswered(i) /\ Redraw(calls[i], view.interval)
          \/ CallFailed(i) /\ UNCHANGED <<view, drawn>>
    /\ UNCHANGED panel

PickInterval(interval) ==
    /\ panel = "candles" /\ interval # view.interval
    /\ Redraw(data, interval)
    /\ UNCHANGED <<panel, fetchVars>>

\* The VP button attaches a plugin with the bars of now, or detaches it.
ToggleProfile ==
    /\ panel = "candles"
    /\ view' = [view EXCEPT !.vp = ~@,
                  !.profile = IF view.vp THEN None ELSE [of |-> data, interval |-> view.interval]]
    /\ UNCHANGED <<panel, fetchVars, drawn>>

\* The open, high, low and close over the chart are those of the last bar of the data.
Latest ==
    LET shown == IF data = None THEN <<>> ELSE CandlesOf[data][view.interval][view.west]
    IN  IF shown = <<>> THEN None ELSE Last(shown)

-----------------------------------------------------------------------------
(* PriceComparison.tsx: a line for each chosen ticker.                     *)

\* A choice of tickers and days; without tickers the first ones are chosen again before
\* anything is loaded.
CompareLoads(q) == panel = "compare" /\ Load(q) /\ UNCHANGED <<panel, view, drawn>>

DefaultTickers == {First}

PickTickers(S) ==
    LET days == IF query = None THEN DefaultDays ELSE query.days
    IN  /\ query = None => S = DefaultTickers
        /\ CompareLoads([tickers |-> IF S = {} THEN DefaultTickers ELSE S, days |-> days])

PickCompareDays(d) ==
    query # None /\ d # query.days /\ CompareLoads([query EXCEPT !.days = d])

\* Mutant: lines of tickers that are no longer compared stay.
LinesStay(q) ==
    LET old == IF drawn = None THEN {} ELSE DOMAIN drawn
    IN  [t \in old \cup q.tickers |-> IF t \in q.tickers THEN q.days ELSE drawn[t]]

\* The effect on the data: lines of other tickers are removed, missing ones added, and
\* each is given its points.
SyncLines(q) == [t \in q.tickers |-> q.days]

CompareArrives ==
    /\ panel = "compare"
    /\ \E i \in DOMAIN calls :
          \/ CallAnswered(i) /\ drawn' = SyncLines(calls[i])
          \/ CallFailed(i) /\ UNCHANGED drawn
    /\ UNCHANGED <<panel, view>>

-----------------------------------------------------------------------------
(* VixDashboard.tsx: the quote and a line.                                 *)

VixLoads(d) ==
    /\ panel = "vix" /\ IF query = None THEN d = DefaultDays ELSE d # query
    /\ Load(d)
    /\ UNCHANGED <<panel, view, drawn>>

\* Both answers of Promise.all; the line is drawn here and nowhere else.
VixArrives ==
    /\ panel = "vix"
    /\ \E i \in DOMAIN calls :
          \/ CallAnswered(i) /\ drawn' = calls[i] /\ view' = [rethemed |-> FALSE]
          \/ CallFailed(i) /\ UNCHANGED <<view, drawn>>
    /\ UNCHANGED panel

\* Another theme: the chart is removed and an empty one is made.
VixRethemed ==
    /\ panel = "vix"
    /\ drawn' = None /\ view' = [rethemed |-> TRUE]
    /\ UNCHANGED <<panel, fetchVars>>

-----------------------------------------------------------------------------
(* IndicatorChart.tsx: the price and the lines of one indicator.  Period   *)
(* and days are left out: they are loaded for like the indicator.          *)

\* The lines of an indicator and the value of a point that each draws; the threshold
\* lines are drawn where there is such a value.
Line(name, key) == [name |-> name, key |-> key]

SmaEmaLines(indicator) ==
    {Line(indicator, IF indicator = "sma" THEN "SMA" ELSE "EMA")}
RsiLines == {Line("RSI", "RSI"), Line("overbought", "RSI"), Line("oversold", "RSI")}
MacdLines == {Line(key, key) : key \in {"MACD", "Signal", "Histogram"}}
BollingerLines == {Line(key, key) : key \in {"BB_Upper", "BB_Middle", "BB_Lower"}}
VwapLines == {Line("VWAP", "VWAP")}
AtrLines == {Line("ATR", "ATR_period")}
StochasticLines ==
    {Line(key, key) : key \in {"Stoch_K", "Stoch_D"}}
        \cup {Line("overbought", "Stoch_K"), Line("oversold", "Stoch_K")}
ObvLines == {Line("OBV", "OBV")}
AdxLines ==
    {Line("ADX", "ADX_period"), Line("Plus_DI", "Plus_DI"), Line("Minus_DI", "Minus_DI"),
     Line("reference", "ADX_period")}

LinesOf(indicator) ==
    CASE indicator \in {"sma", "ema"} -> SmaEmaLines(indicator)
      [] indicator = "rsi"            -> RsiLines
      [] indicator = "macd"           -> MacdLines
      [] indicator = "bollinger"      -> BollingerLines
      [] indicator = "vwap"           -> VwapLines
      [] indicator = "atr"            -> AtrLines
      [] indicator = "stochastic"     -> StochasticLines
      [] indicator = "obv"            -> ObvLines
      [] indicator = "adx"            -> AdxLines

\* The columns the server answers with.
ServerColumns(indicator) ==
    CASE indicator = "sma"        -> {"SMA_period"}
      [] indicator = "ema"        -> {"EMA_period"}
      [] indicator = "rsi"        -> {"RSI_period"}
      [] indicator = "macd"       -> {"MACD", "Signal", "Histogram"}
      [] indicator = "bollinger"  -> {"BB_Upper", "BB_Middle", "BB_Lower"}
      [] indicator = "vwap"       -> {"VWAP"}
      [] indicator = "atr"        -> {"ATR_period"}
      [] indicator = "stochastic" -> {"Stoch_K", "Stoch_D"}
      [] indicator = "obv"        -> {"OBV"}
      [] indicator = "adx"        -> {"ADX_period", "Plus_DI", "Minus_DI"}

\* The legend over the chart.
Legend(indicator) ==
    CASE indicator = "bollinger"  -> {"BB_Middle"}
      [] indicator = "macd"       -> {"MACD", "Signal"}
      [] indicator = "rsi"        -> {"RSI"}
      [] indicator = "vwap"       -> {"VWAP"}
      [] indicator = "atr"        -> {"ATR"}
      [] indicator = "stochastic" -> {"Stoch_K", "Stoch_D"}
      [] indicator = "obv"        -> {"OBV"}
      [] indicator = "adx"        -> {"ADX", "Plus_DI", "Minus_DI"}
      [] OTHER                    -> {indicator}

\* Mutant: the lines of the last indicator stay.
LinesKept == drawn.lines

\* The loop before the await removes them.
LinesRemoved == <<>>

IndicatorLoads(q) ==
    /\ panel = "indicator" /\ Load(q)
    /\ drawn' = [drawn EXCEPT !.lines = LinesRemoved]
    /\ UNCHANGED <<panel, view>>

PickIndicatorTicker(t) ==
    LET indicator == IF query = None THEN "sma" ELSE query.indicator
    IN  /\ panel = "indicator"
        /\ IF query = None THEN t = First ELSE t # query.ticker
        /\ IndicatorLoads([ticker |-> t, indicator |-> indicator])

PickIndicator(indicator) ==
    /\ panel = "indicator" /\ query # None /\ indicator # query.indicator
    /\ IndicatorLoads([query EXCEPT !.indicator = indicator])

\* The price line is given its points, lines of the call's indicator are added.
IndicatorArrives ==
    /\ panel = "indicator"
    /\ \E i \in DOMAIN calls :
          \/ CallAnswered(i) /\ drawn' = [price |-> calls[i].ticker, lines |-> Append(drawn.lines, calls[i])]
          \/ CallFailed(i) /\ UNCHANGED drawn
    /\ UNCHANGED <<panel, view>>

-----------------------------------------------------------------------------

ChartInit ==
    \/ /\ panel = "candles" /\ Untouched
       /\ \E west \in BOOLEAN :
             view = [interval |-> "daily", vp |-> FALSE, profile |-> None, west |-> west]
    \/ panel = "compare" /\ Untouched /\ view = [none |-> None]
    \/ panel = "vix" /\ Untouched /\ view = [rethemed |-> FALSE]
    \/ /\ panel = "indicator"
       /\ query = None /\ data = None /\ loading = TRUE /\ error = FALSE
       /\ calls = <<>> /\ overtaken = FALSE /\ overlapped = FALSE
       /\ drawn = [price |-> None, lines |-> <<>>]
       /\ view = [none |-> None]

ChartNext ==
    \/ \E t \in Ticker : CandlesLoad(t) \/ PickIndicatorTicker(t)
    \/ CandlesArrive \/ ToggleProfile \/ \E interval \in Interval : PickInterval(interval)
    \/ CompareArrives
    \/ \E S \in SUBSET Ticker : panel = "compare" /\ PickTickers(S)
    \/ \E d \in Days : (panel = "compare" /\ PickCompareDays(d)) \/ VixLoads(d)
    \/ VixArrives \/ VixRethemed
    \/ IndicatorArrives \/ \E indicator \in Indicator : PickIndicator(indicator)

\* The candles tell of all bars and of nothing else: the same volume between the same
\* prices, from the first open to the last close, in order of time.
Conserved(bars, candles) ==
    /\ Volume(candles, DOMAIN candles) = Volume(bars, DOMAIN bars)
    /\ Highest(candles, DOMAIN candles) = Highest(bars, DOMAIN bars)
    /\ Lowest(candles, DOMAIN candles) = Lowest(bars, DOMAIN bars)
    /\ candles[1].open = bars[1].open /\ Last(candles).close = Last(bars).close
    /\ \A i, j \in DOMAIN candles : i < j => candles[i].day < candles[j].day

\* The profile has the volume of all candles but those that close below the range.
Profiled(candles, bins) ==
    SumFunction([n \in DOMAIN bins |-> bins[n].buy + bins[n].sell]) =
        Volume(candles, {i \in DOMAIN candles :
                            candles[i].close >= Lowest(candles, DOMAIN candles)})

\* Whatever the interval, nothing of the bars is lost or told twice.  To the west of
\* Greenwich, though, a week is not a calendar week.
CandlesConserve ==
    panel = "candles" /\ drawn # None =>
        LET bars == Bars[drawn.of]
            candles == CandlesOf[drawn.of][drawn.interval][view.west]
            bins == BinsOf[drawn.of][drawn.interval][view.west]
        IN  /\ Conserved(bars, candles)
            /\ drawn.interval = "weekly" /\ ~view.west =>
                  Len(candles) = Cardinality({b.day \div 7 : b \in Range(bars)})
            /\ bins # <<>> => Profiled(candles, bins)

\* A canvas shows what its panel has loaded, in the way that is chosen: except for the
\* VIX after a change of theme, candles of a ticker without bars, and
\* indicators that were loaded twice at a time.
ChartDrawsData ==
    /\ panel = "candles" /\ data # None =>
          /\ Bars[data] # <<>> => drawn = [of |-> data, interval |-> view.interval]
          /\ view.profile = IF view.vp THEN [of |-> data, interval |-> view.interval] ELSE None
    /\ panel = "compare" /\ data # None => drawn = [t \in data.tickers |-> data.days]
    /\ panel = "vix" => drawn = data \/ (drawn = None /\ view.rethemed)
    /\ panel = "indicator" /\ Settled /\ ~overlapped =>
          /\ drawn = [price |-> data.ticker, lines |-> <<data>>]
          /\ Legend(query.indicator) \subseteq {line.name : line \in LinesOf(data.indicator)}

\* The overlay the documentation promises: every line of an indicator that was loaded
\* has values to draw.
OverlayHasValues ==
    panel = "indicator" /\ Settled /\ ~overlapped =>
        \A line \in LinesOf(data.indicator) : line.key \in ServerColumns(data.indicator)
=============================================================================
