--------------------------- MODULE DashboardProofs ---------------------------
(***************************************************************************)
(* What the panels of the dashboard show is what is chosen in them, what   *)
(* they list is what the server has, and a conversation is its own, for    *)
(* any tickers, words, answers and items and any number of calls, in       *)
(* whatever order their answers come.  Every panel is proved by itself.    *)
(***************************************************************************)
EXTENDS MCDashboard, DataLemmas

-----------------------------------------------------------------------------
(* The calls in flight less one.                                           *)

LEMMA RemainingFacts ==
    ASSUME Sequence(calls), NEW i \in DOMAIN calls
    PROVE  /\ Sequence(Remaining(i)) /\ Len(Remaining(i)) = Len(calls) - 1
           /\ Len(calls) \in Nat \ {0} /\ i \in 1 .. Len(calls)
           /\ \A k \in 1 .. Len(calls) - 1 :
                 Remaining(i)[k] = IF k < i THEN calls[k] ELSE calls[k + 1]
<1>1. Len(calls) \in Nat \ {0} /\ i \in 1 .. Len(calls) /\ Len(calls) - 1 \in Nat
  BY SequenceFacts
<1>2. \A k \in 1 .. Len(calls) - 1 :
          Remaining(i)[k] = IF k < i THEN calls[k] ELSE calls[k + 1]
  BY DEF Remaining
<1>3. Remaining(i) = [k \in 1 .. Len(calls) - 1 |-> Remaining(i)[k]]
  BY DEF Remaining
<1>4. Sequence(Remaining(i)) /\ Len(Remaining(i)) = Len(calls) - 1
  <2> DEFINE r == Remaining(i)
             n == Len(calls) - 1
  <2>1. n \in Nat /\ r = [k \in 1 .. n |-> r[k]]
    BY <1>1, <1>3
  <2> HIDE DEF r, n
  <2>2. Sequence(r) /\ Len(r) = n
    BY <2>1, SequenceOf
  <2> QED BY <2>2 DEF r, n
<1> QED BY <1>1, <1>2, <1>4

\* Whatever remains was there, and what was there but for call i remains.
LEMMA RemainingSame ==
    ASSUME Sequence(calls), NEW i \in DOMAIN calls
    PROVE  /\ \A k \in DOMAIN Remaining(i) : \E j \in DOMAIN calls : j # i /\ Remaining(i)[k] = calls[j]
           /\ \A j \in DOMAIN calls : j # i => \E k \in DOMAIN Remaining(i) : Remaining(i)[k] = calls[j]
<1>1. /\ Len(calls) \in Nat \ {0} /\ i \in 1 .. Len(calls) /\ DOMAIN calls = 1 .. Len(calls)
      /\ DOMAIN Remaining(i) = 1 .. Len(calls) - 1
      /\ \A k \in 1 .. Len(calls) - 1 :
            Remaining(i)[k] = IF k < i THEN calls[k] ELSE calls[k + 1]
  BY RemainingFacts, SequenceFacts
<1>2. ASSUME NEW k \in DOMAIN Remaining(i)
      PROVE  \E j \in DOMAIN calls : j # i /\ Remaining(i)[k] = calls[j]
  <2>1. k \in 1 .. Len(calls) - 1
    BY <1>1
  <2>2. CASE k < i
    <3>1. k \in DOMAIN calls /\ k # i /\ Remaining(i)[k] = calls[k]
      BY <1>1, <2>1, <2>2
    <3> QED BY <3>1
  <2>3. CASE ~(k < i)
    <3>1. k + 1 \in DOMAIN calls /\ k + 1 # i /\ Remaining(i)[k] = calls[k + 1]
      BY <1>1, <2>1, <2>3
    <3> QED BY <3>1
  <2> QED BY <2>2, <2>3
<1>3. ASSUME NEW j \in DOMAIN calls, j # i
      PROVE  \E k \in DOMAIN Remaining(i) : Remaining(i)[k] = calls[j]
  <2>1. CASE j < i
    <3>1. j \in DOMAIN Remaining(i) /\ Remaining(i)[j] = calls[j]
      BY <1>1, <2>1
    <3> QED BY <3>1
  <2>2. CASE ~(j < i)
    <3>1. j - 1 \in DOMAIN Remaining(i) /\ Remaining(i)[j - 1] = calls[j]
      BY <1>1, <1>3, <2>2
    <3> QED BY <3>1
  <2> QED BY <2>1, <2>2
<1> QED BY <1>2, <1>3

-----------------------------------------------------------------------------
(***************************************************************************)
(* The panels that load what is chosen.  Whatever answers overtook, the    *)
(* last call made is for what is chosen; unless two calls were in flight,  *)
(* nothing was overtaken and the panel says that it is loading.            *)
(***************************************************************************)
LoadPanels == {"news", "fundamentals", "table", "candles", "compare", "vix", "indicator"}

Flags ==
    /\ loading \in BOOLEAN /\ error \in BOOLEAN /\ overtaken \in BOOLEAN /\ overlapped \in BOOLEAN
    /\ Sequence(calls) /\ Len(calls) <= MaxCalls

FetchOK ==
    /\ ~overtaken /\ calls # <<>> => calls[Len(calls)] = query
    /\ ~overtaken /\ calls = <<>> => (error \/ data = query)
    /\ calls = <<>> /\ query # None => ~loading
    /\ ~overlapped => (~overtaken /\ Len(calls) <= 1 /\ (calls # <<>> => loading))

NewsOK == ~overlapped => view.article = None \/ (calls = <<>> /\ (error \/ view.article = query))

TableOK ==
    /\ view \in [col : Columns, dir : {"asc", "desc"}, page : Nat]
    /\ query \in Ticker \cup {None} /\ data \in Ticker \cup {None}
    /\ \A i \in DOMAIN calls : calls[i] \in Ticker
    /\ ~overlapped => view.page = 0 \/ (calls = <<>> /\ view.page * PageSize < Len(TableRows))

LoadInv ==
    panel \in LoadPanels =>
        Flags /\ FetchOK /\ (panel = "news" => NewsOK) /\ (panel = "table" => TableOK)

\* The effect, and the rest of load() once its call is over, whatever a panel does then.
Fetches ==
    \/ \E q : Load(q)
    \/ \E i \in DOMAIN calls : CallAnswered(i) \/ CallFailed(i)
    \/ UNCHANGED fetchVars

LEMMA LoadBegins ==
    ASSUME Flags, FetchOK, NEW q, Load(q)
    PROVE  Flags' /\ FetchOK' /\ calls' # <<>>
<1>1. /\ query' = q /\ loading' = TRUE /\ error' = FALSE /\ data' = data
      /\ Len(calls) < MaxCalls /\ calls' = Append(calls, q)
      /\ overlapped' = (calls # <<>>) /\ overtaken' = (overtaken /\ calls # <<>>)
  BY DEF Load, Call
<1>2. Len(calls) \in Nat /\ (calls = <<>> <=> Len(calls) = 0)
  BY SequenceFacts DEF Flags
<1>3. /\ Sequence(calls') /\ Len(calls') = Len(calls) + 1 /\ calls' # <<>>
      /\ calls'[Len(calls) + 1] = q
  BY <1>1, AppendFacts DEF Flags
<1>4. Len(calls') <= MaxCalls
  BY <1>1, <1>2, <1>3, PanelAssumption
<1>5. loading' \in BOOLEAN /\ error' \in BOOLEAN /\ overtaken' \in BOOLEAN /\ overlapped' \in BOOLEAN
  BY <1>1
<1>6. calls'[Len(calls')] = query'
  BY <1>1, <1>3
<1>7. ASSUME ~overlapped' PROVE ~overtaken' /\ Len(calls') <= 1
  <2>1. calls = <<>>
    BY <1>1, <1>7
  <2>2. ~overtaken'
    BY <1>1, <2>1
  <2> QED BY <1>2, <1>3, <2>1, <2>2
<1> QED BY <1>1, <1>3, <1>4, <1>5, <1>6, <1>7 DEF Flags, FetchOK

LEMMA CallEnds ==
    ASSUME Flags, FetchOK, NEW i \in DOMAIN calls, CallAnswered(i) \/ CallFailed(i)
    PROVE  Flags' /\ FetchOK' /\ calls # <<>>
<1>1. /\ query' = query /\ overlapped' = overlapped /\ loading' = FALSE
      /\ calls' = Remaining(i) /\ overtaken' = (overtaken \/ i > 1)
      /\ \/ data' = calls[i] /\ error' = error
         \/ data' = data /\ error' = TRUE
  BY DEF CallAnswered, CallFailed, TakeCall
<1>2. /\ Sequence(calls') /\ Len(calls') = Len(calls) - 1
      /\ Len(calls) \in Nat \ {0} /\ i \in 1 .. Len(calls)
      /\ \A k \in 1 .. Len(calls) - 1 : calls'[k] = IF k < i THEN calls[k] ELSE calls[k + 1]
  BY <1>1, RemainingFacts DEF Flags
<1>3. /\ calls # <<>>
      /\ calls' = <<>> <=> Len(calls) = 1
  BY <1>2, SequenceFacts DEF Flags
<1>4. Flags'
  <2>1. Len(calls') <= MaxCalls
    BY <1>2, PanelAssumption DEF Flags
  <2>2. error' \in BOOLEAN
    BY <1>1 DEF Flags
  <2> QED BY <1>1, <1>2, <2>1, <2>2 DEF Flags
<1>5. ASSUME ~overtaken' PROVE i = 1 /\ ~overtaken /\ calls[Len(calls)] = query
  <2>1. ~overtaken /\ ~(i > 1)
    BY <1>1, <1>5
  <2>2. i = 1
    BY <1>2, <2>1
  <2> QED BY <1>3, <2>1, <2>2 DEF FetchOK
<1>6. ASSUME ~overtaken', calls' # <<>> PROVE calls'[Len(calls')] = query'
  <2>1. Len(calls) - 1 \in 1 .. Len(calls) - 1
    BY <1>2, <1>3, <1>6
  <2> QED BY <1>1, <1>2, <1>5, <1>6, <2>1
<1>7. ASSUME ~overtaken', calls' = <<>> PROVE error' \/ data' = query'
  BY <1>1, <1>2, <1>3, <1>5, <1>7
<1>8. ASSUME ~overlapped' PROVE ~overtaken' /\ Len(calls') <= 1 /\ calls' = <<>>
  <2>1. ~overlapped
    BY <1>1, <1>8
  <2>2. ~overtaken /\ Len(calls) <= 1
    BY <2>1 DEF FetchOK
  <2>3. Len(calls) = 1 /\ ~(i > 1)
    BY <1>2, <2>2
  <2>4. ~overtaken'
    BY <1>1, <2>2, <2>3
  <2> QED BY <1>2, <1>3, <2>3, <2>4
<1> QED BY <1>1, <1>3, <1>4, <1>6, <1>7, <1>8 DEF FetchOK

LEMMA FetchStep ==
    ASSUME Flags, FetchOK, Fetches
    PROVE  Flags' /\ FetchOK'
<1>1. CASE UNCHANGED fetchVars
  BY <1>1 DEF fetchVars, Flags, FetchOK
<1> QED BY <1>1, LoadBegins, CallEnds DEF Fetches

\* Every step of these panels is one of their loading.
LEMMA LoadPanelStep ==
    ASSUME TickerPanelNext \/ ChartNext
    PROVE  panel \in LoadPanels /\ panel' = panel /\ Fetches
<1>1. ASSUME NEW t \in Ticker, NewsLoads(t) \/ FundamentalsLoad(t) \/ TableLoads(t)
      PROVE  panel \in LoadPanels /\ panel' = panel /\ Fetches
  BY <1>1 DEF NewsLoads, FundamentalsLoad, TableLoads, LoadPanels, Fetches
<1>2. ASSUME NewsArrives \/ FundamentalsArrive \/ TableArrives
      PROVE  panel \in LoadPanels /\ panel' = panel /\ Fetches
  BY <1>2 DEF NewsArrives, FundamentalsArrive, TableArrives, LoadPanels, Fetches
<1>3. ASSUME ArticleOpens \/ ArticleCloses \/ TableTurns \/ \E col \in Columns : TableSorts(col)
      PROVE  panel \in LoadPanels /\ panel' = panel /\ Fetches
  BY <1>3 DEF ArticleOpens, ArticleCloses, TableTurns, TableSorts, LoadPanels, Fetches
<1>4. ASSUME NEW t \in Ticker, CandlesLoad(t) \/ PickIndicatorTicker(t)
      PROVE  panel \in LoadPanels /\ panel' = panel /\ Fetches
  BY <1>4 DEF CandlesLoad, PickIndicatorTicker, IndicatorLoads, LoadPanels, Fetches
<1>5. ASSUME CandlesArrive \/ CompareArrives \/ VixArrives \/ IndicatorArrives
      PROVE  panel \in LoadPanels /\ panel' = panel /\ Fetches
  BY <1>5 DEF CandlesArrive, CompareArrives, VixArrives, IndicatorArrives, LoadPanels, Fetches
<1>6. ASSUME ToggleProfile \/ VixRethemed \/ \E interval \in Interval : PickInterval(interval)
      PROVE  panel \in LoadPanels /\ panel' = panel /\ Fetches
  BY <1>6 DEF ToggleProfile, VixRethemed, PickInterval, LoadPanels, Fetches
<1>7. ASSUME NEW S \in SUBSET Ticker, panel = "compare", PickTickers(S)
      PROVE  panel \in LoadPanels /\ panel' = panel /\ Fetches
  BY <1>7 DEF PickTickers, CompareLoads, LoadPanels, Fetches
<1>8. ASSUME NEW d \in Days, PickCompareDays(d) \/ VixLoads(d)
      PROVE  panel \in LoadPanels /\ panel' = panel /\ Fetches
  BY <1>8 DEF PickCompareDays, CompareLoads, VixLoads, LoadPanels, Fetches
<1>9. ASSUME NEW indicator \in Indicator, PickIndicator(indicator)
      PROVE  panel \in LoadPanels /\ panel' = panel /\ Fetches
  BY <1>9 DEF PickIndicator, IndicatorLoads, LoadPanels, Fetches
<1> QED BY <1>1, <1>2, <1>3, <1>4, <1>5, <1>6, <1>7, <1>8, <1>9 DEF TickerPanelNext, ChartNext

LEMMA NewsStep ==
    ASSUME Flags, FetchOK, NewsOK, panel = "news", TickerPanelNext \/ ChartNext
    PROVE  NewsOK'
<1>1. ASSUME NEW t \in Ticker, NewsLoads(t) PROVE NewsOK'
  <2>1. view' = view /\ view.article = None
    BY <1>1 DEF NewsLoads
  <2> QED BY <2>1 DEF NewsOK
<1>2. CASE NewsArrives
  <2>1. PICK i \in DOMAIN calls : CallAnswered(i) \/ CallFailed(i)
    BY <1>2 DEF NewsArrives
  <2>2. view' = view /\ overlapped' = overlapped /\ calls # <<>>
    BY <1>2, <2>1, CallEnds DEF NewsArrives, CallAnswered, CallFailed, TakeCall
  <2> QED BY <2>2 DEF NewsOK
<1>3. CASE ArticleOpens
  <2>1. view'.article = data /\ ~loading /\ UNCHANGED <<query, data, loading, error, calls, overtaken, overlapped>>
    BY <1>3 DEF ArticleOpens, ArticleList, fetchVars
  <2> QED BY <2>1 DEF NewsOK, FetchOK
<1>4. CASE ArticleCloses
  <2>1. view'.article = None
    BY <1>4 DEF ArticleCloses
  <2> QED BY <2>1 DEF NewsOK
<1>5. ~ChartNext
  BY DEF ChartNext, CandlesLoad, PickIndicatorTicker, IndicatorLoads, CandlesArrive, CompareArrives,
         VixArrives, IndicatorArrives, ToggleProfile, VixRethemed, PickInterval, PickTickers,
         VixLoads, PickIndicator
<1> QED BY <1>1, <1>2, <1>3, <1>4, <1>5
        DEF TickerPanelNext, FundamentalsLoad, TableLoads, FundamentalsArrive, TableArrives,
            TableTurns, TableSorts

LEMMA LastPage ==
    ASSUME NEW n \in Nat \ {0}, NEW p \in 0 .. (n - 1) \div PageSize
    PROVE  p * PageSize < n
<1> DEFINE d == (n - 1) \div PageSize
<1>1. PageSize \in Nat \ {0} /\ n - 1 \in Nat
  BY TableAssumption
<1>2. d \in Nat /\ d * PageSize <= n - 1
  BY <1>1
<1> HIDE DEF d
<1>3. p \in Nat /\ p <= d
  BY <1>2 DEF d
<1>4. p * PageSize <= d * PageSize
  BY <1>1, <1>2, <1>3
<1>5. p * PageSize \in Int /\ d * PageSize \in Int
  BY <1>1, <1>2, <1>3
<1> QED BY <1>1, <1>2, <1>4, <1>5

LEMMA SortedLength ==
    ASSUME data \in Ticker \cup {None}
    PROVE  Sequence(Sorted) /\ Len(Sorted) = Len(TableRows) /\ Len(TableRows) \in Nat
<1>1. TableRows \in Seq([date : Int, close : Int])
  <2>1. CASE data = None
    BY <2>1 DEF TableRows
  <2>2. CASE data # None
    <3>1. data \in Ticker
      BY <2>2
    <3> QED BY <2>2, <3>1, TableAssumption DEF TableRows
  <2> QED BY <2>1, <2>2
<1>2. Len(TableRows) \in Nat /\ DOMAIN TableRows = 1 .. Len(TableRows)
  BY <1>1
<1>3. Sorted = [n \in DOMAIN TableRows |-> Sorted[n]]
  BY DEF Sorted
<1>4. Sorted = [n \in 1 .. Len(TableRows) |-> Sorted[n]]
  BY <1>2, <1>3
<1> QED BY <1>2, <1>4, SequenceOf

LEMMA TableStep ==
    ASSUME Flags, FetchOK, TableOK, panel = "table", TickerPanelNext \/ ChartNext
    PROVE  TableOK'
<1>1. ASSUME NEW t \in Ticker, TableLoads(t) PROVE TableOK'
  <2>1. Load(t) /\ view' = [view EXCEPT !.page = 0]
    BY <1>1 DEF TableLoads, FirstPage
  <2>2. query' = t /\ data' = data /\ calls' = Append(calls, t)
    BY <2>1 DEF Load, Call
  <2>3. view' \in [col : Columns, dir : {"asc", "desc"}, page : Nat] /\ view'.page = 0
    BY <2>1 DEF TableOK
  <2>4. /\ Sequence(calls') /\ Len(calls') = Len(calls) + 1 /\ calls'[Len(calls) + 1] = t
        /\ \A i \in 1 .. Len(calls) : calls'[i] = calls[i]
        /\ Len(calls) \in Nat /\ DOMAIN calls = 1 .. Len(calls)
    BY <2>2, AppendFacts, SequenceFacts DEF Flags
  <2>5. DOMAIN calls' = 1 .. Len(calls) + 1
    BY <2>4, SequenceFacts
  <2>6. \A i \in DOMAIN calls' : calls'[i] \in Ticker
    <3> TAKE i \in DOMAIN calls'
    <3>1. CASE i = Len(calls) + 1
      BY <2>4, <3>1
    <3>2. CASE i # Len(calls) + 1
      <4>1. i \in DOMAIN calls /\ calls'[i] = calls[i]
        BY <2>4, <2>5, <3>2
      <4> QED BY <4>1 DEF TableOK
    <3> QED BY <3>1, <3>2
  <2>7. query' \in Ticker \cup {None} /\ data' \in Ticker \cup {None}
    BY <2>2 DEF TableOK
  <2> QED BY <2>3, <2>6, <2>7 DEF TableOK
<1>2. CASE TableArrives
  <2>1. PICK i \in DOMAIN calls : CallAnswered(i) \/ CallFailed(i)
    BY <1>2 DEF TableArrives
  <2>2. /\ view' = view /\ overlapped' = overlapped /\ query' = query /\ calls' = Remaining(i)
        /\ data' = calls[i] \/ data' = data
        /\ calls # <<>>
    BY <1>2, <2>1, CallEnds DEF TableArrives, CallAnswered, CallFailed, TakeCall
  <2>3. data' \in Ticker \cup {None}
    BY <2>2 DEF TableOK
  <2>4. \A k \in DOMAIN calls' : calls'[k] \in Ticker
    <3> TAKE k \in DOMAIN calls'
    <3>1. PICK j \in DOMAIN calls : calls'[k] = calls[j]
      BY <2>2, RemainingSame DEF Flags
    <3> QED BY <3>1 DEF TableOK
  <2>5. ~overlapped' => view'.page = 0
    BY <2>2 DEF TableOK
  <2> QED BY <2>2, <2>3, <2>4, <2>5 DEF TableOK
<1>3. CASE TableTurns
  <2>1. PICK p \in Pages \ {view.page} : view' = [view EXCEPT !.page = p]
    BY <1>3 DEF TableTurns
  <2>2. UNCHANGED fetchVars
    BY <1>3 DEF TableTurns
  <2>3. query' = query /\ data' = data /\ calls' = calls /\ overlapped' = overlapped
    BY <2>2 DEF fetchVars
  <2>4. ~loading /\ Len(Sorted) > PageSize /\ p \in 0 .. (Len(Sorted) - 1) \div PageSize
    BY <2>1 DEF Pages
  <2>5. Len(TableRows) \in Nat \ {0} /\ Len(Sorted) = Len(TableRows)
    BY <2>4, SortedLength, TableAssumption DEF TableOK
  <2>6. p * PageSize < Len(TableRows)
    BY <2>4, <2>5, LastPage
  <2>7. p \in Nat
    <3>1. PageSize \in Nat \ {0} /\ Len(Sorted) - 1 \in Nat
      BY <2>5, TableAssumption
    <3>2. (Len(Sorted) - 1) \div PageSize \in Int
      BY <3>1
    <3> QED BY <2>4, <3>2
  <2>8. ~overlapped => calls = <<>>
    BY <2>4 DEF FetchOK
  <2>9. view'.page = p /\ view' \in [col : Columns, dir : {"asc", "desc"}, page : Nat]
    BY <2>1, <2>7 DEF TableOK
  <2>10. TableRows' = TableRows
    BY <2>3 DEF TableRows
  <2> QED BY <2>3, <2>6, <2>8, <2>9, <2>10 DEF TableOK
<1>4. ASSUME NEW col \in Columns, TableSorts(col) PROVE TableOK'
  <2>1. view' = AfterSort(col) /\ UNCHANGED fetchVars
    BY <1>4 DEF TableSorts
  <2>2. query' = query /\ data' = data /\ calls' = calls
    BY <2>1 DEF fetchVars
  <2>3. view' \in [col : Columns, dir : {"asc", "desc"}, page : Nat] /\ view'.page = 0
    BY <2>1 DEF AfterSort
  <2> QED BY <2>2, <2>3 DEF TableOK
<1>5. ~ChartNext
  BY DEF ChartNext, CandlesLoad, PickIndicatorTicker, IndicatorLoads, CandlesArrive, CompareArrives,
         VixArrives, IndicatorArrives, ToggleProfile, VixRethemed, PickInterval, PickTickers,
         VixLoads, PickIndicator, PickCompareDays, CompareLoads
<1> QED BY <1>1, <1>2, <1>3, <1>4, <1>5
        DEF TickerPanelNext, NewsLoads, FundamentalsLoad, NewsArrives, FundamentalsArrive,
            ArticleOpens, ArticleCloses

LEMMA LoadInvStep ==
    ASSUME LoadInv, TickerPanelNext \/ ChartNext
    PROVE  LoadInv'
<1>1. panel \in LoadPanels /\ panel' = panel /\ Fetches
  BY LoadPanelStep
<1>2. Flags /\ FetchOK /\ (panel = "news" => NewsOK) /\ (panel = "table" => TableOK)
  BY <1>1 DEF LoadInv
<1>3. Flags' /\ FetchOK'
  BY <1>1, <1>2, FetchStep
<1>4. panel = "news" => NewsOK'
  BY <1>2, NewsStep
<1>5. panel = "table" => TableOK'
  BY <1>2, TableStep
<1> QED BY <1>1, <1>3, <1>4, <1>5 DEF LoadInv

LEMMA LoadInvInit ==
    ASSUME TickerPanelInit \/ ChartInit
    PROVE  LoadInv
<1>1. /\ query = None /\ data = None /\ loading = TRUE /\ error = FALSE
      /\ calls = <<>> /\ overtaken = FALSE /\ overlapped = FALSE
  BY DEF TickerPanelInit, ChartInit, Untouched
<1>2. Sequence(calls) /\ Len(calls) = 0
  <2>1. calls = <<>> /\ <<>> = [i \in 1 .. 0 |-> <<>>[i]]
    BY <1>1
  <2> QED BY <2>1, SequenceOf
<1>3. Flags
  <2>1. loading \in BOOLEAN /\ error \in BOOLEAN /\ overtaken \in BOOLEAN /\ overlapped \in BOOLEAN
    BY <1>1
  <2> QED BY <1>2, <2>1, PanelAssumption DEF Flags
<1>4. FetchOK
  BY <1>1, <1>2 DEF FetchOK
<1>5. panel = "news" => NewsOK
  BY DEF TickerPanelInit, ChartInit, NewsOK
<1>6. panel = "table" => TableOK
  BY <1>1 DEF TickerPanelInit, ChartInit, TableOK, Columns
<1> QED BY <1>3, <1>4, <1>5, <1>6 DEF LoadInv

LEMMA LoadedIsChosen ==
    ASSUME LoadInv
    PROVE  /\ TickerPanelShowsChoice
           /\ panel \in {"candles", "compare", "vix", "indicator"} /\ Settled => data = query
<1>1. ASSUME panel \in LoadPanels, Settled
      PROVE  data = query /\ ~loading /\ query # None /\ calls = <<>>
  BY <1>1 DEF LoadInv, FetchOK, Settled, Quiet
<1>2. ASSUME panel = "news", Settled
      PROVE  ArticleList = query /\ (~overlapped => view.article \in {None, query})
  BY <1>1, <1>2 DEF LoadInv, NewsOK, ArticleList, Settled, LoadPanels
<1>3. ASSUME panel = "fundamentals", Settled PROVE Metrics = query
  BY <1>1, <1>3 DEF Metrics, LoadPanels
<1>4. ASSUME panel = "table", Settled
      PROVE  data = query /\ (~overlapped => PageRows # <<>> \/ Rows[query] = <<>>)
  <2>1. data = query /\ query # None
    BY <1>1, <1>4 DEF LoadPanels
  <2>2. ASSUME ~overlapped, Rows[query] # <<>> PROVE PageRows # <<>>
    <3> DEFINE from == view.page * PageSize
               to == IF from + PageSize < Len(Sorted) THEN from + PageSize ELSE Len(Sorted)
    <3>1. TableOK
      BY <1>4 DEF LoadInv, LoadPanels
    <3>2. TableRows = Rows[query] /\ query \in Ticker
      BY <2>1, <3>1 DEF TableRows, TableOK
    <3>3. Len(TableRows) \in Nat \ {0}
      BY <2>2, <3>2, TableAssumption
    <3>4. Sequence(Sorted) /\ Len(Sorted) = Len(TableRows)
      BY <3>1, SortedLength DEF TableOK
    <3>5. from \in Nat /\ from < Len(Sorted) /\ PageSize \in Nat \ {0}
      <4>1. view.page \in Nat /\ PageSize \in Nat \ {0}
        BY <3>1, TableAssumption DEF TableOK
      <4>2. from \in Nat
        BY <4>1
      <4>3. CASE view.page = 0
        BY <3>3, <3>4, <4>1, <4>3
      <4>4. CASE view.page # 0
        BY <2>2, <3>1, <3>4, <4>1, <4>4 DEF TableOK
      <4> QED BY <4>1, <4>2, <4>3, <4>4
    <3>6. PageRows = SubSeq(Sorted, from + 1, to)
      BY DEF PageRows
    <3> HIDE DEF from
    <3>7. to \in Nat /\ from + 1 <= to /\ to <= Len(Sorted)
      BY <3>3, <3>4, <3>5
    <3> HIDE DEF to
    <3>8. Sorted \in Seq({Sorted[i] : i \in DOMAIN Sorted})
      BY <3>4 DEF Sequence
    <3> DEFINE sorted == Sorted
               S == {Sorted[i] : i \in DOMAIN Sorted}
    <3>9. sorted \in Seq(S) /\ PageRows = SubSeq(sorted, from + 1, to) /\ to <= Len(sorted)
      BY <3>6, <3>7, <3>8
    <3> HIDE DEF sorted, S
    <3>10. Len(SubSeq(sorted, from + 1, to)) = to - from
      BY <3>5, <3>7, <3>9
    <3> QED BY <3>5, <3>7, <3>9, <3>10
  <2> QED BY <2>1, <2>2
<1>5. panel \in {"candles", "compare", "vix", "indicator"} /\ Settled => data = query
  BY <1>1 DEF LoadPanels
<1> QED BY <1>2, <1>3, <1>4, <1>5 DEF TickerPanelShowsChoice

-----------------------------------------------------------------------------
(***************************************************************************)
(* The canvases.  Candles, comparison and VIX are drawn when their data    *)
(* come; the lines of an indicator are removed when it is loaded and added *)
(* when it comes, so that a call which was alone added to none.            *)
(***************************************************************************)

CandlesOK ==
    /\ view = [interval |-> view.interval, vp |-> view.vp, profile |-> view.profile,
               west |-> view.west]
    /\ view.vp \in BOOLEAN /\ view.interval \in Interval /\ view.west \in BOOLEAN
    /\ calls \in Seq(Ticker) /\ data \in Ticker \cup {None}
    /\ drawn # None => /\ drawn.of \in Ticker /\ Bars[drawn.of] # <<>>
                       /\ drawn.interval \in Interval
    /\ data # None =>
          /\ Bars[data] # <<>> => drawn = [of |-> data, interval |-> view.interval]
          /\ view.profile = IF view.vp THEN [of |-> data, interval |-> view.interval] ELSE None

CompareOK == data # None => drawn = [t \in data.tickers |-> data.days]

VixOK == drawn = data \/ (drawn = None /\ view.rethemed)

IndicatorOK ==
    /\ drawn = [price |-> drawn.price, lines |-> drawn.lines]
    /\ query # None => /\ query = [ticker |-> query.ticker, indicator |-> query.indicator]
                       /\ query.indicator \in IndicatorType
    /\ ~overlapped /\ calls # <<>> => drawn.lines = <<>>
    /\ ~overlapped /\ calls = <<>> /\ query # None =>
          error \/ drawn = [price |-> data.ticker, lines |-> <<data>>]

ChartInv ==
    /\ panel = "candles" => CandlesOK
    /\ panel = "compare" => CompareOK
    /\ panel = "vix" => VixOK
    /\ panel = "indicator" => IndicatorOK

LEMMA CandlesStep ==
    ASSUME CandlesOK, panel = "candles", ChartNext
    PROVE  CandlesOK'
<1>1. ASSUME NEW t \in Ticker, CandlesLoad(t) PROVE CandlesOK'
  <2>1. view' = view /\ drawn' = drawn /\ data' = data /\ calls' = Append(calls, t)
    BY <1>1 DEF CandlesLoad, Load, Call
  <2>2. calls' \in Seq(Ticker)
    BY <2>1 DEF CandlesOK
  <2> QED BY <2>1, <2>2 DEF CandlesOK
<1>2. ASSUME NEW t \in Ticker \cup {None}, NEW interval \in Interval, Redraw(t, interval), data' = t,
             calls' \in Seq(Ticker)
      PROVE  CandlesOK'
  <2>1. view' = [interval |-> interval, vp |-> view.vp, west |-> view.west,
                 profile |-> IF view.vp THEN [of |-> t, interval |-> interval] ELSE None]
    BY <1>2 DEF Redraw, CandlesOK
  <2>2. t # None /\ Bars[t] # <<>> => drawn' = [of |-> t, interval |-> interval]
    BY <1>2 DEF Redraw
  <2>3. drawn' # None => /\ drawn'.of \in Ticker /\ Bars[drawn'.of] # <<>>
                         /\ drawn'.interval \in Interval
    <3>1. CASE t = None \/ Bars[t] = <<>>
      BY <1>2, <3>1 DEF Redraw, CandlesOK
    <3>2. CASE t # None /\ Bars[t] # <<>>
      BY <1>2, <2>2, <3>2
    <3> QED BY <3>1, <3>2
  <2> QED BY <1>2, <2>1, <2>2, <2>3 DEF CandlesOK
<1>3. CASE CandlesArrive
  <2>1. PICK i \in DOMAIN calls : \/ CallAnswered(i) /\ Redraw(calls[i], view.interval)
                                  \/ CallFailed(i) /\ UNCHANGED <<view, drawn>>
    BY <1>3 DEF CandlesArrive
  <2>2. calls \in Seq(Ticker) /\ calls[i] \in Ticker
    BY DEF CandlesOK
  <2>3. calls' \in Seq(Ticker)
    <3>1. calls' = Remaining(i)
      BY <2>1 DEF CallAnswered, CallFailed, TakeCall
    <3>2. Len(calls) - 1 \in Nat /\ i \in 1 .. Len(calls)
      BY <2>2
    <3>3. \A k \in 1 .. Len(calls) - 1 :
            (IF k < i THEN calls[k] ELSE calls[k + 1]) \in Ticker
      BY <2>2, <3>2
    <3> QED BY <3>1, <3>2, <3>3 DEF Remaining
  <2>4. CASE CallAnswered(i) /\ Redraw(calls[i], view.interval)
    <3>1. data' = calls[i]
      BY <2>4 DEF CallAnswered
    <3>2. view.interval \in Interval
      BY DEF CandlesOK
    <3> QED BY <1>2, <2>2, <2>3, <2>4, <3>1, <3>2
  <2>5. CASE CallFailed(i) /\ UNCHANGED <<view, drawn>>
    BY <2>3, <2>5 DEF CallFailed, CandlesOK
  <2> QED BY <2>1, <2>4, <2>5
<1>4. ASSUME NEW interval \in Interval, PickInterval(interval) PROVE CandlesOK'
  <2>1. Redraw(data, interval) /\ data' = data /\ calls' = calls
    BY <1>4 DEF PickInterval, fetchVars
  <2>2. data \in Ticker \cup {None} /\ calls \in Seq(Ticker)
    BY DEF CandlesOK
  <2> QED BY <1>2, <2>1, <2>2
<1>5. CASE ToggleProfile
  <2>1. /\ view' = [interval |-> view.interval, vp |-> ~view.vp, west |-> view.west,
                    profile |-> IF view.vp THEN None
                                ELSE [of |-> data, interval |-> view.interval]]
        /\ data' = data /\ drawn' = drawn /\ calls' = calls
    BY <1>5 DEF ToggleProfile, fetchVars, CandlesOK
  <2> QED BY <2>1 DEF CandlesOK
<1> QED BY <1>1, <1>3, <1>4, <1>5
        DEF ChartNext, PickIndicatorTicker, CompareArrives, PickTickers, CompareLoads, VixLoads,
            VixArrives, VixRethemed, IndicatorArrives, PickIndicator

LEMMA CompareStep ==
    ASSUME CompareOK, panel = "compare", ChartNext
    PROVE  CompareOK'
<1>1. ASSUME NEW q, CompareLoads(q) PROVE CompareOK'
  <2>1. drawn' = drawn /\ data' = data
    BY <1>1 DEF CompareLoads, Load
  <2> QED BY <2>1 DEF CompareOK
<1>2. CASE CompareArrives
  <2>1. PICK i \in DOMAIN calls : \/ CallAnswered(i) /\ drawn' = SyncLines(calls[i])
                                  \/ CallFailed(i) /\ UNCHANGED drawn
    BY <1>2 DEF CompareArrives
  <2> QED BY <2>1 DEF CallAnswered, CallFailed, SyncLines, CompareOK
<1>3. ASSUME NEW S \in SUBSET Ticker, PickTickers(S) PROVE CompareOK'
  BY <1>1, <1>3 DEF PickTickers
<1>4. ASSUME NEW d \in Days, PickCompareDays(d) PROVE CompareOK'
  BY <1>1, <1>4 DEF PickCompareDays
<1> QED BY <1>2, <1>3, <1>4
        DEF ChartNext, CandlesLoad, PickIndicatorTicker, CandlesArrive, ToggleProfile, PickInterval,
            VixLoads, VixArrives, VixRethemed, IndicatorArrives, PickIndicator

LEMMA VixStep ==
    ASSUME VixOK, panel = "vix", ChartNext
    PROVE  VixOK'
<1>1. ASSUME NEW d \in Days, VixLoads(d) PROVE VixOK'
  BY <1>1 DEF VixLoads, Load, VixOK
<1>2. CASE VixArrives
  <2>1. PICK i \in DOMAIN calls : \/ CallAnswered(i) /\ drawn' = calls[i]
                                  \/ CallFailed(i) /\ UNCHANGED <<view, drawn>>
    BY <1>2 DEF VixArrives
  <2> QED BY <2>1 DEF CallAnswered, CallFailed, VixOK
<1>3. CASE VixRethemed
  BY <1>3 DEF VixRethemed, VixOK
<1> QED BY <1>1, <1>2, <1>3
        DEF ChartNext, CandlesLoad, PickIndicatorTicker, CandlesArrive, ToggleProfile, PickInterval,
            CompareArrives, PickTickers, IndicatorArrives, PickIndicator, PickCompareDays

LEMMA OnlyOne ==
    ASSUME NEW c
    PROVE  Append(<<>>, c) = <<c>>
<1>1. <<>> \in Seq({c}) /\ <<c>> \in Seq({c}) /\ Len(<<>>) = 0
  OBVIOUS
<1>2. /\ Append(<<>>, c) \in Seq({c}) /\ Len(Append(<<>>, c)) = 1
      /\ Append(<<>>, c)[1] = c
  BY <1>1
<1> QED BY <1>1, <1>2

LEMMA IndicatorStep ==
    ASSUME Flags, FetchOK, IndicatorOK, panel = "indicator", ChartNext
    PROVE  IndicatorOK'
<1>1. ASSUME NEW t, NEW indicator \in IndicatorType,
             IndicatorLoads([ticker |-> t, indicator |-> indicator])
      PROVE  IndicatorOK'
  <2> DEFINE q == [ticker |-> t, indicator |-> indicator]
  <2>1. Load(q) /\ drawn' = [drawn EXCEPT !.lines = <<>>]
    BY <1>1 DEF IndicatorLoads, LinesRemoved
  <2>2. query' = q /\ calls' # <<>>
    BY <2>1, LoadBegins DEF Load
  <2>3. drawn' = [price |-> drawn.price, lines |-> <<>>]
    BY <2>1 DEF IndicatorOK
  <2>4. query' = [ticker |-> query'.ticker, indicator |-> query'.indicator]
        /\ query'.indicator \in IndicatorType
    BY <2>2
  <2> HIDE DEF q
  <2> QED BY <2>2, <2>3, <2>4 DEF IndicatorOK
<1>2. CASE IndicatorArrives
  <2>1. PICK i \in DOMAIN calls :
            \/ CallAnswered(i) /\ drawn' = [price |-> calls[i].ticker,
                                            lines |-> Append(drawn.lines, calls[i])]
            \/ CallFailed(i) /\ UNCHANGED drawn
    BY <1>2 DEF IndicatorArrives
  <2>2. /\ query' = query /\ overlapped' = overlapped /\ calls' = Remaining(i)
        /\ calls # <<>> /\ Flags' /\ FetchOK'
    BY <2>1, CallEnds DEF CallAnswered, CallFailed, TakeCall
  <2>3. ASSUME ~overlapped PROVE calls' = <<>> /\ drawn.lines = <<>>
    <3>1. Len(calls) <= 1 /\ Len(calls') = Len(calls) - 1
      BY <2>2, <2>3, RemainingFacts DEF FetchOK, Flags
    <3>2. Len(calls) \in Nat /\ Len(calls') \in Nat /\ (calls' = <<>> <=> Len(calls') = 0)
      BY <2>2, SequenceFacts DEF Flags
    <3> QED BY <2>2, <2>3, <3>1, <3>2 DEF IndicatorOK
  <2>4. CASE CallAnswered(i) /\ drawn' = [price |-> calls[i].ticker,
                                          lines |-> Append(drawn.lines, calls[i])]
    <3>1. data' = calls[i]
      BY <2>4 DEF CallAnswered
    <3>2. ~overlapped => Append(drawn.lines, calls[i]) = <<data'>>
      BY <2>3, <3>1, OnlyOne
    <3>3. drawn' = [price |-> drawn'.price, lines |-> drawn'.lines]
      BY <2>4
    <3>4. ~overlapped => drawn' = [price |-> data'.ticker, lines |-> <<data'>>]
      BY <2>4, <3>1, <3>2
    <3> QED BY <2>2, <2>3, <3>3, <3>4 DEF IndicatorOK
  <2>5. CASE CallFailed(i) /\ UNCHANGED drawn
    <3>1. error' = TRUE
      BY <2>5 DEF CallFailed
    <3> QED BY <2>2, <2>3, <2>5, <3>1 DEF IndicatorOK
  <2> QED BY <2>1, <2>4, <2>5
<1>3. ASSUME NEW t \in Ticker, PickIndicatorTicker(t) PROVE IndicatorOK'
  <2>1. (IF query = None THEN "sma" ELSE query.indicator) \in IndicatorType
    BY DEF IndicatorOK, IndicatorType
  <2> QED BY <1>1, <1>3, <2>1 DEF PickIndicatorTicker
<1>4. ASSUME NEW indicator \in Indicator, PickIndicator(indicator) PROVE IndicatorOK'
  <2>1. query # None /\ IndicatorLoads([query EXCEPT !.indicator = indicator])
    BY <1>4 DEF PickIndicator
  <2>2. [query EXCEPT !.indicator = indicator] = [ticker |-> query.ticker, indicator |-> indicator]
    BY <2>1 DEF IndicatorOK
  <2> QED BY <1>1, <2>1, <2>2, ChartAssumption
<1> QED BY <1>2, <1>3, <1>4
        DEF ChartNext, CandlesLoad, CandlesArrive, ToggleProfile, PickInterval, CompareArrives,
            PickTickers, CompareLoads, PickCompareDays, VixLoads, VixArrives, VixRethemed

LEMMA ChartInvStep ==
    ASSUME LoadInv, ChartInv, TickerPanelNext \/ ChartNext
    PROVE  ChartInv'
<1>1. panel \in LoadPanels /\ panel' = panel /\ Flags /\ FetchOK
  BY LoadPanelStep DEF LoadInv
<1>2. CASE ChartNext
  BY <1>1, <1>2, CandlesStep, CompareStep, VixStep, IndicatorStep DEF ChartInv
<1>3. CASE TickerPanelNext
  <2>1. panel \in {"news", "fundamentals", "table"}
    BY <1>3 DEF TickerPanelNext, NewsLoads, NewsArrives, ArticleOpens, ArticleCloses,
                FundamentalsLoad, FundamentalsArrive, TableLoads, TableArrives, TableTurns,
                TableSorts
  <2> QED BY <1>1, <2>1 DEF ChartInv
<1> QED BY <1>2, <1>3

LEMMA ChartInvInit ==
    ASSUME ChartInit
    PROVE  ChartInv
<1>1. data = None /\ query = None
  BY DEF ChartInit, Untouched
<1>2. ASSUME panel = "candles" PROVE CandlesOK
  <2>1. PICK west \in BOOLEAN :
            view = [interval |-> "daily", vp |-> FALSE, profile |-> None, west |-> west]
    BY <1>2 DEF ChartInit
  <2>2. calls = <<>> /\ drawn = None
    BY <1>2 DEF ChartInit, Untouched
  <2>3. calls \in Seq(Ticker) /\ view.interval \in Interval
    BY <2>1, <2>2 DEF Interval
  <2> QED BY <1>1, <2>1, <2>2, <2>3 DEF CandlesOK
<1>3. panel = "compare" => CompareOK
  BY <1>1 DEF CompareOK
<1>4. panel = "vix" => VixOK
  BY <1>1 DEF ChartInit, Untouched, VixOK
<1>5. panel = "indicator" => IndicatorOK
  BY <1>1 DEF ChartInit, IndicatorOK
<1> QED BY <1>2, <1>3, <1>4, <1>5 DEF ChartInv

\* Every value that the legend names has a line of its own.
LEMMA LegendHasLines ==
    ASSUME NEW indicator \in IndicatorType
    PROVE  Legend(indicator) \subseteq {line.name : line \in LinesOf(indicator)}
<1>1. CASE indicator = "sma"
  BY <1>1 DEF Legend, LinesOf, SmaEmaLines, Line
<1>2. CASE indicator = "ema"
  BY <1>2 DEF Legend, LinesOf, SmaEmaLines, Line
<1>3. CASE indicator = "rsi"
  <2>1. Legend(indicator) = {"RSI"}
    BY <1>3 DEF Legend
  <2>2. LinesOf(indicator) = RsiLines
    BY <1>3 DEF LinesOf
  <2>3. Line("RSI", "RSI") \in RsiLines
    BY DEF RsiLines
  <2>4. Line("RSI", "RSI").name = "RSI"
    BY DEF Line
  <2> QED BY <2>1, <2>2, <2>3, <2>4
<1>4. CASE indicator = "macd"
  <2>1. Legend(indicator) = {"MACD", "Signal"}
    BY <1>4 DEF Legend
  <2>2. LinesOf(indicator) = MacdLines
    BY <1>4 DEF LinesOf
  <2>3. /\ Line("MACD", "MACD") \in MacdLines
        /\ Line("Signal", "Signal") \in MacdLines
    BY DEF MacdLines
  <2>4. /\ Line("MACD", "MACD").name = "MACD"
        /\ Line("Signal", "Signal").name = "Signal"
    BY DEF Line
  <2> QED BY <2>1, <2>2, <2>3, <2>4
<1>5. CASE indicator = "bollinger"
  <2>1. Legend(indicator) = {"BB_Middle"}
    BY <1>5 DEF Legend
  <2>2. LinesOf(indicator) = BollingerLines
    BY <1>5 DEF LinesOf
  <2>3. Line("BB_Middle", "BB_Middle") \in BollingerLines
    BY DEF BollingerLines
  <2>4. Line("BB_Middle", "BB_Middle").name = "BB_Middle"
    BY DEF Line
  <2> QED BY <2>1, <2>2, <2>3, <2>4
<1>6. CASE indicator = "vwap"
  BY <1>6 DEF Legend, LinesOf, VwapLines, Line
<1>7. CASE indicator = "atr"
  BY <1>7 DEF Legend, LinesOf, AtrLines, Line
<1>8. CASE indicator = "stochastic"
  <2>1. Legend(indicator) = {"Stoch_K", "Stoch_D"}
    BY <1>8 DEF Legend
  <2>2. LinesOf(indicator) = StochasticLines
    BY <1>8 DEF LinesOf
  <2>3. /\ Line("Stoch_K", "Stoch_K") \in StochasticLines
        /\ Line("Stoch_D", "Stoch_D") \in StochasticLines
    BY DEF StochasticLines
  <2>4. /\ Line("Stoch_K", "Stoch_K").name = "Stoch_K"
        /\ Line("Stoch_D", "Stoch_D").name = "Stoch_D"
    BY DEF Line
  <2> QED BY <2>1, <2>2, <2>3, <2>4
<1>9. CASE indicator = "obv"
  BY <1>9 DEF Legend, LinesOf, ObvLines, Line
<1>10. CASE indicator = "adx"
  BY <1>10 DEF Legend, LinesOf, AdxLines, Line
<1> QED BY <1>1, <1>2, <1>3, <1>4, <1>5, <1>6, <1>7, <1>8, <1>9, <1>10 DEF IndicatorType

LEMMA CanvasIsDrawn ==
    ASSUME LoadInv, ChartInv
    PROVE  ChartDrawsData
<1>1. ASSUME panel = "indicator", Settled, ~overlapped
      PROVE  /\ drawn = [price |-> data.ticker, lines |-> <<data>>]
             /\ Legend(query.indicator) \subseteq {line.name : line \in LinesOf(data.indicator)}
  <2>1. IndicatorOK /\ query # None /\ calls = <<>> /\ ~error /\ data = query
    BY <1>1, LoadedIsChosen DEF ChartInv, Settled, Quiet
  <2> QED BY <1>1, <2>1, LegendHasLines DEF IndicatorOK
<1> QED BY <1>1 DEF ChartInv, CandlesOK, CompareOK, VixOK, ChartDrawsData

-----------------------------------------------------------------------------
(***************************************************************************)
(* What the candles tell.  A group of bars is known by its first, and a    *)
(* candle by the rank of that one among the first ones.  The groups are    *)
(* the parts of the bars, the bins those of the candles, and a sum over    *)
(* all is the sum of the sums over the parts.                              *)
(***************************************************************************)

\* Groups have nothing in common and hold all.
LEMMA GroupFacts ==
    ASSUME NEW n \in Nat, NEW key, DOMAIN key = 1 .. n
    PROVE  /\ Firsts(key) \subseteq 1 .. n /\ IsFiniteSet(Firsts(key))
           /\ \A i \in 1 .. n : /\ Group(key, i) \subseteq 1 .. n /\ i \in Group(key, i)
                                /\ IsFiniteSet(Group(key, i))
           /\ \A i \in 1 .. n : \E s \in Firsts(key) : i \in Group(key, s)
           /\ \A s, t \in Firsts(key) : s # t => Group(key, s) \cap Group(key, t) = {}
           /\ \A s \in Firsts(key) : Min(Group(key, s)) = s
<1>1. IsFiniteSet(1 .. n)
  BY FS_Interval
<1>2. /\ Firsts(key) \subseteq 1 .. n
      /\ \A i \in 1 .. n : Group(key, i) \subseteq 1 .. n /\ i \in Group(key, i)
  BY DEF Firsts, Group
<1>3. /\ IsFiniteSet(Firsts(key))
      /\ \A i \in 1 .. n : IsFiniteSet(Group(key, i))
  BY <1>1, <1>2, FS_Subset
<1>4. ASSUME NEW i \in 1 .. n
      PROVE  \E s \in Firsts(key) : i \in Group(key, s)
  <2>1. Group(key, i) \in SUBSET Nat /\ Group(key, i) # {}
    BY <1>2
  <2>2. PICK s \in Group(key, i) : \A k \in Group(key, i) : s <= k
    BY <2>1, LeastNat
  <2>3. s \in 1 .. n /\ key[s] = key[i]
    BY <1>2, <2>2 DEF Group
  <2>4. Group(key, s) = Group(key, i)
    BY <2>3 DEF Group
  <2>5. s \in Firsts(key)
    BY <2>2, <2>3, <2>4 DEF Firsts
  <2> QED BY <1>2, <2>4, <2>5
<1>5. ASSUME NEW s \in Firsts(key), NEW t \in Firsts(key), NEW x,
             x \in Group(key, s), x \in Group(key, t)
      PROVE  s = t
  <2>1. s \in 1 .. n /\ t \in 1 .. n /\ key[x] = key[s] /\ key[x] = key[t]
    BY <1>2, <1>5 DEF Group
  <2>2. s \in Group(key, t) /\ t \in Group(key, s)
    BY <2>1 DEF Group
  <2>3. s <= t /\ t <= s
    BY <2>2 DEF Firsts
  <2> QED BY <2>1, <2>3
<1>6. ASSUME NEW s \in Firsts(key) PROVE Min(Group(key, s)) = s
  <2>1. s \in Group(key, s) /\ Group(key, s) \in SUBSET Nat /\ \A j \in Group(key, s) : s <= j
    BY <1>2 DEF Firsts
  <2>2. Min(Group(key, s)) \in Group(key, s) /\ \A j \in Group(key, s) : Min(Group(key, s)) <= j
    BY <2>1, MinLeast
  <2>3. s <= Min(Group(key, s)) /\ Min(Group(key, s)) <= s
    BY <2>1, <2>2
  <2> QED BY <2>1, <2>2, <2>3
<1> QED BY <1>2, <1>3, <1>4, <1>5, <1>6

\* Where keys do not decrease, the last group goes to the end.
LEMMA LastGroup ==
    ASSUME NEW n \in Nat \ {0}, NEW key, DOMAIN key = 1 .. n,
           \A i \in 1 .. n : key[i] \in Int,
           \A i, j \in 1 .. n : i <= j => key[i] <= key[j]
    PROVE  \E s \in Firsts(key) : /\ \A t \in Firsts(key) : t <= s
                                  /\ Max(Group(key, s)) = n
<1>1. n \in 1 .. n
  OBVIOUS
<1>2. PICK s \in Firsts(key) : n \in Group(key, s)
  BY <1>1, GroupFacts
<1>3. /\ s \in 1 .. n /\ key[s] = key[n]
      /\ Group(key, s) \subseteq 1 .. n /\ IsFiniteSet(Group(key, s))
      /\ Firsts(key) \subseteq 1 .. n
  BY <1>2, GroupFacts DEF Group
<1>4. ASSUME NEW t \in Firsts(key) PROVE t <= s
  <2> SUFFICES ASSUME s < t PROVE FALSE
    BY <1>3
  <2>1. t \in 1 .. n
    BY <1>3
  <2>2. key[s] <= key[t] /\ key[t] <= key[n] /\ key[t] \in Int /\ key[n] \in Int
    BY <1>1, <1>3, <2>1
  <2>3. key[t] = key[s]
    BY <1>3, <2>2
  <2>4. s \in Group(key, t)
    BY <1>3, <2>3 DEF Group
  <2>5. t <= s
    BY <2>4 DEF Firsts
  <2> QED BY <1>3, <2>1, <2>5
<1>5. Max(Group(key, s)) = n
  <2>1. Group(key, s) \in SUBSET Int /\ Group(key, s) # {}
    BY <1>2, <1>3
  <2>2. Max(Group(key, s)) \in Group(key, s) /\ \A k \in Group(key, s) : Max(Group(key, s)) >= k
    BY <1>3, <2>1, ExtremeElements
  <2>3. Max(Group(key, s)) \in 1 .. n /\ Max(Group(key, s)) >= n
    BY <1>2, <1>3, <2>2
  <2> QED BY <2>3
<1> QED BY <1>4, <1>5

Increasing(bars) == \A i, j \in DOMAIN bars : i < j => bars[i].day < bars[j].day

\* What one candle is made of.
LEMMA CandleFacts ==
    ASSUME NEW bars \in Seq(BarType), NEW I, I \subseteq DOMAIN bars, I # {}
    PROVE  /\ IsFiniteSet(I) /\ Candle(bars, I) \in BarType
           /\ Min(I) \in I /\ Max(I) \in I
           /\ \A i \in I : bars[i].high <= Highest(bars, I) /\ bars[i].low >= Lowest(bars, I)
           /\ \E i \in I : bars[i].high = Highest(bars, I)
           /\ \E i \in I : bars[i].low = Lowest(bars, I)
           /\ \A i \in DOMAIN bars : [k \in DOMAIN bars |-> bars[k].volume][i] \in Int
<1>1. DOMAIN bars = 1 .. Len(bars) /\ Len(bars) \in Nat
  OBVIOUS
<1>2. \A i \in DOMAIN bars :
        /\ bars[i].day \in Int /\ bars[i].open \in Int /\ bars[i].close \in Int
        /\ bars[i].high \in Int /\ bars[i].low \in Int /\ bars[i].volume \in Int
  <2>1. \A i \in DOMAIN bars : bars[i] \in BarType
    OBVIOUS
  <2> QED BY <2>1 DEF BarType
<1>3. IsFiniteSet(I)
  <2>1. IsFiniteSet(1 .. Len(bars))
    BY <1>1, FS_Interval
  <2> QED BY <1>1, <2>1, FS_Subset
<1>4. Min(I) \in I /\ Max(I) \in I
  <2>1. I \in SUBSET Int
    BY <1>1
  <2> QED BY <1>3, <2>1, ExtremeElements
<1>5. /\ IsFiniteSet({bars[i].high : i \in I})
      /\ IsFiniteSet({bars[i].low : i \in I})
  <2> DEFINE h == [i \in I |-> bars[i].high]
             l == [i \in I |-> bars[i].low]
  <2>1. {bars[i].high : i \in I} = {h[i] : i \in DOMAIN h} /\ DOMAIN h = I
    OBVIOUS
  <2>2. {bars[i].low : i \in I} = {l[i] : i \in DOMAIN l} /\ DOMAIN l = I
    OBVIOUS
  <2>3. h = [i \in DOMAIN h |-> h[i]] /\ l = [i \in DOMAIN l |-> l[i]]
    OBVIOUS
  <2> HIDE DEF h, l
  <2>4. IsFiniteSet({h[i] : i \in DOMAIN h}) /\ IsFiniteSet({l[i] : i \in DOMAIN l})
    BY <1>3, <2>1, <2>2, <2>3, FiniteRange
  <2> QED BY <2>1, <2>2, <2>4
<1>6. /\ {bars[i].high : i \in I} \in SUBSET Int /\ {bars[i].high : i \in I} # {}
      /\ {bars[i].low : i \in I} \in SUBSET Int /\ {bars[i].low : i \in I} # {}
  BY <1>2
<1>7. /\ Highest(bars, I) \in {bars[i].high : i \in I}
      /\ \A x \in {bars[i].high : i \in I} : Highest(bars, I) >= x
  BY <1>5, <1>6, ExtremeElements DEF Highest
<1>8. /\ Lowest(bars, I) \in {bars[i].low : i \in I}
      /\ \A x \in {bars[i].low : i \in I} : Lowest(bars, I) <= x
  BY <1>5, <1>6, ExtremeElements DEF Lowest
<1>9. /\ Highest(bars, I) \in Int /\ Lowest(bars, I) \in Int
      /\ \A i \in I : bars[i].high <= Highest(bars, I) /\ bars[i].low >= Lowest(bars, I)
      /\ \E i \in I : bars[i].high = Highest(bars, I)
      /\ \E i \in I : bars[i].low = Lowest(bars, I)
  BY <1>2, <1>6, <1>7, <1>8
<1>10. \A i \in DOMAIN bars : [k \in DOMAIN bars |-> bars[k].volume][i] \in Int
  BY <1>2
<1>11. Volume(bars, I) \in Int
  <2>1. \A i \in I : [k \in DOMAIN bars |-> bars[k].volume][i] \in Int
    BY <1>10
  <2> QED BY <1>3, <2>1, SumType DEF Volume
<1>12. Candle(bars, I) \in BarType
  BY <1>2, <1>4, <1>9, <1>11 DEF Candle, BarType
<1> QED BY <1>3, <1>4, <1>9, <1>10, <1>12

\* The candles of the groups, by the rank of their first bars.
LEMMA AggregateFacts ==
    ASSUME NEW bars \in Seq(BarType), NEW key, DOMAIN key = DOMAIN bars,
           NEW candles, candles = Aggregate(bars, key)
    PROVE  /\ candles \in Seq(BarType) /\ DOMAIN candles = 1 .. Cardinality(Firsts(key))
           /\ Len(candles) = Cardinality(Firsts(key)) /\ Cardinality(Firsts(key)) \in Nat
           /\ Firsts(key) \in SUBSET Nat /\ IsFiniteSet(Firsts(key))
           /\ \A s \in Firsts(key) :
                /\ Rank(Firsts(key), s) \in DOMAIN candles
                /\ candles[Rank(Firsts(key), s)] = Candle(bars, Group(key, s))
           /\ \A k \in DOMAIN candles : \E s \in Firsts(key) :
                Rank(Firsts(key), s) = k /\ candles[k] = Candle(bars, Group(key, s))
<1> DEFINE F == Firsts(key)
           n == Len(bars)
           each == [i \in DOMAIN bars |-> Entry(bars, Group(key, i))]
<1>1. n \in Nat /\ DOMAIN bars = 1 .. n /\ DOMAIN key = 1 .. n
  OBVIOUS
<1>2. /\ F \subseteq 1 .. n /\ IsFiniteSet(F)
      /\ \A i \in 1 .. n : Group(key, i) \subseteq 1 .. n /\ i \in Group(key, i)
  BY <1>1, GroupFacts
<1>3. F \in SUBSET Nat
  BY <1>2
<1>4. candles = Selected(each, F)
  BY DEF Aggregate
<1>5. \A s \in F : each[s] = Candle(bars, Group(key, s))
  BY <1>1, <1>2 DEF Entry
<1>6. \A s \in F : Candle(bars, Group(key, s)) \in BarType
  <2> SUFFICES ASSUME NEW s \in F PROVE Candle(bars, Group(key, s)) \in BarType
    OBVIOUS
  <2>1. Group(key, s) \subseteq DOMAIN bars /\ Group(key, s) # {}
    BY <1>1, <1>2
  <2> QED BY <2>1, CandleFacts
<1> HIDE DEF each, F
<1>7. /\ DOMAIN candles = 1 .. Cardinality(F) /\ Cardinality(F) \in Nat
      /\ \A s \in F : Rank(F, s) \in 1 .. Cardinality(F) /\ candles[Rank(F, s)] = each[s]
      /\ \A k \in 1 .. Cardinality(F) : \E s \in F : Rank(F, s) = k /\ candles[k] = each[s]
  BY <1>2, <1>3, <1>4, SelectedAt
<1>8. Sequence(candles) /\ Len(candles) = Cardinality(F)
  BY <1>2, <1>3, <1>4, SelectedFacts
<1>9. candles \in Seq(BarType)
  <2>1. \A k \in 1 .. Cardinality(F) : candles[k] \in BarType
    BY <1>5, <1>6, <1>7
  <2>2. candles = [k \in 1 .. Cardinality(F) |-> candles[k]]
    BY <1>7, <1>8 DEF Sequence
  <2> QED BY <1>7, <2>1, <2>2
<1> QED BY <1>2, <1>3, <1>5, <1>7, <1>8, <1>9 DEF F

\* Candles of groups have the volume of all bars.
LEMMA AggregateVolume ==
    ASSUME NEW bars \in Seq(BarType), NEW key, DOMAIN key = DOMAIN bars,
           NEW candles, candles = Aggregate(bars, key)
    PROVE  Volume(candles, DOMAIN candles) = Volume(bars, DOMAIN bars)
<1> DEFINE F == Firsts(key)
           n == Len(bars)
           m == Cardinality(F)
           f == [i \in DOMAIN bars |-> bars[i].volume]
           g == [k \in DOMAIN candles |-> candles[k].volume]
           at == [k \in 1 .. m |-> CHOOSE s \in F :
                      Rank(F, s) = k /\ candles[k] = Candle(bars, Group(key, s))]
           P == [k \in 1 .. m |-> Group(key, at[k])]
<1>1. n \in Nat /\ DOMAIN bars = 1 .. n /\ DOMAIN key = 1 .. n
  OBVIOUS
<1>2. /\ F \subseteq 1 .. n /\ IsFiniteSet(F) /\ F \in SUBSET Nat
      /\ \A i \in 1 .. n : Group(key, i) \subseteq 1 .. n /\ IsFiniteSet(Group(key, i))
      /\ \A i \in 1 .. n : \E s \in F : i \in Group(key, s)
      /\ \A s, t \in F : s # t => Group(key, s) \cap Group(key, t) = {}
  BY <1>1, GroupFacts
<1>3. /\ DOMAIN candles = 1 .. m /\ m \in Nat
      /\ \A s \in F : Rank(F, s) \in 1 .. m
      /\ \A k \in 1 .. m : \E s \in F : Rank(F, s) = k /\ candles[k] = Candle(bars, Group(key, s))
  BY AggregateFacts
<1> HIDE DEF F, n, m
<1>4. \A k \in 1 .. m : /\ at[k] \in F /\ Rank(F, at[k]) = k
                        /\ candles[k] = Candle(bars, Group(key, at[k]))
  <2> SUFFICES ASSUME NEW k \in 1 .. m
               PROVE  /\ at[k] \in F /\ Rank(F, at[k]) = k
                      /\ candles[k] = Candle(bars, Group(key, at[k]))
    OBVIOUS
  <2>1. \E s \in F : Rank(F, s) = k /\ candles[k] = Candle(bars, Group(key, s))
    BY <1>3
  <2>2. at[k] = CHOOSE s \in F : Rank(F, s) = k /\ candles[k] = Candle(bars, Group(key, s))
    OBVIOUS
  <2> HIDE DEF at
  <2> QED BY <2>1, <2>2
<1>5. \A k \in 1 .. m : P[k] = Group(key, at[k])
  BY DEF P
<1> HIDE DEF at, P
<1>6. \A i \in 1 .. n : f[i] \in Int
  <2>1. \A i \in DOMAIN bars : bars[i] \in BarType
    OBVIOUS
  <2> QED BY <1>1, <2>1 DEF BarType
<1>7. \A k \in 1 .. m : g[k] = candles[k].volume
  BY <1>3
<1>8. \A k \in 1 .. m : candles[k].volume = SumFunctionOnSet(f, P[k])
  <2> SUFFICES ASSUME NEW k \in 1 .. m
               PROVE  candles[k].volume = SumFunctionOnSet(f, P[k])
    OBVIOUS
  <2>1. candles[k] = Candle(bars, P[k])
    BY <1>4, <1>5
  <2>2. candles[k].volume = Volume(bars, P[k])
    BY <2>1 DEF Candle
  <2> QED BY <2>2 DEF Volume
<1> HIDE DEF f, g
<1>9. \A k \in 1 .. m : IsFiniteSet(P[k]) /\ P[k] \subseteq 1 .. n
  <2> SUFFICES ASSUME NEW k \in 1 .. m
               PROVE  IsFiniteSet(P[k]) /\ P[k] \subseteq 1 .. n
    OBVIOUS
  <2>1. P[k] = Group(key, at[k]) /\ at[k] \in 1 .. n
    BY <1>2, <1>4, <1>5
  <2> QED BY <1>2, <2>1
<1>10. \A k, l \in 1 .. m : k # l => P[k] \cap P[l] = {}
  <2> SUFFICES ASSUME NEW k \in 1 .. m, NEW l \in 1 .. m, k # l
               PROVE  P[k] \cap P[l] = {}
    OBVIOUS
  <2>1. at[k] \in F /\ at[l] \in F /\ at[k] # at[l]
    BY <1>4
  <2> QED BY <1>2, <1>5, <2>1
<1>11. ASSUME NEW i \in 1 .. n PROVE \E k \in 1 .. m : i \in P[k]
  <2>1. PICK s \in F : i \in Group(key, s)
    BY <1>2
  <2>2. Rank(F, s) \in 1 .. m
    BY <1>3
  <2>3. at[Rank(F, s)] \in F /\ Rank(F, at[Rank(F, s)]) = Rank(F, s)
    BY <1>4, <2>2
  <2>4. at[Rank(F, s)] = s
    <3>1. \A a, b \in F : Rank(F, a) = Rank(F, b) => a = b
      BY <1>2, RankProperties
    <3> QED BY <2>3, <3>1
  <2> QED BY <1>5, <2>1, <2>2, <2>4
<1>12. Parts(P, m, DOMAIN bars)
  BY <1>1, <1>9, <1>10, <1>11 DEF Parts
<1>13. SumFunctionOnSet(g, 1 .. m) = SumFunctionOnSet(f, DOMAIN bars)
  <2>1. \A k \in 1 .. m : g[k] = SumFunctionOnSet(f, P[k])
    BY <1>7, <1>8
  <2>2. m \in Nat
    BY <1>3
  <2>3. \A i \in DOMAIN bars : f[i] \in Int
    BY <1>1, <1>6
  <2> QED BY <1>12, <2>1, <2>2, <2>3, SumParts
<1> QED BY <1>3, <1>13 DEF Volume, f, g

\* Candles of groups go as high and as low as the bars.
LEMMA AggregateRange ==
    ASSUME NEW bars \in Seq(BarType), bars # <<>>, NEW key, DOMAIN key = DOMAIN bars,
           NEW candles, candles = Aggregate(bars, key)
    PROVE  /\ candles # <<>>
           /\ Highest(candles, DOMAIN candles) = Highest(bars, DOMAIN bars)
           /\ Lowest(candles, DOMAIN candles) = Lowest(bars, DOMAIN bars)
<1> DEFINE F == Firsts(key)
           n == Len(bars)
           HB == Highest(bars, DOMAIN bars)
           LB == Lowest(bars, DOMAIN bars)
           HC == Highest(candles, DOMAIN candles)
           LC == Lowest(candles, DOMAIN candles)
<1>1. n \in Nat /\ n # 0 /\ DOMAIN bars = 1 .. n /\ DOMAIN key = 1 .. n
  OBVIOUS
<1>2. /\ \A s \in F : Group(key, s) \subseteq DOMAIN bars /\ Group(key, s) # {}
      /\ \A i \in DOMAIN bars : \E s \in F : i \in Group(key, s)
  <2>1. /\ F \subseteq 1 .. n
        /\ \A i \in 1 .. n : Group(key, i) \subseteq 1 .. n /\ i \in Group(key, i)
        /\ \A i \in 1 .. n : \E s \in F : i \in Group(key, s)
    BY <1>1, GroupFacts
  <2>2. \A s \in F : s \in 1 .. n
    BY <2>1
  <2> HIDE DEF F
  <2> QED BY <1>1, <2>1, <2>2
<1>3. /\ candles \in Seq(BarType)
      /\ \A s \in F : Rank(F, s) \in DOMAIN candles /\ candles[Rank(F, s)] = Candle(bars, Group(key, s))
      /\ \A k \in DOMAIN candles : \E s \in F : candles[k] = Candle(bars, Group(key, s))
  BY AggregateFacts
<1> HIDE DEF F
<1>4. DOMAIN bars # {} /\ DOMAIN candles # {}
  <2>1. 1 \in DOMAIN bars
    BY <1>1
  <2> QED BY <1>2, <1>3, <2>1
<1>5. /\ \A i \in DOMAIN bars : /\ bars[i].high <= HB /\ bars[i].low >= LB
                                /\ bars[i].high \in Int /\ bars[i].low \in Int
      /\ \E i \in DOMAIN bars : bars[i].high = HB
      /\ \E i \in DOMAIN bars : bars[i].low = LB
  <2>1. \A i \in DOMAIN bars : bars[i] \in BarType
    OBVIOUS
  <2>2. \A i \in DOMAIN bars : bars[i].high \in Int /\ bars[i].low \in Int
    BY <2>1 DEF BarType
  <2> QED BY <1>4, <2>2, CandleFacts
<1>6. /\ \A i \in DOMAIN candles : /\ candles[i].high <= HC /\ candles[i].low >= LC
                                   /\ candles[i].high \in Int /\ candles[i].low \in Int
      /\ \E i \in DOMAIN candles : candles[i].high = HC
      /\ \E i \in DOMAIN candles : candles[i].low = LC
  <2>1. \A i \in DOMAIN candles : candles[i] \in BarType
    BY <1>3
  <2>2. \A i \in DOMAIN candles : candles[i].high \in Int /\ candles[i].low \in Int
    BY <2>1 DEF BarType
  <2> QED BY <1>3, <1>4, <2>2, CandleFacts
<1>7. ASSUME NEW s \in F
      PROVE  /\ \A i \in Group(key, s) : /\ bars[i].high <= Candle(bars, Group(key, s)).high
                                         /\ bars[i].low >= Candle(bars, Group(key, s)).low
             /\ \E i \in DOMAIN bars : bars[i].high = Candle(bars, Group(key, s)).high
             /\ \E i \in DOMAIN bars : bars[i].low = Candle(bars, Group(key, s)).low
  <2>1. /\ Candle(bars, Group(key, s)).high = Highest(bars, Group(key, s))
        /\ Candle(bars, Group(key, s)).low = Lowest(bars, Group(key, s))
    BY DEF Candle
  <2>2. Group(key, s) \subseteq DOMAIN bars /\ Group(key, s) # {}
    BY <1>2
  <2>3. /\ \A i \in Group(key, s) : /\ bars[i].high <= Highest(bars, Group(key, s))
                                    /\ bars[i].low >= Lowest(bars, Group(key, s))
        /\ \E i \in Group(key, s) : bars[i].high = Highest(bars, Group(key, s))
        /\ \E i \in Group(key, s) : bars[i].low = Lowest(bars, Group(key, s))
    BY <2>2, CandleFacts
  <2> QED BY <2>1, <2>2, <2>3
<1> HIDE DEF HB, LB, HC, LC
<1>8. HC <= HB /\ HC \in Int /\ HB \in Int
  <2>1. PICK k \in DOMAIN candles : candles[k].high = HC
    BY <1>6
  <2>2. PICK s \in F : candles[k] = Candle(bars, Group(key, s))
    BY <1>3
  <2>3. PICK i \in DOMAIN bars : bars[i].high = Candle(bars, Group(key, s)).high
    BY <1>7
  <2>4. PICK j \in DOMAIN bars : bars[j].high = HB
    BY <1>5
  <2> QED BY <1>5, <2>1, <2>2, <2>3, <2>4
<1>9. LC >= LB /\ LC \in Int /\ LB \in Int
  <2>1. PICK k \in DOMAIN candles : candles[k].low = LC
    BY <1>6
  <2>2. PICK s \in F : candles[k] = Candle(bars, Group(key, s))
    BY <1>3
  <2>3. PICK i \in DOMAIN bars : bars[i].low = Candle(bars, Group(key, s)).low
    BY <1>7
  <2>4. PICK j \in DOMAIN bars : bars[j].low = LB
    BY <1>5
  <2> QED BY <1>5, <2>1, <2>2, <2>3, <2>4
<1>10. HB <= HC
  <2>1. PICK i \in DOMAIN bars : bars[i].high = HB
    BY <1>5
  <2>2. PICK s \in F : i \in Group(key, s)
    BY <1>2
  <2>3. PICK k \in DOMAIN candles : candles[k] = Candle(bars, Group(key, s))
    BY <1>3
  <2>4. bars[i].high <= candles[k].high
    BY <1>7, <2>2, <2>3
  <2>5. candles[k].high <= HC /\ candles[k].high \in Int
    BY <1>6
  <2> QED BY <1>8, <2>1, <2>4, <2>5
<1>11. LB >= LC
  <2>1. PICK i \in DOMAIN bars : bars[i].low = LB
    BY <1>5
  <2>2. PICK s \in F : i \in Group(key, s)
    BY <1>2
  <2>3. PICK k \in DOMAIN candles : candles[k] = Candle(bars, Group(key, s))
    BY <1>3
  <2>4. bars[i].low >= candles[k].low
    BY <1>7, <2>2, <2>3
  <2>5. candles[k].low >= LC /\ candles[k].low \in Int
    BY <1>6
  <2> QED BY <1>9, <2>1, <2>4, <2>5
<1> QED BY <1>4, <1>8, <1>9, <1>10, <1>11 DEF HB, LB, HC, LC

\* Where keys do not decrease, candles go from the first bar to the last, in order.
LEMMA AggregateOrder ==
    ASSUME NEW bars \in Seq(BarType), bars # <<>>, Increasing(bars),
           NEW key, DOMAIN key = DOMAIN bars,
           \A i \in DOMAIN bars : key[i] \in Int,
           \A i, j \in DOMAIN bars : i <= j => key[i] <= key[j],
           NEW candles, candles = Aggregate(bars, key)
    PROVE  /\ candles[1].open = bars[1].open /\ Last(candles).close = Last(bars).close
           /\ Increasing(candles)
<1> DEFINE F == Firsts(key)
           n == Len(bars)
           m == Cardinality(F)
<1>1. n \in Nat \ {0} /\ DOMAIN bars = 1 .. n /\ DOMAIN key = 1 .. n
  OBVIOUS
<1>2. /\ F \subseteq 1 .. n /\ IsFiniteSet(F) /\ F \in SUBSET Nat
      /\ \A s \in F : Min(Group(key, s)) = s
      /\ \A i \in 1 .. n : \E s \in F : i \in Group(key, s)
      /\ \A i \in 1 .. n : i \in Group(key, i)
  <2>1. n \in Nat /\ DOMAIN key = 1 .. n
    BY <1>1
  <2> HIDE DEF n
  <2>2. F \subseteq 1 .. n
    BY <2>1, GroupFacts
  <2> QED BY <2>1, <2>2, GroupFacts
<1>3. /\ DOMAIN candles = 1 .. m /\ Len(candles) = m /\ m \in Nat
      /\ \A s \in F : /\ Rank(F, s) \in DOMAIN candles
                      /\ candles[Rank(F, s)] = Candle(bars, Group(key, s))
      /\ \A k \in DOMAIN candles : \E s \in F :
            Rank(F, s) = k /\ candles[k] = Candle(bars, Group(key, s))
  BY AggregateFacts
<1>4. \A s, t \in F : s < t <=> Rank(F, s) < Rank(F, t)
  BY <1>2, RankOrder
<1>5. PICK l \in F : (\A t \in F : t <= l) /\ Max(Group(key, l)) = n
  BY <1>1, LastGroup
<1> HIDE DEF F, n, m
<1>6. \A s \in F : Candle(bars, Group(key, s)).day = bars[s].day
  BY <1>2 DEF Candle
<1>7. Increasing(candles)
  <2> SUFFICES ASSUME NEW i \in DOMAIN candles, NEW j \in DOMAIN candles, i < j
               PROVE  candles[i].day < candles[j].day
    BY DEF Increasing
  <2>1. PICK s \in F : Rank(F, s) = i /\ candles[i] = Candle(bars, Group(key, s))
    BY <1>3
  <2>2. PICK t \in F : Rank(F, t) = j /\ candles[j] = Candle(bars, Group(key, t))
    BY <1>3
  <2>3. s < t /\ s \in DOMAIN bars /\ t \in DOMAIN bars
    BY <1>1, <1>2, <1>4, <2>1, <2>2
  <2>4. bars[s].day < bars[t].day
    BY <2>3 DEF Increasing
  <2> QED BY <1>6, <2>1, <2>2, <2>4
<1>8. candles[1].open = bars[1].open
  <2>1. 1 \in F
    <3>1. \A j \in Group(key, 1) : 1 <= j
      BY <1>1 DEF Group
    <3> QED BY <1>1, <3>1 DEF F, Firsts
  <2>2. m # 0
    BY <1>3, <2>1
  <2>3. 1 \in DOMAIN candles
    BY <1>3, <2>2
  <2>4. PICK s \in F : Rank(F, s) = 1 /\ candles[1] = Candle(bars, Group(key, s))
    BY <1>3, <2>3
  <2>5. Rank(F, 1) \in 1 .. m /\ s \in 1 .. n
    BY <1>2, <1>3, <2>1
  <2>6. s = 1
    <3>1. ~(1 < s)
      BY <1>4, <2>1, <2>4, <2>5
    <3> QED BY <1>1, <2>5, <3>1
  <2>7. Min(Group(key, s)) = 1
    BY <1>2, <2>6
  <2> QED BY <2>4, <2>7 DEF Candle
<1>9. Last(candles).close = Last(bars).close
  <2>1. m # 0 /\ Rank(F, l) \in 1 .. m
    BY <1>3, <1>5
  <2>2. PICK s \in F : Rank(F, s) = m /\ candles[m] = Candle(bars, Group(key, s))
    BY <1>3, <2>1
  <2>3. s = l
    <3>1. s \in 1 .. n /\ l \in 1 .. n
      BY <1>2, <1>5
    <3>2. s <= l
      BY <1>5
    <3>3. ~(s < l)
      BY <1>3, <1>4, <1>5, <2>1, <2>2
    <3> QED BY <1>1, <3>1, <3>2, <3>3
  <2>4. Last(candles) = candles[m] /\ Last(bars) = bars[n]
    BY <1>3 DEF Last, n
  <2> QED BY <1>5, <2>2, <2>3, <2>4 DEF Candle
<1> QED BY <1>7, <1>8, <1>9

\* There are as many candles as keys.
LEMMA AggregateCount ==
    ASSUME NEW bars \in Seq(BarType), NEW key, DOMAIN key = DOMAIN bars
    PROVE  Len(Aggregate(bars, key)) = Cardinality({key[i] : i \in DOMAIN bars})
<1> DEFINE F == Firsts(key)
           n == Len(bars)
           K == {key[i] : i \in DOMAIN bars}
           f == [s \in F |-> key[s]]
<1>1. n \in Nat /\ DOMAIN bars = 1 .. n /\ DOMAIN key = 1 .. n
  OBVIOUS
<1>2. /\ F \subseteq 1 .. n /\ IsFiniteSet(F)
      /\ \A i \in 1 .. n : \E s \in F : i \in Group(key, s)
      /\ \A i \in 1 .. n : i \in Group(key, i)
      /\ \A s, t \in F : s # t => Group(key, s) \cap Group(key, t) = {}
  BY <1>1, GroupFacts
<1>3. Len(Aggregate(bars, key)) = Cardinality(F)
  BY AggregateFacts
<1> HIDE DEF F
<1>4. f \in [F -> K]
  BY <1>1, <1>2
<1>5. \A s, t \in F : f[s] = f[t] => s = t
  <2> SUFFICES ASSUME NEW s \in F, NEW t \in F, key[s] = key[t]
               PROVE  s = t
    OBVIOUS
  <2>1. s \in Group(key, s) /\ s \in Group(key, t)
    BY <1>1, <1>2 DEF Group
  <2> QED BY <1>2, <2>1
<1>6. \A x \in K : \E s \in F : f[s] = x
  <2> SUFFICES ASSUME NEW i \in DOMAIN bars
               PROVE  \E s \in F : f[s] = key[i]
    OBVIOUS
  <2>1. PICK s \in F : i \in Group(key, s)
    BY <1>1, <1>2
  <2> QED BY <2>1 DEF Group
<1> HIDE DEF f, K
<1>7. f \in Bijection(F, K)
  BY <1>4, <1>5, <1>6, Zenon DEF Bijection, Injection, Surjection, IsInjective
<1>8. Cardinality(K) = Cardinality(F)
  <2>1. ExistsBijection(F, K)
    BY <1>7 DEF ExistsBijection
  <2> QED BY <1>2, <2>1, FS_Bijection
<1> QED BY <1>3, <1>8 DEF K

\* Neither weeks nor months go back.
LEMMA KeysInOrder ==
    ASSUME NEW bars \in Seq(BarType), Increasing(bars), NEW west \in BOOLEAN,
           NEW key, key \in {Weeks(bars, west), Months(bars)}
    PROVE  /\ DOMAIN key = DOMAIN bars
           /\ \A i \in DOMAIN bars : key[i] \in Int
           /\ \A i, j \in DOMAIN bars : i <= j => key[i] <= key[j]
<1>1. \A i \in DOMAIN bars : bars[i].day \in Int /\ i \in Int
  <2>1. \A i \in DOMAIN bars : bars[i] \in BarType /\ i \in Int
    OBVIOUS
  <2> QED BY <2>1 DEF BarType
<1> DEFINE Begun(day) == {d \in MonthStarts : d <= day}
           Month(day) == Cardinality(Begun(day))
<1>2. ASSUME NEW a \in Int, NEW b \in Int, a <= b
      PROVE  Month(a) \in Int /\ Month(b) \in Int /\ Month(a) <= Month(b)
  <2>1. IsFiniteSet(MonthStarts) /\ Begun(a) \subseteq MonthStarts /\ Begun(b) \subseteq MonthStarts
    BY ChartAssumption
  <2>2. Begun(a) \subseteq Begun(b)
    <3>1. \A d \in MonthStarts : d \in Int
      BY ChartAssumption
    <3>2. \A d \in MonthStarts : d <= a => d <= b
      BY <1>2, <3>1
    <3> QED BY <3>2
  <2> HIDE DEF Begun
  <2>3. IsFiniteSet(Begun(a)) /\ IsFiniteSet(Begun(b))
    BY <2>1, FS_Subset
  <2> QED BY <2>2, <2>3, FS_Subset, FS_CardinalityType
<1>3. /\ DOMAIN key = DOMAIN bars
      /\ \A i \in DOMAIN bars : MonthOf(bars[i]) = Month(bars[i].day)
  BY DEF Weeks, Months, MonthOf
<1> HIDE DEF Month, Begun
<1>4. ASSUME NEW i \in DOMAIN bars
      PROVE  WeekOf(bars[i], west) \in Int /\ MonthOf(bars[i]) \in Int
  <2>1. bars[i].day \in Int /\ bars[i].day <= bars[i].day
    BY <1>1
  <2>2. WeekOf(bars[i], west) \in Int
    BY <2>1, DivideNat DEF WeekOf
  <2>3. Month(bars[i].day) \in Int
    BY <1>2, <2>1
  <2> QED BY <1>3, <2>2, <2>3
<1>5. ASSUME NEW i \in DOMAIN bars, NEW j \in DOMAIN bars, i <= j
      PROVE  /\ WeekOf(bars[i], west) <= WeekOf(bars[j], west)
             /\ MonthOf(bars[i]) <= MonthOf(bars[j])
  <2>1. i = j \/ i < j
    BY <1>1, <1>5
  <2>2. bars[i].day <= bars[j].day
    BY <1>1, <2>1 DEF Increasing
  <2>3. WeekOf(bars[i], west) <= WeekOf(bars[j], west)
    BY <1>1, <2>2, DivideOrder DEF WeekOf
  <2>4. MonthOf(bars[i]) <= MonthOf(bars[j])
    BY <1>1, <1>2, <1>3, <2>2
  <2> QED BY <2>3, <2>4
<1>6. CASE key = Weeks(bars, west)
  <2>1. \A i \in DOMAIN bars : key[i] = WeekOf(bars[i], west)
    BY <1>6 DEF Weeks
  <2> QED BY <1>3, <1>4, <1>5, <2>1
<1>7. CASE key = Months(bars)
  <2>1. \A i \in DOMAIN bars : key[i] = MonthOf(bars[i])
    BY <1>7 DEF Months
  <2> QED BY <1>3, <1>4, <1>5, <2>1
<1> QED BY <1>6, <1>7

\* Whatever the interval, the candles conserve the bars.
LEMMA DisplayConserves ==
    ASSUME NEW bars \in Seq(BarType), bars # <<>>, Increasing(bars),
           NEW interval \in Interval, NEW west \in BOOLEAN,
           NEW candles, candles = DisplayBars(bars, interval, west)
    PROVE  /\ candles \in Seq(BarType) /\ candles # <<>>
           /\ Conserved(bars, candles)
           /\ interval = "weekly" /\ ~west =>
                Len(candles) = Cardinality({b.day \div 7 : b \in Range(bars)})
<1>1. ASSUME NEW key, key \in {Weeks(bars, west), Months(bars)}, candles = Aggregate(bars, key)
      PROVE  candles \in Seq(BarType) /\ candles # <<>> /\ Conserved(bars, candles)
  <2>1. /\ DOMAIN key = DOMAIN bars
        /\ \A i \in DOMAIN bars : key[i] \in Int
        /\ \A i, j \in DOMAIN bars : i <= j => key[i] <= key[j]
    BY <1>1, KeysInOrder
  <2>2. candles \in Seq(BarType)
    BY <1>1, <2>1, AggregateFacts
  <2>3. Volume(candles, DOMAIN candles) = Volume(bars, DOMAIN bars)
    BY <1>1, <2>1, AggregateVolume
  <2>4. /\ candles # <<>>
        /\ Highest(candles, DOMAIN candles) = Highest(bars, DOMAIN bars)
        /\ Lowest(candles, DOMAIN candles) = Lowest(bars, DOMAIN bars)
    BY <1>1, <2>1, AggregateRange
  <2>5. /\ candles[1].open = bars[1].open /\ Last(candles).close = Last(bars).close
        /\ Increasing(candles)
    BY <1>1, <2>1, AggregateOrder
  <2> QED BY <2>2, <2>3, <2>4, <2>5 DEF Conserved, Increasing
<1>2. CASE interval = "daily"
  <2>1. candles = bars
    BY <1>2 DEF DisplayBars
  <2> QED BY <1>2, <2>1 DEF Conserved, Increasing
<1>3. CASE interval = "weekly"
  <2>1. candles = Aggregate(bars, Weeks(bars, west))
    BY <1>3 DEF DisplayBars, AggregateWeekly
  <2>2. ASSUME ~west
        PROVE  Len(candles) = Cardinality({b.day \div 7 : b \in Range(bars)})
    <3> DEFINE key == Weeks(bars, west)
    <3>1. DOMAIN key = DOMAIN bars /\ \A i \in DOMAIN bars : key[i] = WeekOf(bars[i], FALSE)
      BY <2>2 DEF Weeks
    <3>2. \A i \in DOMAIN bars : key[i] = bars[i].day \div 7
      <4>1. \A i \in DOMAIN bars : bars[i] \in BarType
        OBVIOUS
      <4>2. \A i \in DOMAIN bars : bars[i].day \in Int
        BY <4>1 DEF BarType
      <4> QED BY <3>1, <4>2 DEF WeekOf
    <3> HIDE DEF key
    <3>3. {b.day \div 7 : b \in Range(bars)} = {key[i] : i \in DOMAIN bars}
      BY <3>2 DEF Range
    <3>4. Len(Aggregate(bars, key)) = Cardinality({key[i] : i \in DOMAIN bars})
      BY <3>1, AggregateCount
    <3> QED BY <2>1, <3>3, <3>4 DEF key
  <2> QED BY <1>1, <2>1, <2>2
<1>4. CASE interval = "monthly"
  <2>1. candles = Aggregate(bars, Months(bars))
    BY <1>4 DEF DisplayBars, AggregateMonthly
  <2> QED BY <1>1, <1>4, <2>1
<1> QED BY <1>2, <1>3, <1>4 DEF Interval

\* The bin of a close is one of the profile's, unless the close is below all lows.
LEMMA BinFacts ==
    ASSUME NEW close \in Int, NEW low \in Int, NEW range \in Nat \ {0}
    PROVE  /\ BinAt(close, low, range) \in Int
           /\ BinAt(close, low, range) < NumBins
           /\ BinAt(close, low, range) >= 0 <=> close >= low
<1>0. NumBins \in Nat \ {0}
  BY ChartAssumption
<1>1. PICK x \in Int : x = ((close - low) * NumBins) \div range /\ (x >= 0 <=> close - low >= 0)
  <2>1. close - low \in Int
    OBVIOUS
  <2>2. PICK y \in Int : y = (close - low) * NumBins /\ (close - low >= 0 <=> y >= 0)
    BY <1>0, <2>1, TimesNat
  <2>3. y \div range \in Int /\ (y >= 0 <=> y \div range >= 0)
    BY <2>2, DivideNat
  <2> QED BY <2>2, <2>3
<1>2. BinAt(close, low, range) = Min({x, NumBins - 1})
  BY <1>1 DEF BinAt
<1>3. {x, NumBins - 1} \in SUBSET Int /\ IsFiniteSet({x, NumBins - 1}) /\ {x, NumBins - 1} # {}
  <2>1. IsFiniteSet({x}) /\ IsFiniteSet({x} \cup {NumBins - 1})
    BY FS_Singleton, FS_AddElement
  <2>2. {x, NumBins - 1} = {x} \cup {NumBins - 1}
    OBVIOUS
  <2> QED BY <1>0, <1>1, <2>1, <2>2
<1>4. PICK z : z = Min({x, NumBins - 1}) /\ z \in {x, NumBins - 1} /\ z <= x /\ z <= NumBins - 1
  BY <1>3, ExtremeElements
<1> QED BY <1>0, <1>1, <1>2, <1>4

\* The bins are the parts of the candles that do not close below all lows.
LEMMA BinsProfile ==
    ASSUME NEW candles \in Seq(BarType), candles # <<>>, NEW bins, bins = Bins(candles), bins # <<>>
    PROVE  Profiled(candles, bins)
<1> DEFINE D == DOMAIN candles
           low == Lowest(candles, D)
           range == Highest(candles, D) - low
           In(n) == {i \in D : BinAt(candles[i].close, low, range) = n - 1}
           Rose == {i \in D : candles[i].close >= candles[i].open}
           U == {i \in D : candles[i].close >= low}
           P == [n \in 1 .. NumBins |-> In(n)]
           f == [i \in D |-> candles[i].volume]
           g == [n \in DOMAIN bins |-> bins[n].buy + bins[n].sell]
<1>0. NumBins \in Nat \ {0}
  BY ChartAssumption
<1>1. /\ ~(range <= 0)
      /\ bins = [n \in 1 .. NumBins |->
                    [buy |-> Volume(candles, In(n) \cap Rose), sell |-> Volume(candles, In(n) \ Rose)]]
  BY DEF Bins
<1>2. D # {} /\ IsFiniteSet(D)
  <2>1. Len(candles) \in Nat /\ Len(candles) # 0 /\ D = 1 .. Len(candles)
    OBVIOUS
  <2>2. IsFiniteSet(1 .. Len(candles)) /\ 1 \in D
    BY <2>1, FS_Interval
  <2> QED BY <2>1, <2>2
<1>3. \A i \in D : candles[i].close \in Int /\ f[i] \in Int
  <2>1. \A i \in D : candles[i] \in BarType
    OBVIOUS
  <2> QED BY <2>1 DEF BarType
<1>4. low \in Int /\ range \in Nat \ {0}
  <2>1. Candle(candles, D) \in BarType
    BY <1>2, CandleFacts
  <2>2. low \in Int /\ Highest(candles, D) \in Int
    BY <2>1 DEF Candle, BarType
  <2> QED BY <1>1, <2>2
<1> HIDE DEF low, range
<1>5. \A i \in D : /\ BinAt(candles[i].close, low, range) \in Int
                   /\ BinAt(candles[i].close, low, range) < NumBins
                   /\ BinAt(candles[i].close, low, range) >= 0 <=> i \in U
  BY <1>3, <1>4, BinFacts
<1>6. Parts(P, NumBins, U)
  <2>1. \A n \in 1 .. NumBins : P[n] = In(n)
    OBVIOUS
  <2>2. ASSUME NEW n \in 1 .. NumBins PROVE IsFiniteSet(In(n)) /\ In(n) \subseteq U
    <3>1. IsFiniteSet(In(n))
      BY <1>2, FS_Subset
    <3>2. n - 1 >= 0
      BY <1>0
    <3>3. ASSUME NEW i \in In(n) PROVE i \in U
      BY <1>5, <3>2
    <3> QED BY <3>1, <3>3
  <2>3. ASSUME NEW n \in 1 .. NumBins, NEW k \in 1 .. NumBins, n # k
        PROVE  In(n) \cap In(k) = {}
    <3>1. n - 1 # k - 1
      BY <1>0, <2>3
    <3> QED BY <3>1
  <2>4. ASSUME NEW i \in U PROVE \E n \in 1 .. NumBins : i \in In(n)
    <3>1. PICK b \in Int : b = BinAt(candles[i].close, low, range) /\ b >= 0 /\ b < NumBins
      BY <1>5
    <3>2. b + 1 \in 1 .. NumBins /\ b = (b + 1) - 1
      BY <1>0, <3>1
    <3>3. i \in In(b + 1)
      BY <3>1, <3>2
    <3> QED BY <3>2, <3>3
  <2> HIDE DEF P, In, U
  <2> QED BY <2>1, <2>2, <2>3, <2>4 DEF Parts
<1>7. DOMAIN bins = 1 .. NumBins
  BY <1>1
<1>8. ASSUME NEW n \in 1 .. NumBins PROVE g[n] = SumFunctionOnSet(f, P[n])
  <2>1. g[n] = Volume(candles, In(n) \cap Rose) + Volume(candles, In(n) \ Rose)
    <3>1. g[n] = bins[n].buy + bins[n].sell
      BY <1>7
    <3>2. /\ bins[n].buy = Volume(candles, In(n) \cap Rose)
          /\ bins[n].sell = Volume(candles, In(n) \ Rose)
      <4> HIDE DEF In, Rose
      <4> QED BY <1>1
    <3> HIDE DEF g, In, Rose
    <3> QED BY <3>1, <3>2
  <2>2. /\ IsFiniteSet(In(n) \cap Rose) /\ IsFiniteSet(In(n) \ Rose)
        /\ (In(n) \cap Rose) \cap (In(n) \ Rose) = {}
        /\ (In(n) \cap Rose) \cup (In(n) \ Rose) = P[n]
        /\ \A i \in (In(n) \cap Rose) \cup (In(n) \ Rose) : f[i] \in Int
    <3>1. (In(n) \cap Rose) \subseteq D /\ (In(n) \ Rose) \subseteq D
      OBVIOUS
    <3>2. IsFiniteSet(In(n) \cap Rose) /\ IsFiniteSet(In(n) \ Rose)
      BY <1>2, <3>1, FS_Subset
    <3>3. P[n] = In(n)
      OBVIOUS
    <3> HIDE DEF f, In, Rose, P
    <3> QED BY <1>3, <3>1, <3>2, <3>3
  <2> HIDE DEF g, In, Rose, P
  <2>3. g[n] = SumFunctionOnSet(f, In(n) \cap Rose) + SumFunctionOnSet(f, In(n) \ Rose)
    BY <2>1 DEF Volume
  <2> HIDE DEF f
  <2> QED BY <2>2, <2>3, SumUnion
<1>9. \A i \in U : f[i] \in Int
  BY <1>3
<1> HIDE DEF P, g, f, U
<1>10. SumFunctionOnSet(g, 1 .. NumBins) = SumFunctionOnSet(f, U)
  <2>1. NumBins \in Nat
    BY <1>0
  <2>2. \A n \in 1 .. NumBins : g[n] = SumFunctionOnSet(f, P[n])
    BY <1>8
  <2> QED BY <1>6, <1>9, <2>1, <2>2, SumParts
<1>11. SumFunction(g) = SumFunctionOnSet(f, U)
  <2>1. DOMAIN g = 1 .. NumBins
    BY <1>7 DEF g
  <2> QED BY <1>10, <2>1 DEF SumFunction
<1> QED BY <1>11 DEF Profiled, Volume, g, f, U, low

\* What the canvas draws for a ticker with bars tells of all of them.
LEMMA CandlesTell ==
    ASSUME panel = "candles" => CandlesOK
    PROVE  CandlesConserve
<1> SUFFICES ASSUME panel = "candles", drawn # None
             PROVE  CandlesConserve
  BY DEF CandlesConserve
<1> DEFINE bars == Bars[drawn.of]
           candles == CandlesOf[drawn.of][drawn.interval][view.west]
           bins == BinsOf[drawn.of][drawn.interval][view.west]
<1>1. /\ drawn.of \in Ticker /\ bars # <<>>
      /\ drawn.interval \in Interval /\ view.west \in BOOLEAN
  BY DEF CandlesOK
<1>2. bars \in Seq(BarType) /\ Increasing(bars)
  BY <1>1, ChartAssumption DEF Increasing
<1>3. candles = DisplayBars(bars, drawn.interval, view.west)
  BY <1>1 DEF CandlesOf
<1>4. bins = Bins(candles)
  BY <1>1 DEF BinsOf
<1> HIDE DEF bars, candles, bins
<1>5. /\ candles \in Seq(BarType) /\ candles # <<>>
      /\ Conserved(bars, candles)
      /\ drawn.interval = "weekly" /\ ~view.west =>
            Len(candles) = Cardinality({b.day \div 7 : b \in Range(bars)})
  BY <1>1, <1>2, <1>3, DisplayConserves
<1>6. bins # <<>> => Profiled(candles, bins)
  BY <1>4, <1>5, BinsProfile
<1> QED BY <1>5, <1>6 DEF CandlesConserve, bars, candles, bins
-----------------------------------------------------------------------------
(***************************************************************************)
(* The inputs that search while one types.  The overview has at most one   *)
(* call whose answer counts, and that is for the page and the search it    *)
(* names; the others are still in their pause, or their last call is for   *)
(* the text, or their results are, unless an answer overtook.              *)
(***************************************************************************)

LEMMA CallMade ==
    ASSUME Flags, NEW c, Call(c)
    PROVE  /\ Sequence(calls') /\ Len(calls') <= MaxCalls
           /\ overtaken' \in BOOLEAN /\ overlapped' \in BOOLEAN
           /\ calls' # <<>> /\ calls'[Len(calls')] = c
<1>1. /\ Len(calls) < MaxCalls /\ calls' = Append(calls, c)
      /\ overlapped' = (calls # <<>>) /\ overtaken' = (overtaken /\ calls # <<>>)
  BY DEF Call
<1>2. Len(calls) \in Nat
  BY SequenceFacts DEF Flags
<1>3. /\ Sequence(calls') /\ Len(calls') = Len(calls) + 1 /\ calls' # <<>>
      /\ calls'[Len(calls) + 1] = c
  BY <1>1, AppendFacts DEF Flags
<1>4. Len(calls') <= MaxCalls
  BY <1>1, <1>2, <1>3, PanelAssumption
<1>5. overtaken' \in BOOLEAN /\ overlapped' \in BOOLEAN
  BY <1>1
<1> QED BY <1>3, <1>4, <1>5

LEMMA CallTaken ==
    ASSUME Flags, NEW i \in DOMAIN calls, TakeCall(i)
    PROVE  /\ Sequence(calls') /\ Len(calls') <= MaxCalls /\ calls # <<>>
           /\ overtaken' \in BOOLEAN /\ overlapped' = overlapped
           /\ ~overtaken' => (~overtaken /\ i = 1)
           /\ calls' = <<>> <=> Len(calls) = 1
           /\ ~overtaken' /\ calls' # <<>> => calls'[Len(calls')] = calls[Len(calls)]
<1>1. calls' = Remaining(i) /\ overtaken' = (overtaken \/ i > 1) /\ overlapped' = overlapped
  BY DEF TakeCall
<1>2. /\ Sequence(calls') /\ Len(calls') = Len(calls) - 1
      /\ Len(calls) \in Nat \ {0} /\ i \in 1 .. Len(calls)
      /\ \A k \in 1 .. Len(calls) - 1 : calls'[k] = IF k < i THEN calls[k] ELSE calls[k + 1]
  BY <1>1, RemainingFacts DEF Flags
<1>3. calls # <<>> /\ (calls' = <<>> <=> Len(calls) = 1)
  BY <1>2, SequenceFacts DEF Flags
<1>4. Len(calls') <= MaxCalls
  BY <1>2, PanelAssumption DEF Flags
<1>5. overtaken' \in BOOLEAN
  BY <1>1
<1>6. ASSUME ~overtaken' PROVE ~overtaken /\ i = 1
  <2>1. ~overtaken /\ ~(i > 1)
    BY <1>1, <1>6
  <2> QED BY <1>2, <2>1
<1>7. ASSUME ~overtaken', calls' # <<>> PROVE calls'[Len(calls')] = calls[Len(calls)]
  <2>1. Len(calls) - 1 \in 1 .. Len(calls) - 1 /\ i = 1
    BY <1>2, <1>3, <1>6, <1>7
  <2> QED BY <1>2, <2>1
<1> QED BY <1>1, <1>2, <1>3, <1>4, <1>5, <1>6, <1>7

TypingOK ==
    /\ Flags
    /\ panel = "search" => view \in [timer : BOOLEAN]
    /\ panel = "palette" => view \in [open : BOOLEAN, timer : BOOLEAN]
    /\ view.timer => query # Nothing
    /\ ~overtaken =>
          \/ view.timer
          \/ calls # <<>> /\ calls[Len(calls)] = query /\ query # Nothing
          \/ calls = <<>> /\ (error \/ data = Wanted)

OverviewOK ==
    /\ Flags
    /\ view \in [typed : Text, timer : BOOLEAN, loaded : BOOLEAN]
    /\ \A i \in DOMAIN calls :
          /\ calls[i] = [q |-> calls[i].q, live |-> calls[i].live] /\ calls[i].live \in BOOLEAN
          /\ calls[i].live => calls[i].q = query
    /\ \A i, j \in DOMAIN calls : calls[i].live /\ calls[j].live => i = j
    /\ loading <=> \E i \in DOMAIN calls : calls[i].live
    /\ ~loading /\ ~error => data = query

SearchInv ==
    /\ panel = "overview" => OverviewOK
    /\ panel \in {"search", "palette"} => TypingOK

\* What SearchTypes, PaletteTypes and PaletteCloses do to what was looked for.
LEMMA TypedStep ==
    ASSUME TypingOK, panel \in {"search", "palette"}, panel' = panel, view'.timer \in BOOLEAN,
           panel = "search" => view' \in [timer : BOOLEAN],
           panel = "palette" => view' \in [open : BOOLEAN, timer : BOOLEAN],
           UNCHANGED <<calls, error, overlapped>>, loading' \in BOOLEAN,
           \/ query' = Nothing /\ Emptied /\ ~view'.timer
           \/ query' # Nothing /\ view'.timer /\ UNCHANGED overtaken
    PROVE  TypingOK'
<1>1. Sequence(calls') /\ Len(calls') <= MaxCalls /\ error' \in BOOLEAN /\ overlapped' \in BOOLEAN
  BY DEF TypingOK, Flags
<1>2. overtaken' \in BOOLEAN
  BY DEF Emptied, TypingOK, Flags
<1>3. Flags'
  BY <1>1, <1>2 DEF Flags
<1>4. view'.timer => query' # Nothing
  OBVIOUS
<1>5. CASE query' = Nothing /\ Emptied
  <2>1. data' = None /\ overtaken' = (calls # <<>>)
    BY <1>5 DEF Emptied
  <2>2. data' = Wanted'
    BY <1>5, <2>1 DEF Wanted
  <2>3. ~overtaken' => calls' = <<>>
    BY <2>1
  <2> QED BY <1>3, <1>4, <2>2, <2>3 DEF TypingOK
<1>6. CASE view'.timer
  BY <1>3, <1>4, <1>6 DEF TypingOK
<1> QED BY <1>5, <1>6

LEMMA TypingCalls ==
    ASSUME TypingOK, panel \in {"search", "palette"}, view.timer, panel' = panel,
           panel = "search" => view' \in [timer : BOOLEAN],
           panel = "palette" => view' \in [open : BOOLEAN, timer : BOOLEAN],
           ~view'.timer, Call(query), UNCHANGED <<query, data, loading, error>>
    PROVE  TypingOK'
<1>1. Flags /\ query # Nothing
  BY DEF TypingOK
<1>2. /\ Sequence(calls') /\ Len(calls') <= MaxCalls
      /\ overtaken' \in BOOLEAN /\ overlapped' \in BOOLEAN
      /\ calls' # <<>> /\ calls'[Len(calls')] = query
  BY <1>1, CallMade
<1>3. Flags'
  BY <1>1, <1>2 DEF Flags
<1> QED BY <1>1, <1>2, <1>3 DEF TypingOK

LEMMA ResultsTaken ==
    ASSUME TypingOK, panel \in {"search", "palette"}, TakeResults, UNCHANGED <<panel, query, view>>
    PROVE  TypingOK'
<1>1. PICK i \in DOMAIN calls :
          /\ TakeCall(i) /\ loading' = FALSE
          /\ \/ data' = calls[i] /\ error' = FALSE
             \/ data' = None /\ error' = TRUE
  BY DEF TakeResults
<1>2. /\ Sequence(calls') /\ Len(calls') <= MaxCalls /\ calls # <<>>
      /\ overtaken' \in BOOLEAN /\ overlapped' = overlapped
      /\ ~overtaken' => (~overtaken /\ i = 1)
      /\ calls' = <<>> <=> Len(calls) = 1
      /\ ~overtaken' /\ calls' # <<>> => calls'[Len(calls')] = calls[Len(calls)]
  BY <1>1, CallTaken DEF TypingOK
<1>3. error' \in BOOLEAN
  BY <1>1
<1>4. Flags'
  BY <1>1, <1>2, <1>3 DEF TypingOK, Flags
<1>5. ASSUME ~overtaken', ~view'.timer
      PROVE  \/ calls' # <<>> /\ calls'[Len(calls')] = query' /\ query' # Nothing
             \/ calls' = <<>> /\ (error' \/ data' = Wanted')
  <2>1. i = 1 /\ calls[Len(calls)] = query /\ query # Nothing
    BY <1>2, <1>5 DEF TypingOK
  <2>2. CASE calls' # <<>>
    BY <1>2, <1>5, <2>1, <2>2
  <2>3. CASE calls' = <<>>
    <3>1. calls[i] = query /\ Wanted' = query
      BY <1>2, <2>1, <2>3 DEF Wanted
    <3>2. error' \/ data' = query
      BY <1>1, <3>1
    <3> QED BY <2>3, <3>1, <3>2
  <2> QED BY <2>2, <2>3
<1>6. view'.timer => query' # Nothing
  BY DEF TypingOK
<1> QED BY <1>4, <1>5, <1>6 DEF TypingOK

LEMMA TypingStep ==
    ASSUME TypingOK, panel \in {"search", "palette"}, SearchNext
    PROVE  TypingOK' /\ panel' = panel
<1>1. ASSUME NEW text \in Text, SearchTypes(text) PROVE TypingOK' /\ panel' = panel
  <2>1. /\ panel = "search" /\ panel' = panel /\ query' = text
        /\ UNCHANGED <<calls, error, overlapped>>
    BY <1>1 DEF SearchTypes
  <2>2. CASE text = Nothing
    <3>1. Emptied /\ view' = [timer |-> FALSE] /\ loading' = loading
      BY <1>1, <2>2 DEF SearchTypes
    <3>2. loading' \in BOOLEAN
      BY <3>1 DEF TypingOK, Flags
    <3> QED BY <2>1, <2>2, <3>1, <3>2, TypedStep
  <2>3. CASE text # Nothing
    <3>1. view' = [timer |-> TRUE] /\ loading' = TRUE /\ UNCHANGED overtaken
      BY <1>1, <2>3 DEF SearchTypes
    <3> QED BY <2>1, <2>3, <3>1, TypedStep
  <2> QED BY <2>2, <2>3
<1>2. ASSUME NEW text \in Text, PaletteTypes(text) PROVE TypingOK' /\ panel' = panel
  <2>1. /\ panel = "palette" /\ panel' = panel /\ query' = text
        /\ UNCHANGED <<calls, error, overlapped>>
        /\ view \in [open : BOOLEAN, timer : BOOLEAN]
    BY <1>2 DEF PaletteTypes, TypingOK
  <2>2. CASE text = Nothing
    <3>1. Emptied /\ view' = [view EXCEPT !.timer = FALSE] /\ loading' = FALSE
      BY <1>2, <2>2 DEF PaletteTypes
    <3>2. view' \in [open : BOOLEAN, timer : BOOLEAN] /\ ~view'.timer
      BY <2>1, <3>1
    <3> QED BY <2>1, <2>2, <3>1, <3>2, TypedStep
  <2>3. CASE text # Nothing
    <3>1. view' = [view EXCEPT !.timer = TRUE] /\ loading' = TRUE /\ UNCHANGED overtaken
      BY <1>2, <2>3 DEF PaletteTypes
    <3>2. view' \in [open : BOOLEAN, timer : BOOLEAN] /\ view'.timer = TRUE
      BY <2>1, <3>1
    <3> QED BY <2>1, <2>3, <3>1, <3>2, TypedStep
  <2> QED BY <2>2, <2>3
<1>3. CASE PaletteCloses
  <2>1. /\ panel = "palette" /\ panel' = panel /\ query' = Nothing /\ loading' = FALSE /\ Emptied
        /\ view' = [open |-> FALSE, timer |-> FALSE] /\ UNCHANGED <<calls, error, overlapped>>
    BY <1>3 DEF PaletteCloses
  <2> QED BY <2>1, TypedStep
<1>4. CASE SearchCalls
  <2>1. /\ panel = "search" /\ panel' = panel /\ view.timer /\ view' = [timer |-> FALSE]
        /\ Call(query) /\ UNCHANGED <<query, data, loading, error>>
    BY <1>4 DEF SearchCalls
  <2> QED BY <2>1, TypingCalls
<1>5. CASE PaletteCalls
  <2>1. /\ panel = "palette" /\ panel' = panel /\ view.timer
        /\ view' = [view EXCEPT !.timer = FALSE]
        /\ Call(query) /\ UNCHANGED <<query, data, loading, error>>
    BY <1>5 DEF PaletteCalls
  <2>2. view' \in [open : BOOLEAN, timer : BOOLEAN] /\ ~view'.timer
    BY <2>1 DEF TypingOK
  <2> QED BY <2>1, <2>2, TypingCalls
<1>6. CASE SearchArrives \/ PaletteArrives
  BY <1>6, ResultsTaken DEF SearchArrives, PaletteArrives
<1>7. CASE PaletteToggles
  <2>1. /\ panel = "palette" /\ panel' = panel /\ view' = [view EXCEPT !.open = ~@]
        /\ UNCHANGED <<query, data, loading, error, calls, overtaken, overlapped>>
    BY <1>7 DEF PaletteToggles, fetchVars
  <2>2. view' \in [open : BOOLEAN, timer : BOOLEAN] /\ view'.timer = view.timer
    BY <2>1 DEF TypingOK
  <2>3. Flags' /\ Wanted' = Wanted
    BY <2>1 DEF TypingOK, Flags, Wanted
  <2> QED BY <2>1, <2>2, <2>3 DEF TypingOK
<1> QED BY <1>1, <1>2, <1>3, <1>4, <1>5, <1>6, <1>7
        DEF SearchNext, OverviewTypes, OverviewSearches, OverviewTurns, OverviewArrives

LEMMA OverviewLoading ==
    ASSUME OverviewOK, NEW q, OverviewLoads(q),
           view' \in [typed : Text, timer : BOOLEAN, loaded : BOOLEAN]
    PROVE  OverviewOK' /\ panel' = panel
<1> DEFINE cancelled == CancelAll
           call == [q |-> q, live |-> TRUE]
<1>1. /\ Len(calls) < MaxCalls /\ query' = q /\ loading' = TRUE /\ error' = FALSE
      /\ calls' = Append(cancelled, call) /\ UNCHANGED <<data, overtaken, overlapped, panel>>
  BY DEF OverviewLoads
<1>2. Len(calls) \in Nat /\ DOMAIN calls = 1 .. Len(calls)
  BY SequenceFacts DEF OverviewOK, Flags
<1>3. Sequence(cancelled) /\ Len(cancelled) = Len(calls)
  <2>1. cancelled = [i \in 1 .. Len(calls) |-> cancelled[i]]
    BY <1>2 DEF CancelAll
  <2> HIDE DEF cancelled
  <2> QED BY <1>2, <2>1, SequenceOf
<1>4. \A i \in 1 .. Len(calls) : cancelled[i] = [q |-> calls[i].q, live |-> FALSE]
  <2> TAKE i \in 1 .. Len(calls)
  <2>1. calls[i] = [q |-> calls[i].q, live |-> calls[i].live]
    BY <1>2 DEF OverviewOK
  <2>2. cancelled[i] = [calls[i] EXCEPT !.live = FALSE]
    BY <1>2 DEF CancelAll
  <2> QED BY <2>1, <2>2
<1> HIDE DEF cancelled, call
<1>5. /\ Sequence(calls') /\ Len(calls') = Len(calls) + 1 /\ calls'[Len(calls) + 1] = call
      /\ \A i \in 1 .. Len(calls) : calls'[i] = [q |-> calls[i].q, live |-> FALSE]
  BY <1>1, <1>3, <1>4, AppendFacts
<1>6. DOMAIN calls' = 1 .. Len(calls) + 1
  BY <1>5, SequenceFacts
<1>7. call = [q |-> call.q, live |-> call.live] /\ call.live = TRUE /\ call.q = q
  BY DEF call
<1>8. \A i \in DOMAIN calls' :
          /\ calls'[i] = [q |-> calls'[i].q, live |-> calls'[i].live] /\ calls'[i].live \in BOOLEAN
          /\ calls'[i].live => (calls'[i].q = query' /\ i = Len(calls) + 1)
  <2> TAKE i \in DOMAIN calls'
  <2>1. CASE i = Len(calls) + 1
    BY <1>1, <1>5, <1>7, <2>1
  <2>2. CASE i # Len(calls) + 1
    <3>1. i \in 1 .. Len(calls)
      BY <1>2, <1>6, <2>2
    <3>2. calls'[i] = [q |-> calls[i].q, live |-> FALSE]
      BY <1>5, <3>1
    <3>3. calls'[i].q = calls[i].q /\ calls'[i].live = FALSE
      BY <3>2
    <3> QED BY <3>2, <3>3
  <2> QED BY <2>1, <2>2
<1>9. \E i \in DOMAIN calls' : calls'[i].live
  <2>1. Len(calls) + 1 \in DOMAIN calls'
    BY <1>2, <1>6
  <2> QED BY <1>5, <1>7, <2>1
<1>10. Flags'
  <2>1. Len(calls') <= MaxCalls
    BY <1>1, <1>2, <1>5, PanelAssumption
  <2>2. loading' \in BOOLEAN /\ error' \in BOOLEAN
    BY <1>1
  <2> QED BY <1>1, <1>5, <2>1, <2>2 DEF OverviewOK, Flags
<1> QED BY <1>1, <1>8, <1>9, <1>10 DEF OverviewOK

LEMMA OverviewAnswered ==
    ASSUME OverviewOK, OverviewArrives
    PROVE  OverviewOK' /\ panel' = panel
<1>1. PICK i \in DOMAIN calls :
          /\ calls' = Remaining(i)
          /\ view' = [view EXCEPT !.loaded = @ \/ calls[i].live]
          /\ \/ ~calls[i].live /\ UNCHANGED <<data, loading, error>>
             \/ calls[i].live /\ loading' = FALSE /\ data' = calls[i].q /\ UNCHANGED error
             \/ calls[i].live /\ loading' = FALSE /\ error' = TRUE /\ UNCHANGED data
  BY DEF OverviewArrives
<1>2. UNCHANGED <<panel, query, overtaken, overlapped>>
  BY DEF OverviewArrives
<1>3. /\ Sequence(calls') /\ Len(calls') = Len(calls) - 1
      /\ Len(calls) \in Nat \ {0} /\ i \in 1 .. Len(calls)
      /\ \A k \in 1 .. Len(calls) - 1 : calls'[k] = IF k < i THEN calls[k] ELSE calls[k + 1]
  BY <1>1, RemainingFacts DEF OverviewOK, Flags
<1>4. DOMAIN calls' = 1 .. Len(calls) - 1 /\ DOMAIN calls = 1 .. Len(calls)
  BY <1>3, SequenceFacts DEF OverviewOK, Flags
<1>5. Flags'
  <2>1. Len(calls') <= MaxCalls
    BY <1>3, PanelAssumption DEF OverviewOK, Flags
  <2>2. loading' \in BOOLEAN /\ error' \in BOOLEAN
    BY <1>1 DEF OverviewOK, Flags
  <2> QED BY <1>2, <1>3, <2>1, <2>2 DEF OverviewOK, Flags
<1>6. view' \in [typed : Text, timer : BOOLEAN, loaded : BOOLEAN]
  <2>1. (view.loaded \/ calls[i].live) \in BOOLEAN
    OBVIOUS
  <2> QED BY <1>1, <2>1 DEF OverviewOK
<1>7. \A k \in DOMAIN calls' : \E j \in DOMAIN calls : j # i /\ calls'[k] = calls[j]
  BY <1>1, RemainingSame DEF OverviewOK, Flags
<1>8. \A j \in DOMAIN calls : j # i => \E k \in DOMAIN calls' : calls'[k] = calls[j]
  BY <1>1, RemainingSame DEF OverviewOK, Flags
<1>9. \A k \in DOMAIN calls' :
          /\ calls'[k] = [q |-> calls'[k].q, live |-> calls'[k].live] /\ calls'[k].live \in BOOLEAN
          /\ calls'[k].live => calls'[k].q = query'
  <2> TAKE k \in DOMAIN calls'
  <2>1. PICK j \in DOMAIN calls : j # i /\ calls'[k] = calls[j]
    BY <1>7
  <2>2. /\ calls[j] = [q |-> calls[j].q, live |-> calls[j].live] /\ calls[j].live \in BOOLEAN
        /\ calls[j].live => calls[j].q = query
    BY <2>1 DEF OverviewOK
  <2> QED BY <1>2, <2>1, <2>2
<1>10. \A k, m \in DOMAIN calls' : calls'[k].live /\ calls'[m].live => k = m
  <2> SUFFICES ASSUME NEW k \in DOMAIN calls', NEW m \in DOMAIN calls', calls'[k].live, calls'[m].live
               PROVE  k = m
    OBVIOUS
  <2> DEFINE p == IF k < i THEN k ELSE k + 1
             r == IF m < i THEN m ELSE m + 1
  <2>1. p \in DOMAIN calls /\ r \in DOMAIN calls /\ (p = r => k = m)
    BY <1>3, <1>4
  <2>2. calls'[k] = calls[p] /\ calls'[m] = calls[r]
    BY <1>3, <1>4
  <2>3. calls[p].live /\ calls[r].live
    BY <2>2
  <2> HIDE DEF p, r
  <2>4. p = r
    BY <2>1, <2>3 DEF OverviewOK
  <2> QED BY <2>1, <2>4
<1>11. (loading' <=> \E k \in DOMAIN calls' : calls'[k].live) /\ (~loading' /\ ~error' => data' = query')
  <2>1. CASE ~calls[i].live
    <3>1. loading' = loading /\ data' = data /\ error' = error
      BY <1>1, <2>1
    <3>2. (\E j \in DOMAIN calls : calls[j].live) <=> \E k \in DOMAIN calls' : calls'[k].live
      BY <1>7, <1>8, <2>1
    <3> QED BY <1>2, <3>1, <3>2 DEF OverviewOK
  <2>2. CASE calls[i].live
    <3>1. loading' = FALSE /\ (data' = calls[i].q \/ error' = TRUE)
      BY <1>1, <2>2
    <3>2. calls[i].q = query /\ \A j \in DOMAIN calls : calls[j].live => j = i
      BY <2>2 DEF OverviewOK
    <3>3. \A k \in DOMAIN calls' : ~calls'[k].live
      BY <1>7, <3>2
    <3> QED BY <1>2, <3>1, <3>2, <3>3
  <2> QED BY <2>1, <2>2
<1> QED BY <1>2, <1>5, <1>6, <1>9, <1>10, <1>11 DEF OverviewOK

LEMMA OverviewStep ==
    ASSUME OverviewOK, panel = "overview", SearchNext
    PROVE  OverviewOK' /\ panel' = panel
<1>1. ASSUME panel' = panel, UNCHANGED fetchVars,
             view' \in [typed : Text, timer : BOOLEAN, loaded : BOOLEAN]
      PROVE  OverviewOK' /\ panel' = panel
  BY <1>1 DEF OverviewOK, Flags, fetchVars
<1>2. ASSUME NEW text \in Text, OverviewTypes(text) PROVE OverviewOK' /\ panel' = panel
  <2>1. /\ panel' = panel /\ UNCHANGED fetchVars
        /\ view' = [view EXCEPT !.typed = text, !.timer = TRUE]
    BY <1>2 DEF OverviewTypes
  <2>2. view' \in [typed : Text, timer : BOOLEAN, loaded : BOOLEAN]
    BY <2>1 DEF OverviewOK
  <2> QED BY <1>1, <2>1, <2>2
<1>3. CASE OverviewSearches
  <2> DEFINE q == [page |-> 1, search |-> view.typed]
  <2>1. /\ view' = [view EXCEPT !.timer = FALSE]
        /\ IF q = query THEN UNCHANGED <<panel, fetchVars, drawn>> ELSE OverviewLoads(q)
    BY <1>3 DEF OverviewSearches
  <2>2. view' \in [typed : Text, timer : BOOLEAN, loaded : BOOLEAN]
    BY <2>1 DEF OverviewOK
  <2> HIDE DEF q
  <2>3. CASE q = query
    <3>1. panel' = panel /\ UNCHANGED fetchVars
      BY <2>1, <2>3
    <3> QED BY <1>1, <2>2, <3>1
  <2>4. CASE q # query
    BY <2>1, <2>2, <2>4, OverviewLoading
  <2> QED BY <2>3, <2>4
<1>4. CASE OverviewTurns
  <2>1. PICK p : OverviewLoads([query EXCEPT !.page = p])
    BY <1>4 DEF OverviewTurns
  <2>2. view' \in [typed : Text, timer : BOOLEAN, loaded : BOOLEAN]
    BY <1>4 DEF OverviewTurns, OverviewOK
  <2> QED BY <2>1, <2>2, OverviewLoading
<1>5. CASE OverviewArrives
  BY <1>5, OverviewAnswered
<1> QED BY <1>2, <1>3, <1>4, <1>5
        DEF SearchNext, SearchTypes, PaletteTypes, SearchCalls, SearchArrives, PaletteToggles,
            PaletteCloses, PaletteCalls, PaletteArrives

LEMMA SearchInvStep ==
    ASSUME SearchInv, SearchNext
    PROVE  SearchInv' /\ panel' = panel /\ panel \in {"overview", "search", "palette"}
<1>1. panel \in {"overview", "search", "palette"}
  BY DEF SearchNext, OverviewTypes, OverviewSearches, OverviewTurns, OverviewArrives, SearchTypes,
         PaletteTypes, SearchCalls, SearchArrives, PaletteToggles, PaletteCloses, PaletteCalls,
         PaletteArrives
<1> QED BY <1>1, TypingStep, OverviewStep DEF SearchInv

LEMMA SearchInvInit ==
    ASSUME SearchInit
    PROVE  SearchInv
<1>1. /\ error = FALSE /\ overtaken = FALSE /\ overlapped = FALSE /\ data = None
      /\ loading \in BOOLEAN /\ error \in BOOLEAN /\ overtaken \in BOOLEAN /\ overlapped \in BOOLEAN
  <2>1. error = FALSE /\ overtaken = FALSE /\ overlapped = FALSE /\ data = None
    BY DEF SearchInit
  <2>2. loading = TRUE \/ loading = FALSE
    BY DEF SearchInit
  <2> QED BY <2>1, <2>2
<1>2. ASSUME panel = "overview" PROVE OverviewOK
  <2> DEFINE call == [q |-> query, live |-> TRUE]
  <2>1. /\ calls = <<call>> /\ loading = TRUE
        /\ view = [typed |-> Nothing, timer |-> FALSE, loaded |-> FALSE]
    BY <1>2 DEF SearchInit
  <2>2. call = [q |-> call.q, live |-> call.live] /\ call.live = TRUE /\ call.q = query
    OBVIOUS
  <2> HIDE DEF call
  <2>3. Sequence(calls) /\ Len(calls) = 1 /\ calls[1] = call
    BY <2>1, ShortSequences
  <2>4. DOMAIN calls = {1}
    <3>1. DOMAIN calls = 1 .. 1
      BY <2>3, SequenceFacts
    <3> QED BY <3>1
  <2>5. Flags
    BY <1>1, <2>3, PanelAssumption DEF Flags
  <2>6. view \in [typed : Text, timer : BOOLEAN, loaded : BOOLEAN]
    BY <2>1 DEF Text
  <2>7. \E i \in DOMAIN calls : calls[i].live
    BY <2>2, <2>3, <2>4
  <2>8. \A i \in DOMAIN calls :
          /\ calls[i] = [q |-> calls[i].q, live |-> calls[i].live] /\ calls[i].live \in BOOLEAN
          /\ calls[i].live => calls[i].q = query
    BY <2>2, <2>3, <2>4
  <2>9. \A i, j \in DOMAIN calls : calls[i].live /\ calls[j].live => i = j
    BY <2>4
  <2> QED BY <2>1, <2>5, <2>6, <2>7, <2>8, <2>9 DEF OverviewOK
<1>3. ASSUME panel \in {"search", "palette"} PROVE TypingOK
  <2>1. query = Nothing /\ calls = <<>> /\ ~view.timer
    BY <1>3 DEF SearchInit
  <2>2. Flags
    BY <1>1, <2>1, ShortSequences, PanelAssumption DEF Flags
  <2>3. data = Wanted
    BY <1>1, <2>1 DEF Wanted
  <2>4. ASSUME panel = "search" PROVE view \in [timer : BOOLEAN]
    <3>1. view = [timer |-> FALSE]
      BY <2>4 DEF SearchInit
    <3> QED BY <3>1
  <2>5. ASSUME panel = "palette" PROVE view \in [open : BOOLEAN, timer : BOOLEAN]
    <3>1. view = [open |-> FALSE, timer |-> FALSE]
      BY <2>5 DEF SearchInit
    <3> QED BY <3>1
  <2> QED BY <2>1, <2>2, <2>3, <2>4, <2>5 DEF TypingOK
<1> QED BY <1>2, <1>3 DEF SearchInv

LEMMA SearchedIsShown ==
    ASSUME SearchInv
    PROVE  SearchShowsText
<1>1. panel = "overview" /\ ~loading /\ ~error => data = query
  BY DEF SearchInv, OverviewOK
<1>2. panel = "overview" => (loading <=> \E i \in DOMAIN calls : calls[i].live)
  BY DEF SearchInv, OverviewOK
<1>3. panel \in {"search", "palette"} /\ calls = <<>> /\ ~view.timer /\ ~overtaken /\ ~error =>
          data = Wanted
  BY DEF SearchInv, TypingOK
<1> QED BY <1>1, <1>2, <1>3 DEF SearchShowsText

-----------------------------------------------------------------------------
(***************************************************************************)
(* The list of tickers that the panels share.                              *)
(***************************************************************************)

HookStates == {"away", "waiting", "has", "none"}

TickersOK ==
    /\ Flags /\ query = "all"
    /\ view \in [inflight : BOOLEAN, hooks : [Hook -> HookStates]]
    /\ Len(calls) <= 1
    /\ view.inflight <=> calls # <<>>
    /\ \A h \in Hook : view.hooks[h] = "waiting" => view.inflight /\ data = None
    /\ \A h \in Hook : view.hooks[h] = "has" => data # None

TickersInv == panel = "tickers" => TickersOK

LEMMA TickersMounts ==
    ASSUME TickersOK, NEW h \in Hook, TickersMount(h)
    PROVE  TickersOK'
<1> DEFINE got == IF data = None THEN "waiting" ELSE "has"
<1>1. /\ view' = [view EXCEPT !.hooks[h] = got, !.inflight = @ \/ data = None]
      /\ calls' = IF data = None /\ ~view.inflight THEN Append(calls, query) ELSE calls
      /\ loading' = (loading \/ data = None)
      /\ UNCHANGED <<panel, query, data, error, overtaken, overlapped>>
  BY DEF TickersMount
<1>2. /\ view'.hooks = [view.hooks EXCEPT ![h] = got]
      /\ view'.inflight = (view.inflight \/ data = None)
      /\ view' \in [inflight : BOOLEAN, hooks : [Hook -> HookStates]]
  <2>1. got \in HookStates
    BY DEF HookStates
  <2>2. (view.inflight \/ data = None) \in BOOLEAN
    OBVIOUS
  <2> HIDE DEF got
  <2>3. [view.hooks EXCEPT ![h] = got] \in [Hook -> HookStates]
    BY <2>1 DEF TickersOK
  <2>4. view' = [inflight |-> (view.inflight \/ data = None), hooks |-> [view.hooks EXCEPT ![h] = got]]
    BY <1>1 DEF TickersOK
  <2> QED BY <2>2, <2>3, <2>4
<1>3. /\ Sequence(calls') /\ Len(calls') <= 1
      /\ view'.inflight <=> calls' # <<>>
  <2>1. view.inflight <=> calls # <<>>
    BY DEF TickersOK
  <2>2. view'.inflight <=> (view.inflight \/ data = None)
    BY <1>2
  <2>3. CASE data = None /\ ~view.inflight
    <3>1. calls' = Append(calls, query) /\ Sequence(calls) /\ Len(calls) = 0
      BY <1>1, <2>1, <2>3, SequenceFacts DEF TickersOK, Flags
    <3>2. Sequence(calls') /\ Len(calls') = Len(calls) + 1 /\ calls' # <<>>
      BY <3>1, AppendFacts
    <3> QED BY <2>2, <2>3, <3>1, <3>2
  <2>4. CASE ~(data = None /\ ~view.inflight)
    <3>1. calls' = calls
      BY <1>1, <2>4
    <3> QED BY <2>1, <2>2, <2>4, <3>1 DEF TickersOK, Flags
  <2> QED BY <2>3, <2>4
<1>4. Flags' /\ query' = "all"
  <2>1. loading' \in BOOLEAN
    BY <1>1
  <2>2. Len(calls') \in Nat /\ Len(calls') <= MaxCalls
    BY <1>3, SequenceFacts, PanelAssumption
  <2> QED BY <1>1, <1>3, <2>1, <2>2 DEF TickersOK, Flags
<1>5. \A k \in Hook : view'.hooks[k] = "waiting" => view'.inflight /\ data' = None
  <2> SUFFICES ASSUME NEW k \in Hook, view'.hooks[k] = "waiting"
               PROVE  view'.inflight /\ data' = None
    OBVIOUS
  <2>1. CASE k = h
    <3>1. view'.hooks[k] = got
      BY <1>2, <2>1 DEF TickersOK
    <3>2. data = None
      BY <3>1
    <3> QED BY <1>1, <1>2, <3>2
  <2>2. CASE k # h
    <3>1. view.hooks[k] = "waiting"
      BY <1>2, <2>2 DEF TickersOK
    <3> QED BY <1>1, <1>2, <3>1 DEF TickersOK
  <2> QED BY <2>1, <2>2
<1>6. \A k \in Hook : view'.hooks[k] = "has" => data' # None
  <2> SUFFICES ASSUME NEW k \in Hook, view'.hooks[k] = "has"
               PROVE  data' # None
    OBVIOUS
  <2>1. CASE k = h
    <3>1. view'.hooks[k] = got
      BY <1>2, <2>1 DEF TickersOK
    <3> QED BY <1>1, <3>1
  <2>2. CASE k # h
    <3>1. view.hooks[k] = "has"
      BY <1>2, <2>2 DEF TickersOK
    <3> QED BY <1>1, <3>1 DEF TickersOK
  <2> QED BY <2>1, <2>2
<1> QED BY <1>2, <1>3, <1>4, <1>5, <1>6 DEF TickersOK

LEMMA TickersUnmounts ==
    ASSUME TickersOK, NEW h \in Hook, TickersUnmount(h)
    PROVE  TickersOK'
<1>1. /\ view' = [view EXCEPT !.hooks[h] = "away"]
      /\ loading' = (Waiting \ {h} # {})
      /\ UNCHANGED <<panel, query, data, error, calls, overtaken, overlapped>>
  BY DEF TickersUnmount
<1>2. /\ view'.hooks = [view.hooks EXCEPT ![h] = "away"] /\ view'.inflight = view.inflight
      /\ view' \in [inflight : BOOLEAN, hooks : [Hook -> HookStates]]
  BY <1>1 DEF TickersOK, HookStates
<1>3. \A k \in Hook : view'.hooks[k] # "away" => view'.hooks[k] = view.hooks[k]
  BY <1>2 DEF TickersOK
<1>4. loading' \in BOOLEAN
  BY <1>1
<1>5. Flags'
  BY <1>1, <1>4 DEF TickersOK, Flags
<1>6. \A k \in Hook : view'.hooks[k] = "waiting" => view'.inflight /\ data' = None
  BY <1>1, <1>2, <1>3 DEF TickersOK
<1>7. \A k \in Hook : view'.hooks[k] = "has" => data' # None
  BY <1>1, <1>3 DEF TickersOK
<1> QED BY <1>1, <1>2, <1>5, <1>6, <1>7 DEF TickersOK

LEMMA TickersAnswered ==
    ASSUME TickersOK, NamesArrive
    PROVE  TickersOK'
<1>1. PICK i \in DOMAIN calls : calls' = Remaining(i)
  BY DEF NamesArrive
<1>2. PICK got \in {"has", "none"} :
          /\ view' = [view EXCEPT !.hooks = Settle(@, got), !.inflight = FALSE]
          /\ \/ got = "has" /\ data' = query
             \/ got = "none" /\ data' = data
  BY DEF NamesArrive, FailureForgotten
<1>3. loading' = FALSE /\ UNCHANGED <<panel, query, error, overtaken, overlapped>>
  BY DEF NamesArrive
<1>4. Sequence(calls') /\ Len(calls') = 0 /\ calls' = <<>>
  <2>1. Sequence(calls') /\ Len(calls') = Len(calls) - 1 /\ Len(calls) \in Nat \ {0}
    BY <1>1, RemainingFacts DEF TickersOK, Flags
  <2>2. Len(calls') = 0
    BY <2>1 DEF TickersOK
  <2> QED BY <2>1, <2>2, SequenceFacts
<1>5. /\ view'.inflight = FALSE /\ view'.hooks = Settle(view.hooks, got)
      /\ view' \in [inflight : BOOLEAN, hooks : [Hook -> HookStates]]
  <2>1. Settle(view.hooks, got) \in [Hook -> HookStates]
    BY DEF Settle, TickersOK, HookStates
  <2> QED BY <1>2, <2>1 DEF TickersOK
<1>6. \A k \in Hook : view'.hooks[k] = IF view.hooks[k] = "waiting" THEN got ELSE view.hooks[k]
  BY <1>5 DEF Settle
<1>7. \A k \in Hook : view'.hooks[k] # "waiting"
  BY <1>6
<1>8. \A k \in Hook : view'.hooks[k] = "has" => data' # None
  BY <1>2, <1>6, TickersAssumption DEF TickersOK
<1>9. Flags'
  <2>1. loading' \in BOOLEAN
    BY <1>3
  <2>2. Len(calls') <= MaxCalls
    <3>1. MaxCalls \in Nat
      BY PanelAssumption
    <3> HIDE DEF Sequence
    <3> QED BY <1>4, <3>1
  <2> QED BY <1>3, <1>4, <2>1, <2>2 DEF TickersOK, Flags
<1> QED BY <1>3, <1>4, <1>5, <1>7, <1>8, <1>9 DEF TickersOK

LEMMA TickersInvStep ==
    ASSUME TickersInv, TickerListNext
    PROVE  TickersInv' /\ panel' = panel /\ panel = "tickers"
<1>1. panel' = panel /\ panel = "tickers"
  BY DEF TickerListNext, TickersMount, TickersUnmount, NamesArrive
<1> QED BY <1>1, TickersMounts, TickersUnmounts, TickersAnswered DEF TickersInv, TickerListNext

LEMMA TickersInvInit ==
    ASSUME TickerListInit
    PROVE  TickersInv
<1>1. /\ query = "all" /\ loading = FALSE /\ error = FALSE
      /\ calls = <<>> /\ overtaken = FALSE /\ overlapped = FALSE
      /\ view = [inflight |-> FALSE, hooks |-> [h \in Hook |-> "away"]]
  BY DEF TickerListInit
<1>2. Flags /\ Len(calls) = 0
  <2>1. loading \in BOOLEAN /\ error \in BOOLEAN /\ overtaken \in BOOLEAN /\ overlapped \in BOOLEAN
    BY <1>1
  <2>2. Sequence(calls) /\ Len(calls) = 0
    BY <1>1, ShortSequences
  <2> QED BY <2>1, <2>2, PanelAssumption DEF Flags
<1>3. /\ view \in [inflight : BOOLEAN, hooks : [Hook -> HookStates]]
      /\ view.inflight = FALSE /\ \A h \in Hook : view.hooks[h] = "away"
  BY <1>1 DEF HookStates
<1> QED BY <1>1, <1>2, <1>3 DEF TickersInv, TickersOK

LEMMA TickersAreShared ==
    ASSUME TickersInv
    PROVE  TickersShared
  BY DEF TickersInv, TickersOK, TickersShared, Waiting

-----------------------------------------------------------------------------
(***************************************************************************)
(* The panels that change what they list.  Whatever is not told to have    *)
(* failed is on the screen or on its way: either the latest list was shown *)
(* or there is a call that brings it, will have it loaded, or will fail.   *)
(* What was shown latest, unless it was overtaken, is the server's list.   *)
(***************************************************************************)

Lists == [Item -> Kept]
CallRec ==
    [op : {"list", "add", "delete", "clean"}, item : Item \cup {None},
     for : {"mount", "refresh", "busy", "row"}, state : {"sent", "answered", "failed"},
     rows : Lists \cup {None}, version : Nat]
ViewRec ==
    [server : Lists, version : Nat, seen : Nat, busy : BOOLEAN, deleting : Item \cup {None}]

\* A call that was answered with the version that is the latest has its list.
CallOK(c, version, server) ==
    /\ c \in CallRec /\ c.version <= version
    /\ c.state = "answered" /\ c.version = version => c.rows = server

\* After call c in panel p, the version is shown, or a failure is told.
Brings(c, version, p) ==
    \/ c.state = "failed"
    \/ c.state = "sent" /\ c.op = "list"
    \/ c.state = "answered" /\ c.version = version
    \/ c.state = "answered" /\ c.op # "list" /\ ~(p = "alerts" /\ c.op = "delete")

ListTyped == Flags /\ view \in ViewRec /\ view.version >= 1 /\ view.seen <= view.version
CallsOK == \A i \in DOMAIN calls : CallOK(calls[i], view.version, view.server)
LatestComes ==
    ~error => \/ view.seen = view.version
              \/ \E i \in DOMAIN calls : Brings(calls[i], view.version, panel)
LatestShown == ~overtaken /\ view.seen = view.version => data = view.server

ListOK == ListTyped /\ CallsOK /\ LatestComes /\ LatestShown
ListInv == ManagedPanels => ListOK

LEMMA NewCall ==
    ASSUME ListOK, NEW op \in {"list", "add", "delete", "clean"}, NEW item \in Item \cup {None},
           NEW for \in {"mount", "refresh", "busy", "row"}
    PROVE  /\ CallOK(Sent(op, item, for), view.version, view.server)
           /\ Sent(op, item, for).state = "sent" /\ Sent(op, item, for).op = op
<1>1. view.version \in Nat
  BY DEF ListOK, ListTyped, ViewRec
<1> QED BY <1>1 DEF CallOK, Sent, CallRec

\* Nothing but the calls and the flags changes when one is made.
LEMMA ListSends ==
    ASSUME ListOK, NEW c, CallOK(c, view.version, view.server), c.state = "sent", Send(c),
           view' \in ViewRec,
           view'.server = view.server, view'.version = view.version, view'.seen = view.seen,
           loading' \in BOOLEAN, UNCHANGED <<panel, data, overtaken, overlapped>>,
           error' = error \/ (error' = FALSE /\ c.op = "list")
    PROVE  ListOK'
<1>1. /\ Len(calls) < MaxCalls /\ calls' = Append(calls, c)
      /\ Sequence(calls) /\ Len(calls) \in Nat /\ DOMAIN calls = 1 .. Len(calls)
  BY SequenceFacts DEF Send, ListOK, ListTyped, Flags
<1>2. /\ Sequence(calls') /\ Len(calls') = Len(calls) + 1 /\ calls'[Len(calls) + 1] = c
      /\ \A i \in 1 .. Len(calls) : calls'[i] = calls[i]
  BY <1>1, AppendFacts
<1>3. DOMAIN calls' = 1 .. Len(calls) + 1
  BY <1>2, SequenceFacts
<1>4. ListTyped'
  <2>1. Len(calls') <= MaxCalls
    BY <1>1, <1>2, PanelAssumption
  <2>2. error' \in BOOLEAN
    BY DEF ListOK, ListTyped, Flags
  <2>3. Flags'
    BY <1>2, <2>1, <2>2 DEF ListOK, ListTyped, Flags
  <2>4. view'.version >= 1 /\ view'.seen <= view'.version
    BY DEF ListOK, ListTyped
  <2> QED BY <2>3, <2>4 DEF ListTyped
<1>5. CallsOK'
  <2> SUFFICES ASSUME NEW i \in DOMAIN calls' PROVE CallOK(calls'[i], view.version, view.server)
    BY DEF CallsOK
  <2>1. CASE i = Len(calls) + 1
    BY <1>2, <2>1
  <2>2. CASE i # Len(calls) + 1
    <3>1. i \in DOMAIN calls /\ calls'[i] = calls[i]
      BY <1>1, <1>2, <1>3, <2>2
    <3> QED BY <3>1 DEF ListOK, CallsOK
  <2> QED BY <2>1, <2>2
<1>6. LatestComes'
  <2> SUFFICES ASSUME ~error', view.seen # view.version
               PROVE  \E i \in DOMAIN calls' : Brings(calls'[i], view.version, panel)
    BY DEF LatestComes
  <2>1. CASE error' = FALSE /\ c.op = "list"
    <3>1. Len(calls) + 1 \in DOMAIN calls'
      BY <1>1, <1>3
    <3>2. Brings(calls'[Len(calls) + 1], view.version, panel)
      BY <1>2, <2>1 DEF Brings
    <3> QED BY <3>1, <3>2
  <2>2. CASE error' = error
    <3>1. PICK i \in DOMAIN calls : Brings(calls[i], view.version, panel)
      BY <2>2 DEF ListOK, LatestComes
    <3>2. i \in DOMAIN calls' /\ calls'[i] = calls[i]
      BY <1>1, <1>2, <1>3
    <3> QED BY <3>1, <3>2
  <2> QED BY <2>1, <2>2
<1>7. LatestShown'
  BY DEF ListOK, LatestShown
<1> QED BY <1>4, <1>5, <1>6, <1>7 DEF ListOK

\* Call i is taken, and the list may be asked for again.
LEMMA ListTakes ==
    ASSUME ListOK, NEW i \in DOMAIN calls,
           \/ calls' = Remaining(i)
           \/ \E for \in {"mount", "refresh", "busy", "row"} :
                 calls' = Append(Remaining(i), ListFor(for))
    PROVE  /\ Sequence(calls') /\ Len(calls') <= MaxCalls
           /\ \A k \in DOMAIN calls' : CallOK(calls'[k], view.version, view.server)
           /\ \A j \in DOMAIN calls : j # i => \E k \in DOMAIN calls' : calls'[k] = calls[j]
           /\ calls' # Remaining(i) =>
                 \E k \in DOMAIN calls' : calls'[k].state = "sent" /\ calls'[k].op = "list"
<1> DEFINE rest == Remaining(i)
<1>1. /\ Sequence(rest) /\ Len(rest) = Len(calls) - 1 /\ Len(calls) \in Nat \ {0}
      /\ Len(calls) <= MaxCalls /\ MaxCalls \in Nat
  BY RemainingFacts, PanelAssumption DEF ListOK, ListTyped, Flags
<1>2. /\ \A k \in DOMAIN rest : \E j \in DOMAIN calls : j # i /\ rest[k] = calls[j]
      /\ \A j \in DOMAIN calls : j # i => \E k \in DOMAIN rest : rest[k] = calls[j]
  BY RemainingSame DEF ListOK, ListTyped, Flags
<1>3. \A k \in DOMAIN rest : CallOK(rest[k], view.version, view.server)
  BY <1>2 DEF ListOK, CallsOK
<1> HIDE DEF rest
<1>4. CASE calls' = rest
  BY <1>1, <1>2, <1>3, <1>4 DEF rest
<1>5. CASE \E for \in {"mount", "refresh", "busy", "row"} : calls' = Append(rest, ListFor(for))
  <2>1. PICK for \in {"mount", "refresh", "busy", "row"} : calls' = Append(rest, ListFor(for))
    BY <1>5
  <2>2. PICK c : c = ListFor(for)
    OBVIOUS
  <2>3. /\ CallOK(c, view.version, view.server) /\ c.state = "sent" /\ c.op = "list"
    <3>1. None \in Item \cup {None} /\ c = Sent("list", None, for)
      BY <2>2 DEF ListFor
    <3> QED BY <3>1, NewCall
  <2>4. /\ Sequence(calls') /\ Len(calls') = Len(rest) + 1 /\ calls'[Len(rest) + 1] = c
        /\ \A k \in 1 .. Len(rest) : calls'[k] = rest[k]
    BY <1>1, <2>1, <2>2, AppendFacts
  <2>5. DOMAIN calls' = 1 .. Len(rest) + 1 /\ DOMAIN rest = 1 .. Len(rest) /\ Len(rest) \in Nat
    BY <1>1, <2>4, SequenceFacts
  <2>6. \A k \in DOMAIN calls' : CallOK(calls'[k], view.version, view.server)
    <3> TAKE k \in DOMAIN calls'
    <3>1. CASE k = Len(rest) + 1
      BY <2>3, <2>4, <3>1
    <3>2. CASE k # Len(rest) + 1
      <4>1. k \in DOMAIN rest /\ calls'[k] = rest[k]
        BY <2>4, <2>5, <3>2
      <4> QED BY <1>3, <4>1
    <3> QED BY <3>1, <3>2
  <2>7. ASSUME NEW j \in DOMAIN calls, j # i PROVE \E k \in DOMAIN calls' : calls'[k] = calls[j]
    <3>1. PICK k \in DOMAIN rest : rest[k] = calls[j]
      BY <1>2, <2>7
    <3>2. k \in DOMAIN calls' /\ calls'[k] = rest[k]
      BY <2>4, <2>5
    <3> QED BY <3>1, <3>2
  <2>8. \E k \in DOMAIN calls' : calls'[k].state = "sent" /\ calls'[k].op = "list"
    <3>1. Len(rest) + 1 \in DOMAIN calls'
      BY <2>5
    <3> QED BY <2>3, <2>4, <3>1
  <2>9. Len(calls') <= MaxCalls
    BY <1>1, <2>4
  <2> QED BY <2>4, <2>6, <2>7, <2>8, <2>9
<1> QED BY <1>4, <1>5 DEF rest

\* The answer of a list, or of a delete that brings one.
LEMMA ListShown ==
    ASSUME ListOK, NEW i \in DOMAIN calls, calls[i].state = "answered",
           calls[i].op = "list" \/ (panel = "alerts" /\ calls[i].op = "delete"),
           calls' = Remaining(i), Show(calls[i]), loading' \in BOOLEAN, error' \in BOOLEAN,
           UNCHANGED <<panel, overlapped>>,
           ~error' => (~error \/ calls[i].version = view.version)
    PROVE  ListOK'
<1> DEFINE c == calls[i]
<1>1. /\ Sequence(calls') /\ Len(calls') <= MaxCalls
      /\ \A k \in DOMAIN calls' : CallOK(calls'[k], view.version, view.server)
      /\ \A j \in DOMAIN calls : j # i => \E k \in DOMAIN calls' : calls'[k] = calls[j]
  BY ListTakes
<1>2. /\ c \in CallRec /\ c.version <= view.version /\ c.version \in Nat
      /\ c.version = view.version => c.rows = view.server
  BY DEF ListOK, CallsOK, CallOK, CallRec
<1>3. data' = c.rows /\ overtaken' = (c.version < view.seen)
  BY DEF Show
<1>4. /\ view' \in ViewRec /\ view'.server = view.server /\ view'.version = view.version
      /\ view'.seen = IF c.version > view.seen THEN c.version ELSE view.seen
  <2>1. view' = [view EXCEPT !.seen = IF c.version > @ THEN c.version ELSE @,
                             !.busy = @ /\ c.for # "busy",
                             !.deleting = IF c.op = "delete" THEN None ELSE @]
    BY DEF Show
  <2>2. (view.busy /\ c.for # "busy") \in BOOLEAN
    OBVIOUS
  <2>3. view \in ViewRec
    BY DEF ListOK, ListTyped
  <2> HIDE DEF c
  <2> QED BY <1>2, <2>1, <2>2, <2>3 DEF ViewRec
<1>5. view.seen \in Nat /\ view.version \in Nat /\ view.seen <= view.version /\ view.version >= 1
  BY DEF ListOK, ListTyped, ViewRec
<1> HIDE DEF c
<1>6. ListTyped'
  <2>1. overtaken' \in BOOLEAN
    BY <1>3
  <2>2. Flags'
    BY <1>1, <2>1 DEF ListOK, ListTyped, Flags
  <2>3. view'.version >= 1 /\ view'.seen <= view'.version
    BY <1>2, <1>4, <1>5
  <2> QED BY <1>4, <2>2, <2>3 DEF ListTyped
<1>7. CallsOK'
  BY <1>1, <1>4 DEF CallsOK
<1>8. LatestComes'
  <2> SUFFICES ASSUME ~error', view'.seen # view'.version
               PROVE  \E k \in DOMAIN calls' : Brings(calls'[k], view.version, panel)
    BY <1>4 DEF LatestComes
  <2>1. c.version # view.version /\ view.seen # view.version
    BY <1>2, <1>4, <1>5
  <2>2. ~error
    BY <2>1 DEF c
  <2>3. PICK j \in DOMAIN calls : Brings(calls[j], view.version, panel)
    BY <2>1, <2>2 DEF ListOK, LatestComes
  <2>4. j # i
    BY <2>1, <2>3 DEF Brings, c
  <2> QED BY <1>1, <2>3, <2>4
<1>9. LatestShown'
  <2> SUFFICES ASSUME ~overtaken', view'.seen = view'.version PROVE data' = view'.server
    BY DEF LatestShown
  <2>1. ~(c.version < view.seen)
    BY <1>3
  <2>2. c.version = view.version
    BY <1>2, <1>4, <1>5, <2>1
  <2> QED BY <1>2, <1>3, <1>4, <2>2
<1> QED BY <1>6, <1>7, <1>8, <1>9 DEF ListOK

\* A failure.
LEMMA ListTold ==
    ASSUME ListOK, NEW i \in DOMAIN calls, calls' = Remaining(i), Tell(calls[i]),
           loading' \in BOOLEAN, UNCHANGED <<panel, overlapped>>
    PROVE  ListOK'
<1> DEFINE c == calls[i]
<1>1. /\ Sequence(calls') /\ Len(calls') <= MaxCalls
      /\ \A k \in DOMAIN calls' : CallOK(calls'[k], view.version, view.server)
  BY ListTakes
<1>2. error' = TRUE /\ data' = data /\ overtaken' = overtaken
  BY DEF Tell
<1>3. /\ view' \in ViewRec /\ view'.server = view.server /\ view'.version = view.version
      /\ view'.seen = view.seen
  <2>1. view' = [view EXCEPT !.busy = @ /\ c.for # "busy",
                             !.deleting = IF c.op = "delete" THEN None ELSE @]
    BY DEF Tell
  <2>2. (view.busy /\ c.for # "busy") \in BOOLEAN
    OBVIOUS
  <2>3. view \in ViewRec
    BY DEF ListOK, ListTyped
  <2> HIDE DEF c
  <2> QED BY <2>1, <2>2, <2>3 DEF ViewRec
<1>4. ListTyped'
  <2>1. error' \in BOOLEAN
    BY <1>2
  <2>2. Flags'
    BY <1>1, <1>2, <2>1 DEF ListOK, ListTyped, Flags
  <2> QED BY <1>3, <2>2 DEF ListOK, ListTyped
<1>5. CallsOK'
  BY <1>1, <1>3 DEF CallsOK
<1>6. LatestComes' /\ LatestShown'
  BY <1>2, <1>3 DEF ListOK, LatestComes, LatestShown
<1> QED BY <1>4, <1>5, <1>6 DEF ListOK

\* A write that is done, after which the list is loaded.
LEMMA ListReloads ==
    ASSUME ListOK, NEW i \in DOMAIN calls, Reload(i), loading' \in BOOLEAN, error' \in BOOLEAN,
           UNCHANGED <<panel, overlapped, data, overtaken, view>>
    PROVE  ListOK'
<1>1. calls' = Append(Remaining(i), ListFor(calls[i].for))
  BY DEF Reload
<1>2. calls[i].for \in {"mount", "refresh", "busy", "row"}
  BY DEF ListOK, CallsOK, CallOK, CallRec
<1>3. /\ Sequence(calls') /\ Len(calls') <= MaxCalls
      /\ \A k \in DOMAIN calls' : CallOK(calls'[k], view.version, view.server)
      /\ calls' # Remaining(i) =>
            \E k \in DOMAIN calls' : calls'[k].state = "sent" /\ calls'[k].op = "list"
  BY <1>1, <1>2, ListTakes
<1>4. calls' # Remaining(i)
  <2>1. Sequence(Remaining(i)) /\ Len(Remaining(i)) \in Nat
    BY RemainingFacts, SequenceFacts DEF ListOK, ListTyped, Flags
  <2>2. Len(calls') = Len(Remaining(i)) + 1
    BY <1>1, <2>1, AppendFacts
  <2> QED BY <2>1, <2>2
<1>5. Flags'
  BY <1>3 DEF ListOK, ListTyped, Flags
<1>6. LatestComes'
  BY <1>3, <1>4 DEF LatestComes, Brings
<1> QED BY <1>3, <1>5, <1>6 DEF ListOK, ListTyped, CallsOK, LatestShown

LEMMA ChangeType ==
    ASSUME ListOK, NEW i \in DOMAIN calls
    PROVE  Change(calls[i]) \in Lists
<1> DEFINE c == calls[i]
<1>1. c \in CallRec /\ view.server \in Lists
  BY DEF ListOK, ListTyped, CallsOK, CallOK, ViewRec
<1> HIDE DEF c
<1>2. CASE c.op = "list"
  <2>1. Change(c) = view.server
    BY <1>2 DEF Change
  <2> QED BY <1>1, <2>1 DEF c
<1>3. CASE c.op = "add"
  <2>1. Change(c) = [view.server EXCEPT ![c.item] = "full"]
    BY <1>3 DEF Change
  <2>2. [view.server EXCEPT ![c.item] = "full"] \in Lists
    BY <1>1 DEF Lists, Kept
  <2> QED BY <2>1, <2>2 DEF c
<1>4. CASE c.op = "delete"
  <2>1. Change(c) = [view.server EXCEPT ![c.item] = "absent"]
    BY <1>4 DEF Change
  <2>2. [view.server EXCEPT ![c.item] = "absent"] \in Lists
    BY <1>1 DEF Lists, Kept
  <2> QED BY <2>1, <2>2 DEF c
<1>5. CASE c.op = "clean"
  <2> DEFINE cleaned == [item \in Item |-> IF view.server[item] = "full" THEN "cleaned"
                                                                      ELSE view.server[item]]
  <2>1. Change(c) = cleaned
    BY <1>5 DEF Change
  <2>2. cleaned \in Lists
    BY <1>1 DEF Lists, Kept
  <2> QED BY <2>1, <2>2 DEF c
<1> QED BY <1>1, <1>2, <1>3, <1>4, <1>5 DEF CallRec

LEMMA ListRuns ==
    ASSUME ListOK, NEW i \in DOMAIN calls, ServerRuns(i)
    PROVE  ListOK'
<1>1. PICK list \in Lists : list = Change(calls[i])
  BY ChangeType
<1>2. PICK version : version = view.version + IF list = view.server THEN 0 ELSE 1
  OBVIOUS
<1>3. /\ view' = [view EXCEPT !.server = list, !.version = version]
      /\ calls' = [calls EXCEPT ![i].state = "answered", ![i].rows = list, ![i].version = version]
      /\ UNCHANGED <<panel, query, data, loading, error, overtaken, overlapped>>
      /\ calls[i].state = "sent"
  BY <1>1, <1>2 DEF ServerRuns
<1>4. view \in ViewRec /\ view.version \in Nat /\ view.seen \in Nat
      /\ view.version >= 1 /\ view.seen <= view.version
  BY DEF ListOK, ListTyped, ViewRec
<1>5. /\ version \in Nat /\ version >= view.version
      /\ version = view.version => list = view.server
  BY <1>2, <1>4
<1>6. /\ view' \in ViewRec /\ view'.server = list /\ view'.version = version
      /\ view'.seen = view.seen
  BY <1>1, <1>3, <1>4, <1>5 DEF ViewRec
<1>7. /\ Sequence(calls') /\ Len(calls') = Len(calls) /\ DOMAIN calls' = DOMAIN calls
  <2>1. Sequence(calls) /\ Len(calls) \in Nat /\ DOMAIN calls = 1 .. Len(calls)
    BY SequenceFacts DEF ListOK, ListTyped, Flags
  <2>2. calls' = [k \in 1 .. Len(calls) |-> calls'[k]]
    BY <1>3, <2>1
  <2>3. Sequence(calls') /\ Len(calls') = Len(calls)
    BY <2>1, <2>2, SequenceOf
  <2> QED BY <1>3, <2>1, <2>3
<1>8. \A k \in DOMAIN calls : k # i => calls'[k] = calls[k]
  BY <1>3
<1>9. calls'[i] = [calls[i] EXCEPT !.state = "answered", !.rows = list, !.version = version]
  BY <1>3
<1>10. \A k \in DOMAIN calls : CallOK(calls[k], view.version, view.server)
  BY DEF ListOK, CallsOK
<1>11. /\ calls'[i] \in CallRec /\ calls'[i].state = "answered" /\ calls'[i].op = calls[i].op
       /\ calls'[i].rows = list /\ calls'[i].version = version
  <2>1. calls[i] \in CallRec
    BY <1>10 DEF CallOK
  <2> QED BY <1>1, <1>5, <1>9, <2>1 DEF CallRec
<1>12. ListTyped'
  <2>1. Flags'
    BY <1>3, <1>7 DEF ListOK, ListTyped, Flags
  <2>2. view'.version >= 1 /\ view'.seen <= view'.version
    BY <1>4, <1>5, <1>6
  <2> QED BY <1>6, <2>1, <2>2 DEF ListTyped
<1>13. CallsOK'
  <2> SUFFICES ASSUME NEW k \in DOMAIN calls PROVE CallOK(calls'[k], version, list)
    BY <1>6, <1>7 DEF CallsOK
  <2>1. CASE k = i
    BY <1>5, <1>11, <2>1 DEF CallOK
  <2>2. CASE k # i
    <3>1. /\ calls'[k] = calls[k] /\ calls[k] \in CallRec /\ calls[k].version <= view.version
          /\ calls[k].version \in Nat
          /\ calls[k].state = "answered" /\ calls[k].version = view.version => calls[k].rows = view.server
      BY <1>8, <1>10, <2>2 DEF CallOK, CallRec
    <3>2. calls[k].version <= version
      BY <1>4, <1>5, <3>1
    <3>3. ASSUME calls[k].state = "answered", calls[k].version = version PROVE calls[k].rows = list
      <4>1. version = view.version
        BY <1>4, <1>5, <3>1, <3>3
      <4> QED BY <1>5, <3>1, <3>3, <4>1
    <3> QED BY <3>1, <3>2, <3>3 DEF CallOK
  <2> QED BY <2>1, <2>2
<1>14. LatestComes'
  <2>1. Brings(calls'[i], version, panel)
    BY <1>11 DEF Brings
  <2> QED BY <1>3, <1>6, <1>7, <2>1 DEF LatestComes
<1>15. LatestShown'
  <2> SUFFICES ASSUME ~overtaken, view.seen = version PROVE data = list
    BY <1>3, <1>6 DEF LatestShown
  <2>1. version = view.version
    BY <1>4, <1>5
  <2> QED BY <1>5, <2>1 DEF ListOK, LatestShown
<1> QED BY <1>12, <1>13, <1>14, <1>15 DEF ListOK

LEMMA ListFails ==
    ASSUME ListOK, NEW i \in DOMAIN calls, CallFails(i)
    PROVE  ListOK'
<1>1. /\ calls' = [calls EXCEPT ![i].state = "failed"]
      /\ UNCHANGED <<panel, query, data, loading, error, overtaken, overlapped, view>>
  BY DEF CallFails
<1>2. Sequence(calls') /\ Len(calls') = Len(calls) /\ DOMAIN calls' = DOMAIN calls
  <2>1. Sequence(calls) /\ Len(calls) \in Nat /\ DOMAIN calls = 1 .. Len(calls)
    BY SequenceFacts DEF ListOK, ListTyped, Flags
  <2>2. calls' = [k \in 1 .. Len(calls) |-> calls'[k]]
    BY <1>1, <2>1
  <2>3. Sequence(calls') /\ Len(calls') = Len(calls)
    BY <2>1, <2>2, SequenceOf
  <2> QED BY <1>1, <2>1, <2>3
<1>3. \A k \in DOMAIN calls : k # i => calls'[k] = calls[k]
  BY <1>1
<1>4. \A k \in DOMAIN calls : CallOK(calls[k], view.version, view.server)
  BY DEF ListOK, CallsOK
<1>5. CallOK(calls'[i], view.version, view.server) /\ calls'[i].state = "failed"
  <2>1. calls'[i] = [calls[i] EXCEPT !.state = "failed"]
    BY <1>1
  <2>2. calls[i] \in CallRec /\ calls[i].version <= view.version
    BY <1>4 DEF CallOK
  <2>3. calls'[i] \in CallRec /\ calls'[i].state = "failed" /\ calls'[i].version = calls[i].version
    BY <2>1, <2>2 DEF CallRec
  <2> QED BY <2>2, <2>3 DEF CallOK
<1>6. ListTyped'
  BY <1>1, <1>2 DEF ListOK, ListTyped, Flags
<1>7. CallsOK'
  BY <1>1, <1>2, <1>3, <1>4, <1>5 DEF CallsOK
<1>8. LatestComes'
  <2>1. Brings(calls'[i], view.version, panel)
    BY <1>5 DEF Brings
  <2> QED BY <1>1, <1>2, <2>1 DEF LatestComes
<1>9. LatestShown'
  BY <1>1 DEF ListOK, LatestShown
<1> QED BY <1>6, <1>7, <1>8, <1>9 DEF ListOK

\* The panels' answers: what is shown, what is asked for again, what has failed.
LEMMA ListAnswers ==
    ASSUME ListOK, ManagedAnswer
    PROVE  ListOK' /\ panel' = panel
<1>1. loading \in BOOLEAN /\ error \in BOOLEAN
  BY DEF ListOK, ListTyped, Flags
<1>2. CASE AlertsArrive
  <2>1. PICK i \in DOMAIN calls :
            \/ /\ IsAnswer(i, "list") \/ IsAnswer(i, "delete")
               /\ calls' = Remaining(i) /\ Show(calls[i])
               /\ error' = (error /\ calls[i].version # view.version)
               /\ loading' = (loading /\ calls[i].for # "mount")
            \/ /\ IsAnswer(i, "add")
               /\ Reload(i)
               /\ UNCHANGED <<data, loading, error, overtaken, view>>
            \/ /\ calls[i].state = "failed"
               /\ calls' = Remaining(i) /\ Tell(calls[i])
               /\ loading' = (loading /\ calls[i].for # "mount")
    BY <1>2 DEF AlertsArrive
  <2>2. panel = "alerts" /\ UNCHANGED <<panel, overlapped>>
    BY <1>2 DEF AlertsArrive
  <2>3. ASSUME IsAnswer(i, "list") \/ IsAnswer(i, "delete"), calls' = Remaining(i), Show(calls[i]),
               error' = (error /\ calls[i].version # view.version),
               loading' = (loading /\ calls[i].for # "mount")
        PROVE  ListOK'
    <3>1. calls[i].state = "answered" /\ (calls[i].op = "list" \/ calls[i].op = "delete")
      BY <2>3 DEF IsAnswer
    <3>2. loading' \in BOOLEAN
      BY <2>3
    <3>3. error' \in BOOLEAN
      BY <2>3
    <3>4. ~error' => (~error \/ calls[i].version = view.version)
      BY <2>3
    <3> QED BY <2>2, <2>3, <3>1, <3>2, <3>3, <3>4, ListShown
  <2>4. ASSUME Reload(i), UNCHANGED <<data, loading, error, overtaken, view>>
        PROVE  ListOK'
    BY <1>1, <2>2, <2>4, ListReloads
  <2>5. ASSUME calls' = Remaining(i), Tell(calls[i]), loading' = (loading /\ calls[i].for # "mount")
        PROVE  ListOK'
    <3>1. loading' \in BOOLEAN
      BY <2>5
    <3> QED BY <2>2, <2>5, <3>1, ListTold
  <2> QED BY <2>1, <2>2, <2>3, <2>4, <2>5
<1>3. CASE HoldingsArrive \/ StorageArrives
  <2>1. PICK i \in DOMAIN calls : ListArrives(i) \/ WriteArrives(i)
    BY <1>3 DEF HoldingsArrive, StorageArrives
  <2>2. UNCHANGED <<panel, overlapped>>
    BY <1>3 DEF HoldingsArrive, StorageArrives
  <2>3. ASSUME IsAnswer(i, "list"), calls' = Remaining(i), Show(calls[i]), loading' = FALSE,
               error' = error
        PROVE  ListOK'
    <3>1. calls[i].state = "answered" /\ calls[i].op = "list"
      BY <2>3 DEF IsAnswer
    <3>2. loading' \in BOOLEAN
      BY <2>3
    <3> QED BY <1>1, <2>2, <2>3, <3>1, <3>2, ListShown
  <2>4. ASSUME calls' = Remaining(i), Tell(calls[i]), loading' = FALSE \/ loading' = loading
        PROVE  ListOK'
    <3>1. loading' \in BOOLEAN
      BY <1>1, <2>4
    <3> QED BY <2>2, <2>4, <3>1, ListTold
  <2>5. ASSUME Reload(i), loading' = TRUE, error' = FALSE, UNCHANGED <<data, overtaken, view>>
        PROVE  ListOK'
    <3>1. loading' \in BOOLEAN
      BY <2>5
    <3>2. error' \in BOOLEAN
      BY <2>5
    <3> QED BY <2>2, <2>5, <3>1, <3>2, ListReloads
  <2> QED BY <2>1, <2>2, <2>3, <2>4, <2>5 DEF ListArrives, WriteArrives
<1> QED BY <1>2, <1>3 DEF ManagedAnswer, AlertsArrive, HoldingsArrive, StorageArrives

LEMMA ListStart ==
    ASSUME NEW c, c = ListFor("mount"), calls' = <<c>>, view' \in ViewRec,
           view'.version >= 1, view'.seen = 0,
           loading' = TRUE, error' = FALSE, overtaken' = FALSE, overlapped' \in BOOLEAN
    PROVE  ListOK'
<1>1. Sequence(calls') /\ Len(calls') = 1 /\ calls'[1] = c /\ DOMAIN calls' = {1}
  <2>1. Sequence(calls') /\ Len(calls') = 1 /\ calls'[1] = c
    BY ShortSequences
  <2>2. DOMAIN calls' = 1 .. 1
    BY <2>1, SequenceFacts
  <2> QED BY <2>1, <2>2
<1>2. c \in CallRec /\ c.version = 0 /\ c.state = "sent" /\ c.op = "list"
  BY DEF ListFor, Sent, CallRec
<1>3. view'.version \in Nat /\ view'.version # 0
  BY DEF ViewRec
<1>4. Flags'
  <2>1. loading' \in BOOLEAN /\ error' \in BOOLEAN /\ overtaken' \in BOOLEAN
    OBVIOUS
  <2>2. Len(calls') <= MaxCalls
    BY <1>1, PanelAssumption
  <2> QED BY <1>1, <2>1, <2>2 DEF Flags
<1>5. ListTyped'
  BY <1>3, <1>4 DEF ListTyped
<1>6. CallsOK'
  BY <1>1, <1>2, <1>3 DEF CallsOK, CallOK
<1>7. LatestComes'
  BY <1>1, <1>2 DEF LatestComes, Brings
<1>8. LatestShown'
  BY <1>3 DEF LatestShown
<1> QED BY <1>5, <1>6, <1>7, <1>8 DEF ListOK

LEMMA ListStep ==
    ASSUME ListOK, ManagedNext
    PROVE  ListOK' /\ panel' = panel
<1>1. view \in ViewRec /\ loading \in BOOLEAN /\ overlapped \in BOOLEAN
  BY DEF ListOK, ListTyped, Flags
<1>2. CASE ServerStep
  <2>1. PICK i \in DOMAIN calls : ServerRuns(i) \/ CallFails(i)
    BY <1>2 DEF ServerStep
  <2>2. panel' = panel
    BY <2>1 DEF ServerRuns, CallFails
  <2> QED BY <2>1, <2>2, ListRuns, ListFails
<1>3. CASE ManagedAnswer
  BY <1>3, ListAnswers
<1>4. CASE RefreshStorage
  <2>1. /\ Send(ListFor("refresh")) /\ loading' = TRUE /\ error' = FALSE
        /\ UNCHANGED <<panel, data, overtaken, overlapped, view>>
    BY <1>4 DEF RefreshStorage
  <2>2. PICK c : c = ListFor("refresh")
    OBVIOUS
  <2>3. CallOK(c, view.version, view.server) /\ c.state = "sent" /\ c.op = "list"
    <3>1. None \in Item \cup {None} /\ c = Sent("list", None, "refresh")
      BY <2>2 DEF ListFor
    <3> QED BY <3>1, NewCall
  <2>4. loading' \in BOOLEAN
    BY <2>1
  <2> QED BY <1>1, <2>1, <2>2, <2>3, <2>4, ListSends
<1>5. CASE CleanStorage
  <2>1. /\ Send(Sent("clean", None, "busy")) /\ view' = [view EXCEPT !.busy = TRUE]
        /\ UNCHANGED <<panel, data, loading, error, overtaken, overlapped>>
    BY <1>5 DEF CleanStorage
  <2>2. PICK c : c = Sent("clean", None, "busy")
    OBVIOUS
  <2>3. CallOK(c, view.version, view.server) /\ c.state = "sent"
    <3>1. None \in Item \cup {None}
      OBVIOUS
    <3> QED BY <2>2, <3>1, NewCall
  <2>4. /\ view' \in ViewRec /\ view'.server = view.server /\ view'.version = view.version
        /\ view'.seen = view.seen
    BY <1>1, <2>1 DEF ViewRec
  <2> QED BY <1>1, <2>1, <2>2, <2>3, <2>4, ListSends
<1>6. CASE Reopen
  <2>1. /\ loading' = TRUE /\ error' = FALSE /\ overtaken' = FALSE
        /\ calls' = <<ListFor("mount")>> /\ view' = [view EXCEPT !.seen = 0]
        /\ UNCHANGED <<panel, overlapped>>
    BY <1>6 DEF Reopen
  <2>2. /\ view' \in ViewRec /\ view'.version = view.version /\ view'.seen = 0
    BY <1>1, <2>1 DEF ViewRec
  <2>3. view'.version >= 1
    BY <2>2 DEF ListOK, ListTyped
  <2> QED BY <1>1, <2>1, <2>2, <2>3, ListStart
<1>7. ASSUME NEW item \in Item, CreateAlert(item) \/ AddHolding(item)
      PROVE  ListOK' /\ panel' = panel
  <2>1. /\ Send(Sent("add", item, "busy")) /\ view' = [view EXCEPT !.busy = TRUE]
        /\ UNCHANGED <<panel, data, loading, error, overtaken, overlapped>>
    BY <1>7 DEF CreateAlert, AddHolding
  <2>2. PICK c : c = Sent("add", item, "busy")
    OBVIOUS
  <2>3. CallOK(c, view.version, view.server) /\ c.state = "sent"
    <3>1. item \in Item \cup {None}
      OBVIOUS
    <3> QED BY <2>2, <3>1, NewCall
  <2>4. /\ view' \in ViewRec /\ view'.server = view.server /\ view'.version = view.version
        /\ view'.seen = view.seen
    BY <1>1, <2>1 DEF ViewRec
  <2> QED BY <1>1, <2>1, <2>2, <2>3, <2>4, ListSends
<1>8. ASSUME NEW item \in Item, DeleteAlert(item) \/ DeleteHolding(item) \/ DeleteStored(item)
      PROVE  ListOK' /\ panel' = panel
  <2>1. /\ Send(Sent("delete", item, "row"))
        /\ view' = [view EXCEPT !.deleting = item] \/ view' = view
        /\ UNCHANGED <<panel, data, loading, error, overtaken, overlapped>>
    BY <1>8 DEF DeleteAlert, DeleteHolding, DeleteStored
  <2>2. PICK c : c = Sent("delete", item, "row")
    OBVIOUS
  <2>3. CallOK(c, view.version, view.server) /\ c.state = "sent"
    <3>1. item \in Item \cup {None}
      OBVIOUS
    <3> QED BY <2>2, <3>1, NewCall
  <2>4. /\ view' \in ViewRec /\ view'.server = view.server /\ view'.version = view.version
        /\ view'.seen = view.seen
    BY <1>1, <2>1 DEF ViewRec
  <2> QED BY <1>1, <2>1, <2>2, <2>3, <2>4, ListSends
<1> QED BY <1>2, <1>3, <1>4, <1>5, <1>6, <1>7, <1>8 DEF ManagedNext

LEMMA ListInvStep ==
    ASSUME ListInv, ManagedNext
    PROVE  ListInv' /\ panel' = panel /\ ManagedPanels
<1>1. ManagedPanels
  BY DEF ManagedPanels, ManagedNext, ServerStep, ManagedAnswer, AlertsArrive, HoldingsArrive,
         StorageArrives, RefreshStorage, CleanStorage, Reopen, CreateAlert, DeleteAlert,
         AddHolding, DeleteHolding, DeleteStored
<1> QED BY <1>1, ListStep DEF ListInv, ManagedPanels

LEMMA ListsAreServers ==
    ASSUME ListInv
    PROVE  ListMatchesServer
<1> SUFFICES ASSUME ManagedPanels, calls = <<>>, ~error
             PROVE  view.seen = view.version /\ (~overtaken => data = view.server)
  BY DEF ListMatchesServer
<1>1. ListOK
  BY DEF ListInv
<1>2. view.seen = view.version
  BY <1>1 DEF ListOK, LatestComes
<1> QED BY <1>1, <1>2 DEF ListOK, LatestShown

LEMMA ListInvInit ==
    ASSUME ManagedInit
    PROVE  ListInv
<1>1. PICK c : c = ListFor("mount")
  OBVIOUS
<1>2. /\ data = None /\ loading = TRUE /\ error = FALSE /\ calls = <<c>>
      /\ overtaken = FALSE /\ overlapped = FALSE
      /\ view = [server |-> AllFull, version |-> 1, seen |-> 0, busy |-> FALSE, deleting |-> None]
  BY <1>1 DEF ManagedInit, Start
<1>3. Sequence(calls) /\ Len(calls) = 1 /\ calls[1] = c /\ DOMAIN calls = {1}
  <2>1. Sequence(calls) /\ Len(calls) = 1 /\ calls[1] = c
    BY <1>2, ShortSequences
  <2>2. DOMAIN calls = 1 .. 1
    BY <2>1, SequenceFacts
  <2> QED BY <2>1, <2>2
<1>4. c \in CallRec /\ c.version = 0 /\ c.state = "sent" /\ c.op = "list"
  BY <1>1 DEF ListFor, Sent, CallRec
<1>5. view \in ViewRec /\ view.version = 1 /\ view.seen = 0
  <2>1. AllFull \in Lists
    BY DEF AllFull, Lists, Kept
  <2> QED BY <1>2, <2>1 DEF ViewRec
<1>6. Flags
  <2>1. loading \in BOOLEAN /\ error \in BOOLEAN /\ overtaken \in BOOLEAN /\ overlapped \in BOOLEAN
    BY <1>2
  <2> QED BY <1>3, <2>1, PanelAssumption DEF Flags
<1>7. ListTyped
  BY <1>5, <1>6 DEF ListTyped
<1>8. CallsOK
  BY <1>3, <1>4, <1>5 DEF CallsOK, CallOK
<1>9. LatestComes
  BY <1>3, <1>4 DEF LatestComes, Brings
<1>10. LatestShown
  BY <1>5 DEF LatestShown
<1> QED BY <1>7, <1>8, <1>9, <1>10 DEF ListInv, ListOK

-----------------------------------------------------------------------------
(***************************************************************************)
(* The AI panel.  The server gives out its sessions in order; a question   *)
(* is asked in the session that is on screen, and what its session holds   *)
(* was asked on this screen, so that whichever session the panel is told   *)
(* of, it is its own.                                                      *)
(***************************************************************************)

\* What the two calls hold in each of their states.
GenRec ==
    \/ gen = NoCall
    \/ /\ gen.state = "plain"
       /\ gen = [state |-> "plain", text |-> gen.text]
    \/ /\ gen.state = "reading"
       /\ gen = [state |-> "reading", body |-> gen.body, at |-> gen.at, buffer |-> gen.buffer]
ChatRec ==
    \/ chat = NoCall
    \/ /\ chat.state = "sent"
       /\ chat = [state |-> "sent", number |-> chat.number, session |-> chat.session]
    \/ /\ chat.state = "reading"
       /\ chat = [state |-> "reading", number |-> chat.number, session |-> chat.session,
                  body |-> chat.body, at |-> chat.at, buffer |-> chat.buffer,
                  answered |-> chat.answered]

SessionsOK ==
    /\ history = [s \in 1 .. MaxSessions |-> history[s]]
    /\ \A s \in 1 .. MaxSessions : Sequence(history[s])
    /\ \E n \in 0 .. MaxSessions : \A s \in 1 .. MaxSessions : history[s] # <<>> <=> s <= n
    /\ \A s \in sessions : history[s] # <<>>
    /\ chat.state = "reading" => chat.session \in 1 .. MaxSessions /\ history[chat.session] # <<>>
    /\ chat.state = "sent" => chat.session \in 0 .. MaxSessions

\* The last question is the one that is being answered, in a session of this screen.
InSession ==
    /\ chatStreaming => chatMessages[Len(chatMessages)].number = chat.number
    /\ chat.state = "sent" => chat.session = chatSession
    /\ chat.state = "reading" => Questions(history[chat.session]) \subseteq Questions(chatMessages)

AIInv ==
    /\ AITypeOK /\ GenRec /\ ChatRec /\ Sequence(chatMessages) /\ SessionsOK
    /\ ConversationInTurn /\ (~crossed => InSession)

LEMMA QuestionsAppend ==
    ASSUME NEW m, Sequence(m), NEW x
    PROVE  /\ Questions(m) \subseteq Questions(Append(m, x))
           /\ Questions(Append(m, x)) \subseteq Questions(m) \cup {x.number}
           /\ x.role = "user" => x.number \in Questions(Append(m, x))
           /\ x.role # "user" => Questions(Append(m, x)) \subseteq Questions(m)
<1> DEFINE d == Append(m, x)
<1>1. /\ Sequence(d) /\ Len(d) = Len(m) + 1 /\ d[Len(m) + 1] = x
      /\ \A i \in 1 .. Len(m) : d[i] = m[i]
  BY AppendFacts
<1>2. Len(m) \in Nat /\ DOMAIN m = 1 .. Len(m) /\ DOMAIN d = 1 .. Len(m) + 1
  BY <1>1, SequenceFacts
<1> HIDE DEF d
<1>3. ASSUME NEW q \in Questions(m) PROVE q \in Questions(d)
  <2>1. PICK j \in DOMAIN m : m[j].role = "user" /\ q = m[j].number
    BY DEF Questions
  <2>2. j \in DOMAIN d /\ d[j] = m[j]
    BY <1>1, <1>2
  <2> QED BY <2>1, <2>2 DEF Questions
<1>4. ASSUME NEW q \in Questions(d)
      PROVE  q \in Questions(m) \/ (x.role = "user" /\ q = x.number)
  <2>1. PICK j \in DOMAIN d : d[j].role = "user" /\ q = d[j].number
    BY DEF Questions
  <2>2. CASE j = Len(m) + 1
    BY <1>1, <2>1, <2>2
  <2>3. CASE j # Len(m) + 1
    <3>1. j \in DOMAIN m /\ d[j] = m[j]
      BY <1>1, <1>2, <2>3
    <3> QED BY <2>1, <3>1 DEF Questions
  <2> QED BY <2>2, <2>3
<1>5. ASSUME x.role = "user" PROVE x.number \in Questions(d)
  <2>1. Len(m) + 1 \in DOMAIN d
    BY <1>2
  <2> QED BY <1>1, <1>5, <2>1 DEF Questions
<1> QED BY <1>3, <1>4, <1>5 DEF d

\* A session that was not given out is empty.
LEMMA FreshIsEmpty ==
    ASSUME SessionsOK, Fresh \in DOMAIN history
    PROVE  /\ history[Fresh] = <<>> /\ Fresh \in 1 .. MaxSessions
           /\ \A s \in 1 .. MaxSessions : history[s] # <<>> <=> s < Fresh
<1>1. DOMAIN history = 1 .. MaxSessions
  BY DEF SessionsOK
<1>2. PICK n \in 0 .. MaxSessions : \A s \in 1 .. MaxSessions : history[s] # <<>> <=> s <= n
  BY DEF SessionsOK
<1>3. {s \in DOMAIN history : history[s] # <<>>} = 1 .. n
  BY <1>1, <1>2, AIAssumption
<1>4. Cardinality(1 .. n) = n
  BY <1>2, FS_Interval
<1>5. Fresh = n + 1
  BY <1>3, <1>4 DEF Fresh
<1> QED BY <1>1, <1>2, <1>5, AIAssumption

\* Questions and answers in turn, the last one open or not.
Turns(m, open) ==
    /\ \A i \in DOMAIN m :
          /\ (m[i].role = "user") <=> (i % 2 = 1)
          /\ i % 2 = 0 => m[i].number = m[i - 1].number
    /\ open <=> (Len(m) % 2 = 1)

LEMMA TurnAsked ==
    ASSUME NEW m, Sequence(m), Turns(m, FALSE), NEW x, x.role = "user"
    PROVE  Turns(Append(m, x), TRUE)
<1> DEFINE d == Append(m, x)
<1>1. /\ Sequence(d) /\ Len(d) = Len(m) + 1 /\ d[Len(m) + 1] = x
      /\ \A i \in 1 .. Len(m) : d[i] = m[i]
  BY AppendFacts
<1>2. Len(m) \in Nat /\ DOMAIN m = 1 .. Len(m) /\ DOMAIN d = 1 .. Len(m) + 1
  BY <1>1, SequenceFacts
<1> HIDE DEF d
<1>3. Len(m) % 2 = 0 /\ (Len(m) + 1) % 2 = 1
  BY <1>2 DEF Turns
<1>4. ASSUME NEW i \in DOMAIN d
      PROVE  /\ (d[i].role = "user") <=> (i % 2 = 1)
             /\ i % 2 = 0 => d[i].number = d[i - 1].number
  <2>1. CASE i = Len(m) + 1
    BY <1>1, <1>3, <2>1
  <2>2. CASE i # Len(m) + 1
    <3>1. i \in DOMAIN m /\ i \in 1 .. Len(m) /\ d[i] = m[i]
      BY <1>1, <1>2, <2>2
    <3>2. /\ (m[i].role = "user") <=> (i % 2 = 1)
          /\ i % 2 = 0 => m[i].number = m[i - 1].number
      BY <3>1 DEF Turns
    <3>3. ASSUME i % 2 = 0 PROVE d[i - 1] = m[i - 1]
      <4>1. i - 1 \in 1 .. Len(m)
        BY <1>2, <3>1, <3>3
      <4> QED BY <1>1, <4>1
    <3> QED BY <3>1, <3>2, <3>3
  <2> QED BY <2>1, <2>2
<1>5. TRUE <=> (Len(d) % 2 = 1)
  BY <1>1, <1>3
<1>6. Turns(d, TRUE)
  BY <1>4, <1>5 DEF Turns
<1> QED BY <1>6 DEF d

LEMMA TurnAnswered ==
    ASSUME NEW m, Sequence(m), Turns(m, TRUE), NEW x, x.role # "user",
           x.number = m[Len(m)].number
    PROVE  Turns(Append(m, x), FALSE)
<1> DEFINE d == Append(m, x)
<1>1. /\ Sequence(d) /\ Len(d) = Len(m) + 1 /\ d[Len(m) + 1] = x
      /\ \A i \in 1 .. Len(m) : d[i] = m[i]
  BY AppendFacts
<1>2. Len(m) \in Nat /\ DOMAIN m = 1 .. Len(m) /\ DOMAIN d = 1 .. Len(m) + 1
  BY <1>1, SequenceFacts
<1> HIDE DEF d
<1>3. Len(m) % 2 = 1 /\ (Len(m) + 1) % 2 = 0 /\ Len(m) \in 1 .. Len(m)
  BY <1>2 DEF Turns
<1>4. ASSUME NEW i \in DOMAIN d
      PROVE  /\ (d[i].role = "user") <=> (i % 2 = 1)
             /\ i % 2 = 0 => d[i].number = d[i - 1].number
  <2>1. CASE i = Len(m) + 1
    <3>1. i - 1 = Len(m) /\ i % 2 = 0
      BY <1>2, <1>3, <2>1
    <3>2. d[i] = x /\ d[i - 1] = m[Len(m)]
      BY <1>1, <1>3, <2>1, <3>1
    <3> QED BY <3>1, <3>2
  <2>2. CASE i # Len(m) + 1
    <3>1. i \in DOMAIN m /\ i \in 1 .. Len(m) /\ d[i] = m[i]
      BY <1>1, <1>2, <2>2
    <3>2. /\ (m[i].role = "user") <=> (i % 2 = 1)
          /\ i % 2 = 0 => m[i].number = m[i - 1].number
      BY <3>1 DEF Turns
    <3>3. ASSUME i % 2 = 0 PROVE d[i - 1] = m[i - 1]
      <4>1. i - 1 \in 1 .. Len(m)
        BY <1>2, <3>1, <3>3
      <4> QED BY <1>1, <4>1
    <3> QED BY <3>1, <3>2, <3>3
  <2> QED BY <2>1, <2>2
<1>5. ~(Len(d) % 2 = 1)
  BY <1>1, <1>3
<1>6. Turns(d, FALSE)
  BY <1>4, <1>5 DEF Turns
<1> QED BY <1>6 DEF d

\* A message for a session that was given out, or for the next one.
LEMMA SessionTakes ==
    ASSUME SessionsOK, NEW s \in 1 .. MaxSessions, history[s] # <<>> \/ s = Fresh, NEW x,
           history' = [history EXCEPT ![s] = Append(@, x)]
    PROVE  /\ history' = [r \in 1 .. MaxSessions |-> history'[r]]
           /\ \A r \in 1 .. MaxSessions : Sequence(history'[r])
           /\ \E n \in 0 .. MaxSessions : \A r \in 1 .. MaxSessions : history'[r] # <<>> <=> r <= n
           /\ \A r \in 1 .. MaxSessions : history[r] # <<>> => history'[r] # <<>>
           /\ \A r \in 1 .. MaxSessions : r # s => history'[r] = history[r]
           /\ history'[s] = Append(history[s], x) /\ history'[s] # <<>>
<1>1. DOMAIN history = 1 .. MaxSessions /\ \A r \in 1 .. MaxSessions : Sequence(history[r])
  BY DEF SessionsOK
<1>2. /\ history' = [r \in 1 .. MaxSessions |-> history'[r]]
      /\ history'[s] = Append(history[s], x)
      /\ \A r \in 1 .. MaxSessions : r # s => history'[r] = history[r]
  BY <1>1
<1>3. Sequence(history'[s]) /\ history'[s] # <<>>
  BY <1>1, <1>2, AppendFacts
<1>4. \E n \in 0 .. MaxSessions : \A r \in 1 .. MaxSessions : history'[r] # <<>> <=> r <= n
  <2>1. CASE history[s] # <<>>
    <3>1. \A r \in 1 .. MaxSessions : history'[r] # <<>> <=> history[r] # <<>>
      BY <1>2, <1>3, <2>1
    <3> QED BY <3>1 DEF SessionsOK
  <2>2. CASE s = Fresh
    <3>1. \A r \in 1 .. MaxSessions : history[r] # <<>> <=> r < s
      BY <1>1, <2>2, FreshIsEmpty
    <3>2. \A r \in 1 .. MaxSessions : history'[r] # <<>> <=> r <= s
      <4> TAKE r \in 1 .. MaxSessions
      <4>1. CASE r = s
        BY <1>3, <4>1
      <4>2. CASE r # s
        BY <1>2, <3>1, <4>2
      <4> QED BY <4>1, <4>2
    <3>3. s \in 0 .. MaxSessions
      BY AIAssumption
    <3> QED BY <3>2, <3>3
  <2> QED BY <2>1, <2>2
<1> QED BY <1>1, <1>2, <1>3, <1>4

LEMMA AnalysisOnly ==
    ASSUME AIInv, UNCHANGED <<conversation, memory, asked, crossed>>,
           available' \in {"unknown", "up", "down"}, selected' \in BOOLEAN, streaming' \in BOOLEAN,
           generating' \in BOOLEAN, aiError' \in BOOLEAN,
           generating' <=> gen'.state # "none", GenRec'
    PROVE  AIInv'
<1>1. /\ chatMessages' = chatMessages /\ chatSession' = chatSession
      /\ chatStreaming' = chatStreaming /\ chatStreamedText' = chatStreamedText
      /\ chatStreamed' = chatStreamed /\ chat' = chat /\ history' = history
      /\ sessions' = sessions /\ asked' = asked /\ crossed' = crossed
  BY DEF conversation, bubble, memory
<1>2. AITypeOK'
  <2>1. chatStreaming \in BOOLEAN /\ crossed \in BOOLEAN
    BY DEF AIInv, AITypeOK
  <2>2. {selected', streaming', generating', aiError', chatStreaming', crossed'} \subseteq BOOLEAN
    BY <1>1, <2>1
  <2> QED BY <1>1, <2>2 DEF AIInv, AITypeOK
<1>3. ChatRec' /\ Sequence(chatMessages)'
  BY <1>1 DEF AIInv, ChatRec
<1>4. SessionsOK'
  BY <1>1 DEF AIInv, SessionsOK
<1>5. ConversationInTurn'
  BY <1>1 DEF AIInv, ConversationInTurn
<1>6. (~crossed => InSession)'
  BY <1>1 DEF AIInv, InSession
<1> QED BY <1>2, <1>3, <1>4, <1>5, <1>6 DEF AIInv

LEMMA ChatOnly ==
    ASSUME AIInv, UNCHANGED <<environment, streaming, analysis, crossed>>,
           asked' \in 0 .. MaxChats, chatSession' \in 0 .. MaxSessions,
           sessions' \subseteq 1 .. MaxSessions,
           chatStreaming' \in BOOLEAN, chatStreaming' <=> chat'.state # "none",
           ChatRec', Sequence(chatMessages'), SessionsOK',
           \A i \in DOMAIN chatMessages' : chatMessages'[i].role \in {"user", "assistant", "error"},
           ~crossed =>
              /\ Turns(chatMessages', chatStreaming')
              /\ chatStreaming' => chatStreamedText' = chatStreamed'
              /\ chatSession' # NoSession =>
                    Questions(history'[chatSession']) \subseteq Questions(chatMessages')
              /\ InSession'
    PROVE  AIInv'
<1>1. /\ available' = available /\ selected' = selected /\ streaming' = streaming
      /\ generating' = generating /\ aiError' = aiError /\ gen' = gen /\ crossed' = crossed
  BY DEF environment, analysis
<1>2. AITypeOK'
  <2>1. /\ selected \in BOOLEAN /\ streaming \in BOOLEAN /\ generating \in BOOLEAN
        /\ aiError \in BOOLEAN /\ crossed \in BOOLEAN
    BY DEF AIInv, AITypeOK
  <2>2. {selected', streaming', generating', aiError', chatStreaming', crossed'} \subseteq BOOLEAN
    BY <1>1, <2>1
  <2> QED BY <1>1, <2>2 DEF AIInv, AITypeOK
<1>3. GenRec'
  BY <1>1 DEF AIInv, GenRec
<1>4. ConversationInTurn'
  BY <1>1 DEF ConversationInTurn, Turns
<1> QED BY <1>1, <1>2, <1>3, <1>4 DEF AIInv

LEMMA ReadChatParts ==
    ASSUME ReadChat
    PROVE  /\ chat.state = "reading"
           /\ UNCHANGED <<environment, streaming, analysis, memory, asked, crossed>>
           /\ chatSession' \in {chat.session, chatSession}
           /\ \E heard, n, buffer :
                \/ EndChat(chatStreamed \o heard)
                \/ /\ chatStreamed' = chatStreamed \o heard
                   /\ chatStreamedText' = chatStreamedText \o heard
                   /\ chat' = [chat EXCEPT !.at = n, !.buffer = buffer]
                   /\ UNCHANGED <<chatMessages, chatStreaming>>
  BY DEF ReadChat

LEMMA ReadAnalysisParts ==
    ASSUME ReadAnalysis
    PROVE  /\ gen.state = "reading"
           /\ UNCHANGED <<environment, streaming, aiError, conversation, memory, asked, crossed>>
           /\ \E n, fed : /\ generating' = ~fed.done
                          /\ gen' = IF fed.done THEN NoCall
                                                ELSE [gen EXCEPT !.at = n, !.buffer = fed.buffer]
  BY DEF ReadAnalysis

\* The next pieces of a call's body change nothing else of it.
LEMMA CallGoesOn ==
    ASSUME NEW n, NEW buffer
    PROVE  /\ GenRec /\ gen.state = "reading" =>
                [gen EXCEPT !.at = n, !.buffer = buffer]
                    = [state |-> "reading", body |-> gen.body, at |-> n, buffer |-> buffer]
           /\ ChatRec /\ chat.state = "reading" =>
                [chat EXCEPT !.at = n, !.buffer = buffer]
                    = [state |-> "reading", number |-> chat.number, session |-> chat.session,
                       body |-> chat.body, at |-> n, buffer |-> buffer,
                       answered |-> chat.answered]
<1>1. ASSUME GenRec, gen.state = "reading"
      PROVE  [gen EXCEPT !.at = n, !.buffer = buffer]
                 = [state |-> "reading", body |-> gen.body, at |-> n, buffer |-> buffer]
  <2>1. PICK body, at, old : gen = [state |-> "reading", body |-> body, at |-> at, buffer |-> old]
    BY <1>1 DEF GenRec, NoCall
  <2>2. [gen EXCEPT !.at = n] = [state |-> "reading", body |-> body, at |-> n, buffer |-> old]
    BY <2>1
  <2>3. gen.body = body
    BY <2>1
  <2>4. PICK next : next = [gen EXCEPT !.at = n]
    OBVIOUS
  <2>5. next = [state |-> "reading", body |-> body, at |-> n, buffer |-> old]
    BY <2>2, <2>4
  <2>6. [next EXCEPT !.buffer = buffer] =
            [state |-> "reading", body |-> body, at |-> n, buffer |-> buffer]
    BY <2>5
  <2> QED BY <2>3, <2>4, <2>6, Zenon
<1>2. ASSUME ChatRec, chat.state = "reading"
      PROVE  [chat EXCEPT !.at = n, !.buffer = buffer]
                 = [state |-> "reading", number |-> chat.number, session |-> chat.session,
                    body |-> chat.body, at |-> n, buffer |-> buffer, answered |-> chat.answered]
  <2>1. PICK number, session, body, at, old, answered :
            chat = [state |-> "reading", number |-> number, session |-> session, body |-> body,
                    at |-> at, buffer |-> old, answered |-> answered]
    BY <1>2 DEF ChatRec, NoCall
  <2>2. [chat EXCEPT !.at = n] =
            [state |-> "reading", number |-> number, session |-> session, body |-> body,
             at |-> n, buffer |-> old, answered |-> answered]
    BY <2>1
  <2>3. chat.number = number /\ chat.session = session /\ chat.body = body /\ chat.answered = answered
    BY <2>1
  <2>4. PICK next : next = [chat EXCEPT !.at = n]
    OBVIOUS
  <2>5. next = [state |-> "reading", number |-> number, session |-> session, body |-> body,
                at |-> n, buffer |-> old, answered |-> answered]
    BY <2>2, <2>4
  <2>6. [next EXCEPT !.buffer = buffer] =
            [state |-> "reading", number |-> number, session |-> session, body |-> body,
             at |-> n, buffer |-> buffer, answered |-> answered]
    BY <2>5
  <2> QED BY <2>3, <2>4, <2>6, Zenon
<1> QED BY <1>1, <1>2

LEMMA CallStates ==
    ASSUME AIInv
    PROVE  /\ gen = NoCall <=> gen.state = "none"
           /\ chat = NoCall <=> chat.state = "none"
           /\ chat.state \in {"none", "sent", "reading"}
           /\ chat.state = "sent" =>
                chat = [state |-> "sent", number |-> chat.number, session |-> chat.session]
           /\ chat.state = "reading" =>
                chat = [state |-> "reading", number |-> chat.number, session |-> chat.session,
                        body |-> chat.body, at |-> chat.at, buffer |-> chat.buffer,
                        answered |-> chat.answered]
<1>1. GenRec /\ ChatRec
  BY DEF AIInv
<1>2. gen = NoCall <=> gen.state = "none"
  BY <1>1 DEF GenRec, NoCall
<1>3. CASE chat = NoCall
  BY <1>2, <1>3 DEF NoCall
<1>4. CASE chat = [state |-> "sent", number |-> chat.number, session |-> chat.session]
  <2>1. chat.state = "sent" /\ chat # NoCall
    BY <1>4 DEF NoCall
  <2> QED BY <1>2, <1>4, <2>1
<1>5. CASE chat = [state |-> "reading", number |-> chat.number, session |-> chat.session,
                   body |-> chat.body, at |-> chat.at, buffer |-> chat.buffer,
                   answered |-> chat.answered]
  <2>1. chat.state = "reading" /\ chat # NoCall
    BY <1>5 DEF NoCall
  <2> QED BY <1>2, <1>5, <2>1
<1> QED BY <1>1, <1>3, <1>4, <1>5 DEF ChatRec

LEMMA AIStart ==
    ASSUME AIInit
    PROVE  AIInv
<1>1. AITypeOK
  <2>1. {selected, streaming, generating, aiError, chatStreaming, crossed} \subseteq BOOLEAN
    BY DEF AIInit
  <2>2. available \in {"unknown", "up", "down"}
    BY DEF AIInit
  <2>3. (generating <=> gen.state # "none") /\ (chatStreaming <=> chat.state # "none")
    BY DEF AIInit, NoCall
  <2>4. /\ chatSession \in 0 .. MaxSessions /\ sessions \subseteq 1 .. MaxSessions
        /\ asked \in 0 .. MaxChats /\ DOMAIN chatMessages = {}
    BY AIAssumption DEF AIInit, NoSession
  <2> QED BY <2>1, <2>2, <2>3, <2>4 DEF AITypeOK
<1>2. gen = NoCall /\ chat = NoCall /\ chat.state = "none"
  BY DEF AIInit, NoCall
<1>3. chatMessages = <<>> /\ Sequence(chatMessages) /\ Len(chatMessages) = 0
  BY ShortSequences DEF AIInit
<1>4. SessionsOK
  <2>1. /\ history = [s \in 1 .. MaxSessions |-> <<>>] /\ sessions = {}
    BY DEF AIInit
  <2>2. \A s \in 1 .. MaxSessions : Sequence(history[s])
    BY <2>1, ShortSequences
  <2>3. \A s \in 1 .. MaxSessions : history[s] # <<>> <=> s <= 0
    BY <2>1
  <2>4. 0 \in 0 .. MaxSessions
    BY AIAssumption
  <2> QED BY <1>2, <2>1, <2>2, <2>3, <2>4 DEF SessionsOK
<1>5. chatSession = NoSession /\ chatStreaming = FALSE
  BY DEF AIInit
<1>6. DOMAIN chatMessages = {}
  BY <1>3
<1>7. ~(Len(chatMessages) % 2 = 1)
  BY <1>3
<1>8. ConversationInTurn
  BY <1>5, <1>6, <1>7 DEF ConversationInTurn
<1>9. InSession
  BY <1>2, <1>5 DEF InSession
<1> QED BY <1>1, <1>2, <1>3, <1>4, <1>8, <1>9 DEF AIInv, GenRec, ChatRec

LEMMA AIFacts ==
    ASSUME AIInv
    PROVE  /\ selected \in BOOLEAN /\ streaming \in BOOLEAN /\ generating \in BOOLEAN
           /\ aiError \in BOOLEAN /\ chatStreaming \in BOOLEAN /\ crossed \in BOOLEAN
           /\ available \in {"unknown", "up", "down"}
           /\ generating <=> gen.state # "none"
           /\ chatStreaming <=> chat.state # "none"
           /\ chatSession \in 0 .. MaxSessions /\ sessions \subseteq 1 .. MaxSessions
           /\ asked \in 0 .. MaxChats
           /\ \A i \in DOMAIN chatMessages : chatMessages[i].role \in {"user", "assistant", "error"}
           /\ Sequence(chatMessages)
           /\ ~crossed => Turns(chatMessages, chatStreaming)
  BY DEF AIInv, AITypeOK, ConversationInTurn, Turns

\* The steps that leave the conversation alone.
LEMMA AnalysisSteps ==
    ASSUME AIInv, HealthArrives \/ TickersSelected \/ SwitchStreaming \/ AnalysisStep
    PROVE  AIInv'
<1>1. /\ selected \in BOOLEAN /\ streaming \in BOOLEAN /\ generating \in BOOLEAN
      /\ aiError \in BOOLEAN /\ available \in {"unknown", "up", "down"}
      /\ generating <=> gen.state # "none"
      /\ GenRec
  BY AIFacts DEF AIInv
<1>2. CASE HealthArrives \/ TickersSelected \/ SwitchStreaming
  <2>1. /\ UNCHANGED <<conversation, memory, asked, crossed>>
        /\ generating' = generating /\ aiError' = aiError /\ gen' = gen
    BY <1>2 DEF HealthArrives, TickersSelected, SwitchStreaming, environment, analysis
  <2>2. available' \in {"unknown", "up", "down"}
    BY <1>1, <1>2 DEF HealthArrives, TickersSelected, SwitchStreaming, environment
  <2>3. selected' \in BOOLEAN
    BY <1>1, <1>2 DEF HealthArrives, TickersSelected, SwitchStreaming, environment
  <2>4. streaming' \in BOOLEAN
    BY <1>1, <1>2 DEF HealthArrives, TickersSelected, SwitchStreaming
  <2>5. GenRec'
    BY <1>1, <2>1 DEF GenRec
  <2> QED BY <1>1, <2>1, <2>2, <2>3, <2>4, <2>5, AnalysisOnly
<1>3. CASE ReadAnalysis
  <2>1. PICK n, fed : /\ generating' = ~fed.done
                      /\ gen' = IF fed.done THEN NoCall
                                            ELSE [gen EXCEPT !.at = n, !.buffer = fed.buffer]
    BY <1>3, ReadAnalysisParts
  <2>2. /\ UNCHANGED <<environment, streaming, aiError, conversation, memory, asked, crossed>>
        /\ gen.state = "reading"
    BY <1>3, ReadAnalysisParts
  <2>3. selected' = selected /\ streaming' = streaming /\ available' = available /\ aiError' = aiError
    BY <2>2 DEF environment
  <2>4. generating' \in BOOLEAN
    BY <2>1
  <2>5. CASE fed.done
    <3>1. ~generating' /\ gen' = NoCall
      BY <2>1, <2>5
    <3>2. GenRec' /\ (generating' <=> gen'.state # "none")
      BY <3>1 DEF GenRec, NoCall
    <3> QED BY <1>1, <2>2, <2>3, <2>4, <3>2, AnalysisOnly
  <2>6. CASE ~fed.done
    <3>1. PICK buffer : buffer = fed.buffer
      OBVIOUS
    <3>2. generating' /\ gen' = [gen EXCEPT !.at = n, !.buffer = buffer]
      BY <2>1, <2>6, <3>1
    <3>3. gen' = [state |-> "reading", body |-> gen.body, at |-> n, buffer |-> buffer]
      BY <1>1, <2>2, <3>2, CallGoesOn
    <3>4. gen'.state = "reading" /\ gen'.body = gen.body /\ gen'.at = n /\ gen'.buffer = buffer
      BY <3>3
    <3>5. GenRec'
      BY <3>3, <3>4 DEF GenRec
    <3>6. generating' <=> gen'.state # "none"
      BY <3>2, <3>4
    <3> QED BY <1>1, <2>2, <2>3, <2>4, <3>5, <3>6, AnalysisOnly
  <2> QED BY <2>5, <2>6
<1>4. CASE AnalysisArrives \/ AnalysisCut \/ AnalysisFails
  <2>1. /\ UNCHANGED <<environment, streaming, conversation, memory, asked, crossed>>
        /\ generating' = FALSE /\ gen' = NoCall /\ (aiError' = aiError \/ aiError' = TRUE)
    BY <1>4 DEF AnalysisArrives, AnalysisCut, AnalysisFails, CutMeansDone
  <2>2. selected' = selected /\ streaming' = streaming /\ available' = available
    BY <2>1 DEF environment
  <2>3. generating' \in BOOLEAN
    BY <2>1
  <2>4. aiError' \in BOOLEAN
    BY <1>1, <2>1
  <2>5. GenRec' /\ (generating' <=> gen'.state # "none")
    BY <2>1 DEF GenRec, NoCall
  <2> QED BY <1>1, <2>1, <2>2, <2>3, <2>4, <2>5, AnalysisOnly
<1> QED BY <1>2, <1>3, <1>4 DEF AnalysisStep

LEMMA GenerateStep ==
    ASSUME AIInv, Generate
    PROVE  AIInv'
<1>1. /\ generating' = TRUE /\ aiError' = FALSE /\ chatMessages' = <<>> /\ chatSession' = NoSession
      /\ crossed' = chatStreaming
      /\ UNCHANGED <<environment, streaming, chatStreaming, chatStreamed, chat, memory, asked>>
  BY DEF Generate, NextSession
<1>2. PICK a : gen' = Analysis(a) \/ gen' = Plain(a)
  BY DEF Generate
<1>3. gen'.state # "none" /\ GenRec'
  <2>1. CASE gen' = Analysis(a)
    <3>1. PICK body : gen' = [state |-> "reading", body |-> body, at |-> 0, buffer |-> <<>>]
      BY <2>1 DEF Analysis
    <3>2. gen'.state = "reading" /\ gen'.body = body /\ gen'.at = 0 /\ gen'.buffer = <<>>
      BY <3>1
    <3> QED BY <3>1, <3>2 DEF GenRec
  <2>2. CASE gen' = Plain(a)
    <3>1. PICK text : gen' = [state |-> "plain", text |-> text]
      BY <2>2 DEF Plain
    <3>2. gen'.state = "plain" /\ gen'.text = text
      BY <3>1
    <3> QED BY <3>1, <3>2 DEF GenRec
  <2> QED BY <1>2, <2>1, <2>2
<1>4. /\ selected' = selected /\ streaming' = streaming /\ available' = available
      /\ history' = history /\ sessions' = sessions /\ asked' = asked
      /\ chat' = chat /\ chatStreaming' = chatStreaming
  BY <1>1 DEF environment, memory
<1>5. AITypeOK'
  <2>1. /\ selected' \in BOOLEAN /\ streaming' \in BOOLEAN /\ chatStreaming' \in BOOLEAN
    BY <1>4, AIFacts
  <2>2. crossed' \in BOOLEAN
    BY <1>1, AIFacts
  <2>3. generating' \in BOOLEAN /\ aiError' \in BOOLEAN
    BY <1>1
  <2>4. {selected', streaming', generating', aiError', chatStreaming', crossed'} \subseteq BOOLEAN
    BY <2>1, <2>2, <2>3
  <2>5. chatSession' \in 0 .. MaxSessions
    BY <1>1, AIAssumption DEF NoSession
  <2>6. DOMAIN chatMessages' = {}
    BY <1>1
  <2> QED BY <1>1, <1>3, <1>4, <2>4, <2>5, <2>6, AIFacts DEF AITypeOK
<1>6. Sequence(chatMessages)' /\ ~(Len(chatMessages') % 2 = 1) /\ DOMAIN chatMessages' = {}
  <2>1. Sequence(chatMessages') /\ Len(chatMessages') = 0
    BY <1>1, ShortSequences
  <2>2. DOMAIN chatMessages' = {}
    BY <1>1
  <2> QED BY <2>1, <2>2
<1>7. SessionsOK'
  BY <1>4 DEF AIInv, SessionsOK
<1>8. ChatRec'
  BY <1>4 DEF AIInv, ChatRec
<1>9. ASSUME ~crossed' PROVE ~chatStreaming' /\ chat'.state = "none"
  BY <1>1, <1>4, <1>9, AIFacts
<1>10. ConversationInTurn'
  BY <1>1, <1>6, <1>9 DEF ConversationInTurn
<1>11. (~crossed => InSession)'
  BY <1>9 DEF InSession
<1> QED BY <1>3, <1>5, <1>6, <1>7, <1>8, <1>10, <1>11 DEF AIInv

LEMMA SendStep ==
    ASSUME AIInv, SendChat
    PROVE  AIInv'
<1>1. /\ ~chatStreaming /\ asked < MaxChats /\ asked' = asked + 1
      /\ chatMessages' = Append(chatMessages, User(asked'))
      /\ chatStreaming' = TRUE /\ chatStreamedText' = <<>> /\ chatStreamed' = <<>>
      /\ chat' = Question(asked')
      /\ UNCHANGED <<environment, streaming, analysis, chatSession, memory, crossed>>
  BY DEF SendChat, ChatEnabled
<1>2. PICK x : x = User(asked')
  OBVIOUS
<1>3. x.role = "user" /\ x.number = asked' /\ chatMessages' = Append(chatMessages, x)
  BY <1>1, <1>2 DEF User
<1>4. chat' = [state |-> "sent", number |-> asked', session |-> chatSession]
  BY <1>1 DEF Question
<1>5. chat'.state = "sent" /\ chat'.number = asked' /\ chat'.session = chatSession
  BY <1>4
<1>6. /\ Sequence(chatMessages') /\ Len(chatMessages') = Len(chatMessages) + 1
      /\ chatMessages'[Len(chatMessages')] = x
      /\ \A i \in 1 .. Len(chatMessages) : chatMessages'[i] = chatMessages[i]
  BY <1>3, AIFacts, AppendFacts
<1>7. /\ DOMAIN chatMessages' = 1 .. Len(chatMessages) + 1 /\ DOMAIN chatMessages = 1 .. Len(chatMessages)
      /\ Len(chatMessages) \in Nat
  BY <1>6, AIFacts, SequenceFacts
<1>8. \A i \in DOMAIN chatMessages' : chatMessages'[i].role \in {"user", "assistant", "error"}
  <2> TAKE i \in DOMAIN chatMessages'
  <2>1. CASE i = Len(chatMessages) + 1
    BY <1>3, <1>6, <2>1
  <2>2. CASE i # Len(chatMessages) + 1
    <3>1. i \in DOMAIN chatMessages /\ chatMessages'[i] = chatMessages[i]
      BY <1>6, <1>7, <2>2
    <3> QED BY <3>1, AIFacts
  <2> QED BY <2>1, <2>2
<1>9. ChatRec'
  BY <1>4, <1>5 DEF ChatRec
<1>10. history' = history /\ sessions' = sessions /\ chatSession' = chatSession
  BY <1>1 DEF memory
<1>11. SessionsOK'
  <2>1. chatSession \in 0 .. MaxSessions
    BY AIFacts
  <2> QED BY <1>5, <1>10, <2>1 DEF AIInv, SessionsOK
<1>12. asked' \in 0 .. MaxChats
  BY <1>1, AIFacts, AIAssumption
<1>13. ASSUME ~crossed
       PROVE  /\ Turns(chatMessages', chatStreaming')
              /\ chatStreaming' => chatStreamedText' = chatStreamed'
              /\ chatSession' # NoSession =>
                    Questions(history'[chatSession']) \subseteq Questions(chatMessages')
              /\ InSession'
  <2>1. Turns(chatMessages, FALSE)
    BY <1>1, <1>13, AIFacts DEF Turns
  <2>2. Turns(chatMessages', TRUE)
    BY <1>3, <2>1, AIFacts, TurnAsked
  <2>3. Turns(chatMessages', chatStreaming')
    BY <1>1, <2>2 DEF Turns
  <2>4. Questions(chatMessages) \subseteq Questions(chatMessages')
    BY <1>3, AIFacts, QuestionsAppend
  <2>5. chatSession # NoSession => Questions(history[chatSession]) \subseteq Questions(chatMessages)
    BY <1>13 DEF AIInv, ConversationInTurn
  <2>6. InSession'
    BY <1>3, <1>5, <1>6, <1>10 DEF InSession
  <2> QED BY <1>1, <1>10, <2>3, <2>4, <2>5, <2>6
<1>14. chatSession' \in 0 .. MaxSessions /\ sessions' \subseteq 1 .. MaxSessions
  BY <1>10, AIFacts
<1>15. chatStreaming' \in BOOLEAN
  BY <1>1
<1> QED BY <1>1, <1>5, <1>6, <1>8, <1>9, <1>11, <1>12, <1>13, <1>14, <1>15, ChatOnly

LEMMA TakeStep ==
    ASSUME AIInv, ServerTakesChat
    PROVE  AIInv'
<1>1. PICK s : s = IF chat.session \in sessions THEN chat.session ELSE Fresh
  OBVIOUS
<1>2. /\ chat.state = "sent" /\ s \in DOMAIN history
      /\ history' = [history EXCEPT ![s] = Append(@, User(chat.number))]
      /\ sessions' = sessions \cup {s}
      /\ UNCHANGED <<environment, streaming, analysis, chatMessages, chatSession, bubble, asked,
                     crossed>>
  BY <1>1 DEF ServerTakesChat
<1>3. PICK body :
          chat' = [state |-> "reading", number |-> chat.number, session |-> s, body |-> body,
                   at |-> 0, buffer |-> <<>>, answered |-> FALSE]
  BY <1>1 DEF ServerTakesChat
<1>4. /\ chat'.state = "reading" /\ chat'.number = chat.number /\ chat'.session = s
      /\ chat'.body = body /\ chat'.at = 0 /\ chat'.buffer = <<>> /\ chat'.answered = FALSE
  BY <1>3
<1>5. SessionsOK /\ DOMAIN history = 1 .. MaxSessions
  BY DEF AIInv, SessionsOK
<1>6. s \in 1 .. MaxSessions /\ (history[s] # <<>> \/ (s = Fresh /\ history[s] = <<>>))
  <2>1. CASE chat.session \in sessions
    BY <1>1, <1>2, <1>5, <2>1 DEF SessionsOK
  <2>2. CASE chat.session \notin sessions
    <3>1. s = Fresh
      BY <1>1, <2>2
    <3> QED BY <1>2, <1>5, <3>1, FreshIsEmpty
  <2> QED BY <2>1, <2>2
<1>7. PICK x : x = User(chat.number)
  OBVIOUS
<1>8. x.role = "user" /\ x.number = chat.number /\ history' = [history EXCEPT ![s] = Append(@, x)]
  BY <1>2, <1>7 DEF User
<1>9. /\ history' = [r \in 1 .. MaxSessions |-> history'[r]]
      /\ \A r \in 1 .. MaxSessions : Sequence(history'[r])
      /\ \E n \in 0 .. MaxSessions : \A r \in 1 .. MaxSessions : history'[r] # <<>> <=> r <= n
      /\ \A r \in 1 .. MaxSessions : history[r] # <<>> => history'[r] # <<>>
      /\ \A r \in 1 .. MaxSessions : r # s => history'[r] = history[r]
      /\ history'[s] = Append(history[s], x) /\ history'[s] # <<>>
  BY <1>5, <1>6, <1>8, SessionTakes
<1>10. sessions' \subseteq 1 .. MaxSessions /\ \A r \in sessions' : history'[r] # <<>>
  <2>1. sessions \subseteq 1 .. MaxSessions
    BY AIFacts
  <2> QED BY <1>2, <1>5, <1>6, <1>9, <2>1 DEF SessionsOK
<1>11. SessionsOK'
  BY <1>4, <1>6, <1>9, <1>10 DEF SessionsOK
<1>12. ChatRec'
  BY <1>3, <1>4 DEF ChatRec
<1>13. /\ chatMessages' = chatMessages /\ chatSession' = chatSession /\ asked' = asked
       /\ chatStreaming' = chatStreaming /\ chatStreamedText' = chatStreamedText
       /\ chatStreamed' = chatStreamed
  BY <1>2 DEF bubble
<1>14. ASSUME ~crossed
       PROVE  /\ Turns(chatMessages', chatStreaming')
              /\ chatStreaming' => chatStreamedText' = chatStreamed'
              /\ chatSession' # NoSession =>
                    Questions(history'[chatSession']) \subseteq Questions(chatMessages')
              /\ InSession'
  <2>1. /\ Turns(chatMessages, chatStreaming) /\ chatStreaming
    BY <1>2, <1>14, AIFacts
  <2>2. /\ chatStreamedText = chatStreamed
        /\ chatSession # NoSession => Questions(history[chatSession]) \subseteq Questions(chatMessages)
        /\ chat.session = chatSession /\ chatMessages[Len(chatMessages)].number = chat.number
    BY <1>2, <1>14, <2>1 DEF AIInv, ConversationInTurn, InSession
  <2>3. chat.number \in Questions(chatMessages)
    <3>1. Len(chatMessages) % 2 = 1 /\ Len(chatMessages) \in DOMAIN chatMessages
      <4>1. Len(chatMessages) % 2 = 1
        BY <2>1 DEF Turns
      <4>2. Len(chatMessages) \in Nat /\ DOMAIN chatMessages = 1 .. Len(chatMessages)
        BY AIFacts, SequenceFacts
      <4> QED BY <4>1, <4>2
    <3>2. chatMessages[Len(chatMessages)].role = "user"
      BY <2>1, <3>1 DEF Turns
    <3> QED BY <2>2, <3>1, <3>2 DEF Questions
  <2>4. Questions(history[s]) \subseteq Questions(chatMessages)
    <3>1. CASE chat.session \in sessions
      <4>1. s = chatSession /\ s # NoSession
        BY <1>1, <1>6, <2>2, <3>1 DEF NoSession
      <4> QED BY <2>2, <4>1
    <3>2. CASE chat.session \notin sessions
      <4>1. history[s] = <<>>
        BY <1>1, <1>2, <1>5, <3>2, FreshIsEmpty
      <4>2. DOMAIN history[s] = {}
        BY <4>1
      <4> QED BY <4>2 DEF Questions
    <3> QED BY <3>1, <3>2
  <2>5. Questions(history'[s]) \subseteq Questions(chatMessages)
    <3>1. Sequence(history[s])
      BY <1>5, <1>6 DEF SessionsOK
    <3>2. Questions(Append(history[s], x)) \subseteq Questions(history[s]) \cup {x.number}
      BY <3>1, QuestionsAppend
    <3> QED BY <1>8, <1>9, <2>3, <2>4, <3>2
  <2>6. chatSession # NoSession => Questions(history'[chatSession]) \subseteq Questions(chatMessages)
    <3> SUFFICES ASSUME chatSession # NoSession
                 PROVE  Questions(history'[chatSession]) \subseteq Questions(chatMessages)
      OBVIOUS
    <3>1. chatSession \in 1 .. MaxSessions
      BY AIFacts, AIAssumption DEF NoSession
    <3>2. CASE chatSession = s
      BY <2>5, <3>2
    <3>3. CASE chatSession # s
      <4>1. history'[chatSession] = history[chatSession]
        BY <1>9, <3>1, <3>3
      <4> QED BY <2>2, <4>1
    <3> QED BY <3>2, <3>3
  <2>7. InSession'
    BY <1>4, <1>13, <2>2, <2>5 DEF InSession
  <2> QED BY <1>13, <2>1, <2>2, <2>6, <2>7
<1>15. /\ chatSession' \in 0 .. MaxSessions /\ asked' \in 0 .. MaxChats /\ chatStreaming' \in BOOLEAN
       /\ Sequence(chatMessages')
       /\ \A i \in DOMAIN chatMessages' : chatMessages'[i].role \in {"user", "assistant", "error"}
  BY <1>13, AIFacts
<1>16. chatStreaming' <=> chat'.state # "none"
  BY <1>2, <1>4, <1>13, AIFacts
<1> QED BY <1>2, <1>10, <1>11, <1>12, <1>14, <1>15, <1>16, ChatOnly

LEMMA AnswerStep ==
    ASSUME AIInv, ServerAnswers
    PROVE  AIInv'
<1>1. /\ chat.state = "reading"
      /\ history' = [history EXCEPT ![chat.session] = Append(@, Assistant(chat.number, <<>>))]
      /\ chat' = [chat EXCEPT !.answered = TRUE]
      /\ UNCHANGED <<environment, streaming, analysis, chatMessages, chatSession, bubble, sessions,
                     asked, crossed>>
  BY DEF ServerAnswers
<1>2. PICK x : x = Assistant(chat.number, <<>>)
  OBVIOUS
<1>3. x.role # "user"
  BY <1>2 DEF Assistant
<1>4. PICK s : s = chat.session
  OBVIOUS
<1>5. /\ SessionsOK /\ s \in 1 .. MaxSessions /\ history[s] # <<>> /\ Sequence(history[s])
  BY <1>1, <1>4 DEF AIInv, SessionsOK
<1>6. history' = [history EXCEPT ![s] = Append(@, x)]
  BY <1>1, <1>2, <1>4
<1>7. /\ history' = [r \in 1 .. MaxSessions |-> history'[r]]
      /\ \A r \in 1 .. MaxSessions : Sequence(history'[r])
      /\ \E n \in 0 .. MaxSessions : \A r \in 1 .. MaxSessions : history'[r] # <<>> <=> r <= n
      /\ \A r \in 1 .. MaxSessions : history[r] # <<>> => history'[r] # <<>>
      /\ \A r \in 1 .. MaxSessions : r # s => history'[r] = history[r]
      /\ history'[s] = Append(history[s], x) /\ history'[s] # <<>>
  BY <1>5, <1>6, SessionTakes
<1>8. PICK body, at, buffer, number, answered :
          chat = [state |-> "reading", number |-> number, session |-> s, body |-> body,
                  at |-> at, buffer |-> buffer, answered |-> answered]
  BY <1>1, <1>4, CallStates
<1>9. chat' = [state |-> "reading", number |-> number, session |-> s, body |-> body,
               at |-> at, buffer |-> buffer, answered |-> TRUE]
  BY <1>1, <1>8
<1>10. /\ chat'.state = "reading" /\ chat'.number = number /\ chat'.session = s /\ chat'.body = body
       /\ chat'.at = at /\ chat'.buffer = buffer /\ chat'.answered = TRUE
  BY <1>9
<1>11. chat.number = number
  BY <1>8
<1>12. ChatRec'
  BY <1>9, <1>10 DEF ChatRec
<1>13. /\ chatMessages' = chatMessages /\ chatSession' = chatSession /\ asked' = asked
       /\ chatStreaming' = chatStreaming /\ chatStreamedText' = chatStreamedText
       /\ chatStreamed' = chatStreamed /\ sessions' = sessions
  BY <1>1 DEF bubble
<1>14. SessionsOK'
  <2>1. \A r \in sessions : history'[r] # <<>>
    BY <1>5, <1>7, AIFacts DEF SessionsOK
  <2> QED BY <1>5, <1>7, <1>10, <1>13, <2>1 DEF SessionsOK
<1>15. \A r \in 1 .. MaxSessions : Questions(history'[r]) \subseteq Questions(history[r])
  <2> TAKE r \in 1 .. MaxSessions
  <2>1. CASE r = s
    BY <1>3, <1>5, <1>7, <2>1, QuestionsAppend
  <2>2. CASE r # s
    BY <1>7, <2>2
  <2> QED BY <2>1, <2>2
<1>16. ASSUME ~crossed
       PROVE  /\ Turns(chatMessages', chatStreaming')
              /\ chatStreaming' => chatStreamedText' = chatStreamed'
              /\ chatSession' # NoSession =>
                    Questions(history'[chatSession']) \subseteq Questions(chatMessages')
              /\ InSession'
  <2>1. /\ Turns(chatMessages, chatStreaming)
        /\ chatStreaming => chatStreamedText = chatStreamed
        /\ chatSession # NoSession => Questions(history[chatSession]) \subseteq Questions(chatMessages)
        /\ chatStreaming => chatMessages[Len(chatMessages)].number = chat.number
        /\ Questions(history[s]) \subseteq Questions(chatMessages)
    BY <1>1, <1>4, <1>16, AIFacts DEF AIInv, ConversationInTurn, InSession
  <2>2. chatSession # NoSession => Questions(history'[chatSession]) \subseteq Questions(chatMessages)
    <3> SUFFICES ASSUME chatSession # NoSession
                 PROVE  Questions(history'[chatSession]) \subseteq Questions(chatMessages)
      OBVIOUS
    <3>1. chatSession \in 1 .. MaxSessions
      BY AIFacts, AIAssumption DEF NoSession
    <3> QED BY <1>15, <2>1, <3>1
  <2>3. Questions(history'[s]) \subseteq Questions(chatMessages)
    BY <1>5, <1>15, <2>1
  <2>4. InSession'
    BY <1>10, <1>11, <1>13, <2>1, <2>3 DEF InSession
  <2> QED BY <1>13, <2>1, <2>2, <2>4
<1>17. /\ chatSession' \in 0 .. MaxSessions /\ asked' \in 0 .. MaxChats /\ chatStreaming' \in BOOLEAN
       /\ Sequence(chatMessages') /\ sessions' \subseteq 1 .. MaxSessions
       /\ \A i \in DOMAIN chatMessages' : chatMessages'[i].role \in {"user", "assistant", "error"}
  BY <1>13, AIFacts
<1>18. chatStreaming' <=> chat'.state # "none"
  BY <1>1, <1>10, <1>13, AIFacts
<1> QED BY <1>1, <1>12, <1>14, <1>16, <1>17, <1>18, ChatOnly

\* However an answer ends, a message with its question's number joins the conversation.
EndsWith(x) ==
    /\ chat # NoCall /\ x.role \in {"assistant", "error"} /\ x.number = chat.number
    /\ chatMessages' = Append(chatMessages, x) /\ chatStreaming' = FALSE /\ chat' = NoCall
    /\ UNCHANGED <<environment, streaming, analysis, memory, asked, crossed>>
    /\ \/ chatSession' = chatSession
       \/ chat.state = "reading" /\ chatSession' = chat.session

LEMMA ChatEnds ==
    ASSUME AIInv, NEW x, EndsWith(x)
    PROVE  AIInv'
<1>0. /\ chat # NoCall /\ x.role \in {"assistant", "error"} /\ x.number = chat.number
      /\ chatMessages' = Append(chatMessages, x) /\ chatStreaming' = FALSE /\ chat' = NoCall
      /\ UNCHANGED <<environment, streaming, analysis, memory, asked, crossed>>
      /\ \/ chatSession' = chatSession
         \/ chat.state = "reading" /\ chatSession' = chat.session
  BY DEF EndsWith
<1>1. chat.state \in {"sent", "reading"} /\ chatStreaming
  BY <1>0, CallStates, AIFacts
<1>2. chat'.state = "none" /\ ChatRec'
  BY <1>0 DEF NoCall, ChatRec
<1>3. history' = history /\ sessions' = sessions /\ asked' = asked
  BY <1>0 DEF memory
<1>4. SessionsOK'
  BY <1>0, <1>2, <1>3 DEF AIInv, SessionsOK
<1>5. /\ Sequence(chatMessages') /\ Len(chatMessages') = Len(chatMessages) + 1
      /\ chatMessages'[Len(chatMessages) + 1] = x
      /\ \A i \in 1 .. Len(chatMessages) : chatMessages'[i] = chatMessages[i]
  BY <1>0, AIFacts, AppendFacts
<1>6. /\ DOMAIN chatMessages' = 1 .. Len(chatMessages) + 1 /\ DOMAIN chatMessages = 1 .. Len(chatMessages)
      /\ Len(chatMessages) \in Nat
  BY <1>0, <1>5, AIFacts, SequenceFacts
<1>7. \A i \in DOMAIN chatMessages' : chatMessages'[i].role \in {"user", "assistant", "error"}
  <2> TAKE i \in DOMAIN chatMessages'
  <2>1. CASE i = Len(chatMessages) + 1
    BY <1>0, <1>5, <2>1
  <2>2. CASE i # Len(chatMessages) + 1
    <3>1. i \in DOMAIN chatMessages /\ chatMessages'[i] = chatMessages[i]
      BY <1>0, <1>5, <1>6, <2>2
    <3> QED BY <1>0, <3>1, AIFacts
  <2> QED BY <1>0, <2>1, <2>2
<1>8. chatSession' \in 0 .. MaxSessions /\ sessions' \subseteq 1 .. MaxSessions
  <2>1. chatSession \in 0 .. MaxSessions /\ sessions \subseteq 1 .. MaxSessions
    BY <1>0, AIFacts
  <2>2. chat.state = "reading" => chat.session \in 0 .. MaxSessions
    BY <1>0, AIAssumption DEF AIInv, SessionsOK
  <2> QED BY <1>0, <1>3, <2>1, <2>2
<1>9. ASSUME ~crossed
      PROVE  /\ Turns(chatMessages', chatStreaming')
             /\ chatStreaming' => chatStreamedText' = chatStreamed'
             /\ chatSession' # NoSession =>
                   Questions(history'[chatSession']) \subseteq Questions(chatMessages')
             /\ InSession'
  <2>1. Turns(chatMessages, TRUE)
    BY <1>0, <1>1, <1>9, AIFacts DEF Turns
  <2>2. chatMessages[Len(chatMessages)].number = chat.number
    BY <1>0, <1>1, <1>9 DEF AIInv, InSession
  <2>3. Turns(chatMessages', FALSE)
    BY <1>0, <2>1, <2>2, AIFacts, TurnAnswered
  <2>4. Questions(chatMessages) \subseteq Questions(chatMessages')
    BY <1>0, AIFacts, QuestionsAppend
  <2>5. /\ chatSession # NoSession => Questions(history[chatSession]) \subseteq Questions(chatMessages)
        /\ chat.state = "reading" => Questions(history[chat.session]) \subseteq Questions(chatMessages)
    BY <1>0, <1>9 DEF AIInv, ConversationInTurn, InSession
  <2>6. chatSession' # NoSession =>
            Questions(history'[chatSession']) \subseteq Questions(chatMessages')
    <3>1. CASE chatSession' = chatSession
      BY <1>0, <1>3, <2>4, <2>5, <3>1
    <3>2. CASE chat.state = "reading" /\ chatSession' = chat.session
      BY <1>0, <1>3, <2>4, <2>5, <3>2
    <3> QED BY <1>0, <3>1, <3>2
  <2>7. Turns(chatMessages', chatStreaming')
    BY <1>0, <2>3 DEF Turns
  <2>8. InSession'
    BY <1>0, <1>2 DEF InSession
  <2> QED BY <1>0, <2>6, <2>7, <2>8
<1>10. chatStreaming' \in BOOLEAN
  BY <1>0
<1>11. asked' \in 0 .. MaxChats
  BY <1>0, <1>3, AIFacts
<1> QED BY <1>0, <1>2, <1>4, <1>5, <1>7, <1>8, <1>9, <1>10, <1>11, ChatOnly

LEMMA ReadStep ==
    ASSUME AIInv, ReadChat
    PROVE  AIInv'
<1>1. /\ chat.state = "reading" /\ chat # NoCall
      /\ UNCHANGED <<environment, streaming, analysis, memory, asked, crossed>>
      /\ chatSession' \in {chat.session, chatSession}
  BY ReadChatParts, CallStates
<1>2. PICK heard, n, buffer :
          \/ EndChat(chatStreamed \o heard)
          \/ /\ chatStreamed' = chatStreamed \o heard
             /\ chatStreamedText' = chatStreamedText \o heard
             /\ chat' = [chat EXCEPT !.at = n, !.buffer = buffer]
             /\ UNCHANGED <<chatMessages, chatStreaming>>
  BY ReadChatParts
<1>3. CASE EndChat(chatStreamed \o heard)
  <2>1. PICK x : x = Assistant(chat.number, FinalText(chatStreamed \o heard))
    OBVIOUS
  <2>2. x.role = "assistant" /\ x.number = chat.number
    BY <2>1 DEF Assistant
  <2>3. chatMessages' = Append(chatMessages, x) /\ chatStreaming' = FALSE /\ chat' = NoCall
    BY <1>3, <2>1 DEF EndChat
  <2>4. x.role \in {"assistant", "error"}
    BY <2>2
  <2>5. EndsWith(x)
    BY <1>1, <2>2, <2>3, <2>4 DEF EndsWith
  <2> QED BY <2>5, ChatEnds
<1>4. CASE /\ chatStreamed' = chatStreamed \o heard
           /\ chatStreamedText' = chatStreamedText \o heard
           /\ chat' = [chat EXCEPT !.at = n, !.buffer = buffer]
           /\ UNCHANGED <<chatMessages, chatStreaming>>
  <2>1. chat' = [state |-> "reading", number |-> chat.number, session |-> chat.session,
                 body |-> chat.body, at |-> n, buffer |-> buffer, answered |-> chat.answered]
    BY <1>1, <1>4, CallGoesOn DEF AIInv
  <2>2. /\ chat'.state = "reading" /\ chat'.number = chat.number /\ chat'.session = chat.session
        /\ chat'.body = chat.body /\ chat'.at = n /\ chat'.buffer = buffer
        /\ chat'.answered = chat.answered
    BY <2>1
  <2>3. ChatRec'
    BY <2>1, <2>2 DEF ChatRec
  <2>4. history' = history /\ sessions' = sessions /\ asked' = asked
    BY <1>1 DEF memory
  <2>5. SessionsOK'
    BY <1>1, <2>2, <2>4 DEF AIInv, SessionsOK
  <2>6. chatSession' \in 0 .. MaxSessions
    <3>1. chatSession \in 0 .. MaxSessions
      BY AIFacts
    <3>2. chat.session \in 0 .. MaxSessions
      BY <1>1, AIAssumption DEF AIInv, SessionsOK
    <3> QED BY <1>1, <3>1, <3>2
  <2>7. chatMessages' = chatMessages /\ chatStreaming' = chatStreaming
    BY <1>4
  <2>8. ASSUME ~crossed
        PROVE  /\ Turns(chatMessages', chatStreaming')
               /\ chatStreaming' => chatStreamedText' = chatStreamed'
               /\ chatSession' # NoSession =>
                     Questions(history'[chatSession']) \subseteq Questions(chatMessages')
               /\ InSession'
    <3>1. /\ Turns(chatMessages, chatStreaming)
          /\ chatStreaming => chatStreamedText = chatStreamed
          /\ chatSession # NoSession => Questions(history[chatSession]) \subseteq Questions(chatMessages)
          /\ chatStreaming => chatMessages[Len(chatMessages)].number = chat.number
          /\ Questions(history[chat.session]) \subseteq Questions(chatMessages)
      BY <1>1, <2>8, AIFacts DEF AIInv, ConversationInTurn, InSession
    <3>2. chatStreaming' => chatStreamedText' = chatStreamed'
      BY <1>4, <2>7, <3>1
    <3>3. chatSession' # NoSession => Questions(history'[chatSession']) \subseteq Questions(chatMessages')
      <4>1. CASE chatSession' = chatSession
        BY <2>4, <2>7, <3>1, <4>1
      <4>2. CASE chatSession' = chat.session
        BY <2>4, <2>7, <3>1, <4>2
      <4> QED BY <1>1, <4>1, <4>2
    <3>4. InSession'
      BY <2>2, <2>4, <2>7, <3>1 DEF InSession
    <3> QED BY <2>7, <3>1, <3>2, <3>3, <3>4
  <2>9. /\ asked' \in 0 .. MaxChats /\ chatStreaming' \in BOOLEAN
        /\ Sequence(chatMessages') /\ sessions' \subseteq 1 .. MaxSessions
        /\ \A i \in DOMAIN chatMessages' : chatMessages'[i].role \in {"user", "assistant", "error"}
    BY <2>4, <2>7, AIFacts
  <2>10. chatStreaming' <=> chat'.state # "none"
    BY <1>1, <2>2, <2>7, AIFacts
  <2> QED BY <1>1, <2>3, <2>5, <2>6, <2>8, <2>9, <2>10, ChatOnly
<1> QED BY <1>2, <1>3, <1>4

LEMMA AIStep ==
    ASSUME AIInv, AINext
    PROVE  AIInv'
<1>1. CASE ChatCut
  <2>1. PICK x : x = Assistant(chat.number, FinalText(chatStreamed))
    OBVIOUS
  <2>2. x.role = "assistant" /\ x.number = chat.number
    BY <2>1 DEF Assistant
  <2>3. /\ chatMessages' = Append(chatMessages, x) /\ chatStreaming' = FALSE /\ chat' = NoCall
        /\ chat.state = "reading"
        /\ UNCHANGED <<environment, streaming, analysis, chatSession, memory, asked, crossed>>
    BY <1>1, <2>1 DEF ChatCut, EndChat
  <2>4. chat # NoCall
    BY <2>3, CallStates
  <2>5. x.role \in {"assistant", "error"} /\ chatSession' = chatSession
    BY <2>2, <2>3
  <2>6. UNCHANGED <<environment, streaming, analysis, memory, asked, crossed>>
    BY <2>3
  <2>7. EndsWith(x)
    BY <2>2, <2>3, <2>4, <2>5, <2>6 DEF EndsWith
  <2> QED BY <2>7, ChatEnds
<1>2. CASE ChatFails
  <2>1. PICK x : x = Failed(chat.number)
    OBVIOUS
  <2>2. x.role = "error" /\ x.number = chat.number
    BY <2>1 DEF Failed
  <2>3. /\ chatMessages' = Append(chatMessages, x) /\ chatStreaming' = FALSE /\ chat' = NoCall
        /\ chat # NoCall
        /\ UNCHANGED <<environment, streaming, analysis, chatSession, memory, asked, crossed>>
    BY <1>2, <2>1 DEF ChatFails
  <2>4. x.role \in {"assistant", "error"} /\ chatSession' = chatSession
    BY <2>2, <2>3
  <2>5. UNCHANGED <<environment, streaming, analysis, memory, asked, crossed>>
    BY <2>3
  <2>6. EndsWith(x)
    BY <2>2, <2>3, <2>4, <2>5 DEF EndsWith
  <2> QED BY <2>6, ChatEnds
<1>3. CASE SessionEnds
  <2>1. /\ sessions' \subseteq sessions
        /\ UNCHANGED <<environment, streaming, analysis, conversation, history, asked, crossed>>
    BY <1>3 DEF SessionEnds
  <2>2. /\ chatMessages' = chatMessages /\ chatSession' = chatSession
        /\ chatStreaming' = chatStreaming /\ chatStreamedText' = chatStreamedText
        /\ chatStreamed' = chatStreamed /\ chat' = chat /\ history' = history /\ asked' = asked
    BY <2>1 DEF conversation, bubble
  <2>3. SessionsOK'
    BY <2>1, <2>2 DEF AIInv, SessionsOK
  <2>4. ChatRec' /\ sessions' \subseteq 1 .. MaxSessions
    BY <2>1, <2>2, AIFacts DEF AIInv, ChatRec
  <2>5. ASSUME ~crossed
        PROVE  /\ Turns(chatMessages', chatStreaming')
               /\ chatStreaming' => chatStreamedText' = chatStreamed'
               /\ chatSession' # NoSession =>
                     Questions(history'[chatSession']) \subseteq Questions(chatMessages')
               /\ InSession'
    <3>1. /\ Turns(chatMessages, chatStreaming) /\ InSession
          /\ chatStreaming => chatStreamedText = chatStreamed
          /\ chatSession # NoSession => Questions(history[chatSession]) \subseteq Questions(chatMessages)
      BY <2>5, AIFacts DEF AIInv, ConversationInTurn
    <3>2. InSession'
      BY <2>2, <3>1 DEF InSession
    <3> QED BY <2>2, <3>1, <3>2
  <2> QED BY <2>1, <2>2, <2>3, <2>4, <2>5, AIFacts, ChatOnly
<1> QED BY <1>1, <1>2, <1>3, AnalysisSteps, GenerateStep, SendStep, TakeStep, AnswerStep, ReadStep
        DEF AINext, ChatStep
-----------------------------------------------------------------------------
(***************************************************************************)
(* The event stream.  What is read of a text up to its last line end is    *)
(* never looked at again, so that a text read on from there is heard as    *)
(* the whole text is: its lines are those before and, further along, those *)
(* of the rest with what was added.                                        *)
(***************************************************************************)

LEMMA LineEndFacts ==
    ASSUME NEW s, Sequence(s)
    PROVE  /\ \A e : e \in LineEnds(s) <=> e \in 1 .. Len(s) /\ s[e] = NL
           /\ LineEnds(s) \in SUBSET Nat /\ IsFiniteSet(LineEnds(s))
<1>1. DOMAIN s = 1 .. Len(s) /\ Len(s) \in Nat
  BY SequenceFacts
<1>2. \A e : e \in LineEnds(s) <=> e \in 1 .. Len(s) /\ s[e] = NL
  BY <1>1 DEF LineEnds
<1>3. LineEnds(s) \subseteq 1 .. Len(s) /\ IsFiniteSet(1 .. Len(s))
  BY <1>1, <1>2, FS_Interval
<1> QED BY <1>1, <1>2, <1>3, FS_Subset

LEMMA LineStarts ==
    ASSUME NEW s, Sequence(s), NEW e \in 1 .. Len(s) + 1
    PROVE  /\ LineStart(s, e) \in 1 .. e
           /\ \A i \in LineEnds(s) : i < e => i < LineStart(s, e)
           /\ LineStart(s, e) = 1 \/ LineStart(s, e) - 1 \in LineEnds(s)
<1> DEFINE before == {i \in LineEnds(s) : i < e}
           S == {0} \cup before
<1>1. Len(s) \in Nat /\ LineEnds(s) \in SUBSET Nat /\ IsFiniteSet(LineEnds(s))
  BY LineEndFacts, SequenceFacts
<1>2. S \in SUBSET Int /\ S # {}
  BY <1>1
<1>3. IsFiniteSet(S)
  <2>1. IsFiniteSet(before) /\ IsFiniteSet({0})
    BY <1>1, FS_Subset, FS_Singleton
  <2> HIDE DEF before
  <2> QED BY <2>1, FS_Union
<1>4. Max(S) \in S /\ \A i \in S : Max(S) >= i
  <2> HIDE DEF S
  <2> QED BY <1>2, <1>3, ExtremeElements
<1>5. LineStart(s, e) = Max(S) + 1
  BY DEF LineStart
<1>6. PICK m : m = Max(S)
  OBVIOUS
<1>7. m \in S /\ (\A i \in S : m >= i) /\ LineStart(s, e) = m + 1
  BY <1>4, <1>5, <1>6
<1>8. m \in 0 .. e - 1 /\ (m = 0 \/ m \in LineEnds(s)) /\ \A i \in LineEnds(s) : i < e => i <= m
  BY <1>1, <1>7
<1> QED BY <1>1, <1>7, <1>8

LEMMA LineStartIs ==
    ASSUME NEW s, Sequence(s), NEW e \in 1 .. Len(s) + 1, NEW m \in 1 .. e,
           m = 1 \/ m - 1 \in LineEnds(s), \A i \in LineEnds(s) : i < e => i < m
    PROVE  LineStart(s, e) = m
<1>1. Len(s) \in Nat /\ LineEnds(s) \in SUBSET Nat
  BY LineEndFacts, SequenceFacts
<1>2. PICK l : l = LineStart(s, e)
  OBVIOUS
<1>3. /\ l = 1 \/ l - 1 \in LineEnds(s)
      /\ \A i \in LineEnds(s) : i < e => i < l
  BY <1>2, LineStarts
<1>4. l \in 1 .. e
  BY <1>2, LineStarts
<1>5. ~(l < m)
  BY <1>1, <1>3, <1>4
<1>6. ~(m < l)
  BY <1>1, <1>3, <1>4
<1> QED BY <1>1, <1>2, <1>4, <1>5, <1>6

\* A text w is the complete lines u and the text q.
Joined(w, u, q) ==
    /\ Sequence(w) /\ Sequence(u) /\ Sequence(q) /\ Len(w) = Len(u) + Len(q)
    /\ \A i \in 1 .. Len(u) : w[i] = u[i]
    /\ \A i \in 1 .. Len(q) : w[Len(u) + i] = q[i]
    /\ Len(u) = 0 \/ u[Len(u)] = NL

LEMMA JoinedLines ==
    ASSUME NEW w, NEW u, NEW q, Joined(w, u, q), NEW k \in Nat, k = Len(u)
    PROVE  /\ Len(q) \in Nat /\ Len(w) = k + Len(q)
           /\ \A e \in 1 .. k : e \in LineEnds(w) <=> e \in LineEnds(u)
           /\ \A e \in 1 .. Len(q) : k + e \in LineEnds(w) <=> e \in LineEnds(q)
           /\ \A e \in 1 .. k : LineStart(w, e) = LineStart(u, e)
           /\ \A e \in 1 .. Len(q) + 1 : LineStart(w, k + e) = k + LineStart(q, e)
<1>1. /\ Sequence(w) /\ Sequence(u) /\ Sequence(q) /\ Len(w) = k + Len(q)
      /\ \A i \in 1 .. k : w[i] = u[i]
      /\ \A i \in 1 .. Len(q) : w[k + i] = q[i]
      /\ k = 0 \/ u[k] = NL
  BY DEF Joined
<1>2. Len(q) \in Nat /\ Len(u) = k
  BY <1>1, SequenceFacts
<1>3. PICK n \in Nat : n = Len(q)
  BY <1>2
<1>4. /\ \A e : e \in LineEnds(w) <=> e \in 1 .. k + n /\ w[e] = NL
      /\ \A e : e \in LineEnds(u) <=> e \in 1 .. k /\ u[e] = NL
      /\ \A e : e \in LineEnds(q) <=> e \in 1 .. n /\ q[e] = NL
  BY <1>1, <1>2, <1>3, LineEndFacts
<1>5. \A e \in 1 .. k : e \in LineEnds(w) <=> e \in LineEnds(u)
  BY <1>1, <1>4
<1>6. \A e \in 1 .. n : k + e \in LineEnds(w) <=> e \in LineEnds(q)
  BY <1>1, <1>3, <1>4
<1>7. ASSUME NEW e \in 1 .. k PROVE LineStart(w, e) = LineStart(u, e)
  <2>1. PICK m : m = LineStart(u, e)
    OBVIOUS
  <2>2. e \in 1 .. Len(u) + 1 /\ e \in 1 .. Len(w) + 1
    BY <1>1, <1>2, <1>3
  <2>3. m \in 1 .. e
    BY <1>1, <2>1, <2>2, LineStarts
  <2>4. m = 1 \/ m - 1 \in LineEnds(u)
    BY <1>1, <2>1, <2>2, LineStarts
  <2>5. \A i \in LineEnds(u) : i < e => i < m
    BY <1>1, <2>1, <2>2, LineStarts
  <2>6. m = 1 \/ m - 1 \in LineEnds(w)
    BY <1>4, <1>5, <2>4
  <2>7. \A i \in LineEnds(w) : i < e => i < m
    BY <1>4, <1>5, <2>5
  <2> QED BY <1>1, <2>1, <2>2, <2>3, <2>6, <2>7, LineStartIs
<1>8. ASSUME NEW e \in 1 .. n + 1 PROVE LineStart(w, k + e) = k + LineStart(q, e)
  <2>1. PICK m : m = LineStart(q, e)
    OBVIOUS
  <2>2. e \in 1 .. Len(q) + 1 /\ k + e \in 1 .. Len(w) + 1
    BY <1>1, <1>3
  <2>3. m \in 1 .. e
    BY <1>1, <2>1, <2>2, LineStarts
  <2>4. m = 1 \/ m - 1 \in LineEnds(q)
    BY <1>1, <2>1, <2>2, LineStarts
  <2>5. \A i \in LineEnds(q) : i < e => i < m
    BY <1>1, <2>1, <2>2, LineStarts
  <2>6. k + m \in 1 .. k + e
    BY <2>3
  <2>7. k + m = 1 \/ k + m - 1 \in LineEnds(w)
    <3>1. CASE m = 1 /\ k = 0
      BY <3>1
    <3>2. CASE m = 1 /\ k # 0
      <4>1. k \in 1 .. k /\ k \in LineEnds(u) /\ k + m - 1 = k
        BY <1>1, <1>4, <3>2
      <4> QED BY <1>5, <4>1
    <3>3. CASE m - 1 \in LineEnds(q)
      <4>1. m - 1 \in 1 .. n /\ k + m - 1 = k + (m - 1)
        BY <1>4, <2>3, <3>3
      <4> QED BY <1>6, <3>3, <4>1
    <3> QED BY <2>4, <3>1, <3>2, <3>3
  <2>8. \A i \in LineEnds(w) : i < k + e => i < k + m
    <3> SUFFICES ASSUME NEW i \in LineEnds(w), i < k + e PROVE i < k + m
      OBVIOUS
    <3>1. i \in 1 .. k + n
      BY <1>4
    <3>2. CASE i <= k
      BY <2>3, <3>1, <3>2
    <3>3. CASE ~(i <= k)
      <4>1. PICK j \in 1 .. n : i = k + j
        <5>1. i - k \in 1 .. n /\ i = k + (i - k)
          BY <3>1, <3>3
        <5> QED BY <5>1
      <4>2. j \in LineEnds(q) /\ j < e
        BY <1>6, <4>1
      <4> QED BY <2>3, <2>5, <4>1, <4>2
    <3> QED BY <3>1, <3>2, <3>3
  <2>9. PICK f \in 1 .. Len(w) + 1 : f = k + e
    BY <2>2
  <2>10. PICK l \in 1 .. f : l = k + m
    BY <2>6, <2>9
  <2>11. l = 1 \/ l - 1 \in LineEnds(w)
    BY <2>3, <2>7, <2>10
  <2>12. \A i \in LineEnds(w) : i < f => i < l
    BY <2>8, <2>9, <2>10
  <2>13. LineStart(w, f) = l
    BY <1>1, <2>11, <2>12, LineStartIs
  <2> QED BY <2>1, <2>9, <2>10, <2>13
<1> QED BY <1>1, <1>2, <1>3, <1>5, <1>6, <1>7, <1>8

LEMMA DataLineFacts ==
    ASSUME NEW s, Sequence(s), NEW e \in DataLines(s)
    PROVE  /\ e \in 1 .. Len(s) /\ e \in LineEnds(s)
           /\ LineStart(s, e) \in 1 .. e - 1
<1>1. e \in LineEnds(s) /\ s[LineStart(s, e)] = Data
  BY DEF DataLines
<1>2. e \in 1 .. Len(s) /\ s[e] = NL
  BY <1>1, LineEndFacts
<1>3. Len(s) \in Nat
  BY SequenceFacts
<1>4. e \in 1 .. Len(s) + 1
  BY <1>2, <1>3
<1>5. LineStart(s, e) \in 1 .. e
  BY <1>4, LineStarts
<1>6. LineStart(s, e) # e
  BY <1>1, <1>2 DEF NL, Data
<1> QED BY <1>1, <1>2, <1>5, <1>6

\* Two stretches with the same pieces.
LEMMA SameStretch ==
    ASSUME NEW s, Sequence(s), NEW t, Sequence(t), NEW k \in Nat, NEW m \in Nat, NEW n \in Nat,
           m <= n, k + n <= Len(s), n <= Len(t),
           \A i \in m + 1 .. n : s[k + i] = t[i]
    PROVE  SubSeq(s, k + m + 1, k + n) = SubSeq(t, m + 1, n)
<1> DEFINE a == SubSeq(s, k + m + 1, k + n)
           b == SubSeq(t, m + 1, n)
<1>1. Len(s) \in Nat /\ Len(t) \in Nat
  BY SequenceFacts
<1>2. /\ Sequence(a) /\ Len(a) = n - m
      /\ \A i \in 1 .. n - m : a[i] = s[k + m + i]
  <2>1. PICK l \in Nat, h \in 0 .. Len(s) : l = k + m /\ h = k + n
    BY <1>1
  <2>2. l <= h /\ h - l = n - m
    BY <2>1
  <2>3. /\ Sequence(SubSeq(s, l + 1, h)) /\ Len(SubSeq(s, l + 1, h)) = h - l
        /\ \A i \in 1 .. h - l : SubSeq(s, l + 1, h)[i] = s[l + i]
    BY <2>2, SubSeqFacts
  <2> QED BY <2>1, <2>2, <2>3
<1>3. /\ Sequence(b) /\ Len(b) = n - m
      /\ \A i \in 1 .. n - m : b[i] = t[m + i]
  <2>1. n \in 0 .. Len(t)
    BY <1>1
  <2> QED BY <2>1, SubSeqFacts
<1> HIDE DEF a, b
<1>4. ASSUME NEW i \in 1 .. n - m PROVE a[i] = b[i]
  <2>1. m + i \in m + 1 .. n /\ k + m + i = k + (m + i)
    OBVIOUS
  <2>2. s[k + (m + i)] = t[m + i]
    BY <2>1
  <2> QED BY <1>2, <1>3, <2>1, <2>2
<1> QED BY <1>2, <1>3, <1>4, SameSequence DEF a, b

LEMMA JoinedData ==
    ASSUME NEW w, NEW u, NEW q, Joined(w, u, q), NEW k \in Nat, k = Len(u)
    PROVE  /\ \A e \in 1 .. k : e \in DataLines(w) <=> e \in DataLines(u)
           /\ \A e \in 1 .. Len(q) : k + e \in DataLines(w) <=> e \in DataLines(q)
           /\ \A e \in DataLines(u) : Payload(w, e) = Payload(u, e)
           /\ \A e \in DataLines(q) : Payload(w, k + e) = Payload(q, e)
           /\ DataLines(w) \subseteq 1 .. k + Len(q)
<1>1. /\ Sequence(w) /\ Sequence(u) /\ Sequence(q) /\ Len(w) = k + Len(q)
      /\ \A i \in 1 .. k : w[i] = u[i]
      /\ \A i \in 1 .. Len(q) : w[k + i] = q[i]
  BY DEF Joined
<1>2. /\ \A e \in 1 .. k : e \in LineEnds(w) <=> e \in LineEnds(u)
      /\ \A e \in 1 .. Len(q) : k + e \in LineEnds(w) <=> e \in LineEnds(q)
      /\ \A e \in 1 .. k : LineStart(w, e) = LineStart(u, e)
      /\ \A e \in 1 .. Len(q) + 1 : LineStart(w, k + e) = k + LineStart(q, e)
      /\ Len(q) \in Nat
  BY JoinedLines
<1>3. ASSUME NEW e \in 1 .. k PROVE e \in DataLines(w) <=> e \in DataLines(u)
  <2>1. LineStart(u, e) \in 1 .. k
    <3>1. e \in 1 .. Len(u) + 1
      OBVIOUS
    <3>2. LineStart(u, e) \in 1 .. e
      BY <1>1, <3>1, LineStarts
    <3> QED BY <3>2
  <2>2. w[LineStart(w, e)] = u[LineStart(u, e)]
    BY <1>1, <1>2, <2>1
  <2> QED BY <1>2, <2>2 DEF DataLines
<1>4. ASSUME NEW e \in 1 .. Len(q) PROVE k + e \in DataLines(w) <=> e \in DataLines(q)
  <2>1. e \in 1 .. Len(q) + 1
    BY <1>2
  <2>2. LineStart(q, e) \in 1 .. e
    BY <1>1, <2>1, LineStarts
  <2>3. LineStart(q, e) \in 1 .. Len(q)
    BY <1>2, <2>2
  <2>4. LineStart(w, k + e) = k + LineStart(q, e)
    BY <1>2, <2>1
  <2>5. w[LineStart(w, k + e)] = q[LineStart(q, e)]
    BY <1>1, <2>3, <2>4
  <2> QED BY <1>2, <2>5 DEF DataLines
<1>5. ASSUME NEW e \in DataLines(u) PROVE Payload(w, e) = Payload(u, e)
  <2>1. e \in 1 .. k /\ LineStart(u, e) \in 1 .. e - 1
    BY <1>1, DataLineFacts
  <2>2. LineStart(w, e) = LineStart(u, e)
    BY <1>2, <2>1
  <2>3. PICK m \in Nat, n \in Nat : m = LineStart(u, e) /\ n = e - 1
    BY <2>1
  <2>4. m <= n /\ 0 + n <= Len(w) /\ n <= Len(u)
    BY <1>1, <1>2, <2>1, <2>3
  <2>5. \A i \in m + 1 .. n : w[0 + i] = u[i]
    BY <1>1, <2>1, <2>3
  <2>6. SubSeq(w, 0 + m + 1, 0 + n) = SubSeq(u, m + 1, n)
    BY <1>1, <2>4, <2>5, SameStretch
  <2>7. 0 + m + 1 = m + 1 /\ 0 + n = n
    OBVIOUS
  <2>8. SubSeq(w, m + 1, n) = SubSeq(u, m + 1, n)
    BY <2>6, <2>7
  <2> QED BY <2>2, <2>3, <2>8 DEF Payload
<1>6. ASSUME NEW e \in DataLines(q) PROVE Payload(w, k + e) = Payload(q, e)
  <2>1. e \in 1 .. Len(q) /\ LineStart(q, e) \in 1 .. e - 1
    BY <1>1, DataLineFacts
  <2>2. LineStart(w, k + e) = k + LineStart(q, e)
    <3>1. e \in 1 .. Len(q) + 1
      BY <1>2, <2>1
    <3> QED BY <1>2, <3>1
  <2>3. PICK m \in Nat, n \in Nat : m = LineStart(q, e) /\ n = e - 1
    BY <2>1
  <2>4. m <= n /\ k + n <= Len(w) /\ n <= Len(q)
    BY <1>1, <1>2, <2>1, <2>3
  <2>5. \A i \in m + 1 .. n : w[k + i] = q[i]
    BY <1>1, <1>2, <2>1, <2>3
  <2>6. SubSeq(w, k + m + 1, k + n) = SubSeq(q, m + 1, n)
    BY <1>1, <2>4, <2>5, SameStretch
  <2>7. LineStart(w, k + e) + 1 = k + m + 1 /\ (k + e) - 1 = k + n
    BY <2>1, <2>2, <2>3
  <2>8. Payload(w, k + e) = SubSeq(w, k + m + 1, k + n)
    <3>1. Payload(w, k + e) = SubSeq(w, LineStart(w, k + e) + 1, (k + e) - 1)
      BY Zenon DEF Payload
    <3> QED BY <2>7, <3>1, Zenon
  <2>9. Payload(q, e) = SubSeq(q, m + 1, n)
    BY <2>3 DEF Payload
  <2> QED BY <2>6, <2>8, <2>9
<1>7. DataLines(w) \subseteq 1 .. k + Len(q)
  BY <1>1, DataLineFacts
<1> QED BY <1>3, <1>4, <1>5, <1>6, <1>7

LEMMA JoinedRest ==
    ASSUME NEW w, NEW u, NEW q, Joined(w, u, q)
    PROVE  Rest(w) = Rest(q)
<1>1. /\ Sequence(w) /\ Sequence(u) /\ Sequence(q)
      /\ \A i \in 1 .. Len(q) : w[Len(u) + i] = q[i]
  BY DEF Joined
<1>2. PICK k \in Nat, n \in Nat : k = Len(u) /\ n = Len(q)
  BY <1>1, SequenceFacts
<1>3. Len(w) = k + n /\ LineStart(w, k + (n + 1)) = k + LineStart(q, n + 1)
  BY <1>2, JoinedLines
<1>4. n + 1 \in 1 .. Len(q) + 1
  BY <1>2
<1>5. LineStart(q, n + 1) \in 1 .. n + 1
  BY <1>1, <1>4, LineStarts
<1>6. PICK m \in Nat : m + 1 = LineStart(q, n + 1) /\ m <= n
  <2>1. LineStart(q, n + 1) - 1 \in Nat
    BY <1>5
  <2> QED BY <1>5, <2>1
<1>7. SubSeq(w, k + m + 1, k + n) = SubSeq(q, m + 1, n)
  <2>1. \A i \in m + 1 .. n : w[k + i] = q[i]
    BY <1>1, <1>2
  <2>2. k + n <= Len(w) /\ n <= Len(q)
    BY <1>2, <1>3
  <2> QED BY <1>1, <1>6, <2>1, <2>2, SameStretch
<1>8. LineStart(w, Len(w) + 1) = k + m + 1
  <2>1. k + (n + 1) = Len(w) + 1 /\ k + (m + 1) = k + m + 1
    BY <1>3
  <2> QED BY <1>3, <1>6, <2>1
<1> QED BY <1>2, <1>3, <1>6, <1>7, <1>8 DEF Rest

\* Which lines are heard, and at which positions.
LEMMA HeardFacts ==
    ASSUME NEW s, Sequence(s)
    PROVE  /\ TextAt(s) \in SUBSET Nat /\ IsFiniteSet(TextAt(s))
           /\ TextAt(s) \subseteq 1 .. Len(s) /\ Tokens(s) \subseteq DataLines(s)
           /\ \A i \in TextAt(s) : \E e \in Tokens(s) : LineStart(s, e) < i /\ i < e
<1>1. DOMAIN s = 1 .. Len(s) /\ Len(s) \in Nat
  BY SequenceFacts
<1>2. TextAt(s) \subseteq 1 .. Len(s) /\ IsFiniteSet(1 .. Len(s))
  BY <1>1, FS_Interval DEF TextAt
<1>3. IsFiniteSet(TextAt(s))
  BY <1>2, FS_Subset
<1>4. Tokens(s) \subseteq DataLines(s)
  BY DEF Tokens, Read
<1>5. ASSUME NEW i \in TextAt(s) PROVE \E e \in Tokens(s) : LineStart(s, e) < i /\ i < e
  <2>1. PICK e \in Tokens(s) : i \in LineStart(s, e) + 1 .. e - 1
    BY DEF TextAt
  <2>2. e \in 1 .. Len(s) /\ LineStart(s, e) \in 1 .. e - 1
    BY <1>4, DataLineFacts
  <2> QED BY <2>1, <2>2
<1> QED BY <1>1, <1>2, <1>3, <1>4, <1>5

LEMMA TextAtIs ==
    ASSUME NEW s, Sequence(s), NEW e \in Tokens(s), NEW i \in Nat, LineStart(s, e) < i, i < e
    PROVE  i \in TextAt(s)
<1>1. DOMAIN s = 1 .. Len(s) /\ Len(s) \in Nat
  BY SequenceFacts
<1>2. e \in 1 .. Len(s) /\ LineStart(s, e) \in 1 .. e - 1
  BY HeardFacts, DataLineFacts
<1>3. i \in DOMAIN s /\ i \in LineStart(s, e) + 1 .. e - 1
  BY <1>1, <1>2
<1> QED BY <1>3 DEF TextAt

\* The marker is where it was, and without one before, the tokens are those of both parts.
LEMMA JoinedMarkers ==
    ASSUME NEW w, NEW u, NEW q, Joined(w, u, q), NEW k \in Nat, k = Len(u)
    PROVE  /\ \A e \in 1 .. k : e \in Markers(w) <=> e \in Markers(u)
           /\ \A e \in 1 .. Len(q) : k + e \in Markers(w) <=> e \in Markers(q)
           /\ \A e \in 1 .. k : e \in Tokens(w) <=> e \in Tokens(u)
           /\ Markers(u) = {} =>
                \A e \in 1 .. Len(q) : k + e \in Tokens(w) <=> e \in Tokens(q)
           /\ Markers(u) # {} => \A e \in 1 .. Len(q) : k + e \notin Tokens(w)
<1>1. Sequence(w) /\ Sequence(u) /\ Sequence(q)
  BY DEF Joined
<1>2. PICK n \in Nat : n = Len(q)
  BY <1>1, SequenceFacts
<1>3. /\ \A e \in 1 .. k : e \in DataLines(w) <=> e \in DataLines(u)
      /\ \A e \in 1 .. n : k + e \in DataLines(w) <=> e \in DataLines(q)
      /\ \A e \in DataLines(u) : Payload(w, e) = Payload(u, e)
      /\ \A e \in DataLines(q) : Payload(w, k + e) = Payload(q, e)
      /\ DataLines(w) \subseteq 1 .. k + n
  <2>1. /\ \A e \in 1 .. k : e \in DataLines(w) <=> e \in DataLines(u)
        /\ \A e \in 1 .. Len(q) : k + e \in DataLines(w) <=> e \in DataLines(q)
        /\ \A e \in DataLines(u) : Payload(w, e) = Payload(u, e)
        /\ \A e \in DataLines(q) : Payload(w, k + e) = Payload(q, e)
        /\ DataLines(w) \subseteq 1 .. k + Len(q)
    BY JoinedData
  <2> QED BY <1>2, <2>1
<1>4. DataLines(u) \subseteq 1 .. k /\ DataLines(q) \subseteq 1 .. n
  BY <1>1, <1>2, DataLineFacts
<1>5. \A e \in 1 .. k : e \in Markers(w) <=> e \in Markers(u)
  BY <1>3 DEF Markers
<1>6. \A e \in 1 .. n : k + e \in Markers(w) <=> e \in Markers(q)
  BY <1>3 DEF Markers
<1>7. ASSUME NEW m \in Markers(w) PROVE m \in Markers(u) \/ \E j \in Markers(q) : m = k + j
  <2>1. m \in 1 .. k + n
    BY <1>3 DEF Markers
  <2>2. CASE m <= k
    BY <1>5, <2>1, <2>2
  <2>3. CASE ~(m <= k)
    <3>1. PICK j \in 1 .. n : m = k + j
      <4>1. m - k \in 1 .. n /\ m = k + (m - k)
        BY <2>1, <2>3
      <4> QED BY <4>1
    <3> QED BY <1>6, <3>1
  <2> QED BY <2>1, <2>2, <2>3
<1>8. Markers(u) \subseteq 1 .. k /\ Markers(q) \subseteq 1 .. n
  BY <1>4 DEF Markers
<1>9. ASSUME NEW e \in 1 .. k PROVE e \in Read(w) <=> e \in Read(u)
  <2>1. (\A m \in Markers(w) : e < m) <=> (\A m \in Markers(u) : e < m)
    <3>1. ASSUME NEW m \in Markers(w), \A l \in Markers(u) : e < l PROVE e < m
      <4>1. CASE m \in Markers(u)
        BY <3>1, <4>1
      <4>2. CASE \E j \in Markers(q) : m = k + j
        <5>1. PICK j \in 1 .. n : m = k + j
          BY <1>8, <4>2
        <5> QED BY <5>1
      <4> QED BY <1>7, <4>1, <4>2
    <3>2. ASSUME NEW m \in Markers(u) PROVE m \in Markers(w)
      BY <1>5, <1>8
    <3> QED BY <3>1, <3>2
  <2> QED BY <1>3, <2>1 DEF Read
<1>10. ASSUME Markers(u) = {}, NEW e \in 1 .. n PROVE k + e \in Read(w) <=> e \in Read(q)
  <2>1. (\A m \in Markers(w) : k + e < m) <=> (\A m \in Markers(q) : e < m)
    <3>1. ASSUME NEW m \in Markers(w), \A l \in Markers(q) : e < l PROVE k + e < m
      <4>1. PICK j \in Markers(q) : m = k + j
        BY <1>7, <1>10
      <4>2. j \in 1 .. n /\ e < j
        BY <1>8, <3>1, <4>1
      <4> QED BY <4>1, <4>2
    <3>2. ASSUME NEW m \in Markers(q), \A l \in Markers(w) : k + e < l PROVE e < m
      <4>1. m \in 1 .. n
        BY <1>8
      <4>2. k + m \in Markers(w)
        BY <1>6, <4>1
      <4>3. k + e < k + m
        BY <3>2, <4>2
      <4> QED BY <4>1, <4>3
    <3> QED BY <3>1, <3>2
  <2> QED BY <1>3, <2>1 DEF Read
<1>11. ASSUME NEW e \in 1 .. k PROVE e \in Tokens(w) <=> e \in Tokens(u)
  <2>1. e \in Read(w) => Payload(w, e) = Payload(u, e)
    <3>1. e \in Read(w) => e \in DataLines(u)
      BY <1>9 DEF Read
    <3> QED BY <1>3, <3>1
  <2> QED BY <1>9, <2>1 DEF Tokens, Ids
<1>12. ASSUME Markers(u) = {}, NEW e \in 1 .. n PROVE k + e \in Tokens(w) <=> e \in Tokens(q)
  <2>1. k + e \in Read(w) => Payload(w, k + e) = Payload(q, e)
    <3>1. k + e \in Read(w) => e \in DataLines(q)
      BY <1>10, <1>12 DEF Read
    <3> QED BY <1>3, <3>1
  <2>2. k + e \in Read(w) <=> e \in Read(q)
    BY <1>10, <1>12
  <2> QED BY <2>1, <2>2 DEF Tokens, Ids
<1>13. ASSUME Markers(u) # {}, NEW e \in 1 .. n PROVE k + e \notin Tokens(w)
  <2>1. PICK m \in Markers(u) : m \in 1 .. k
    BY <1>8, <1>13
  <2>2. m \in Markers(w) /\ ~(k + e < m)
    BY <1>5, <2>1
  <2>3. k + e \notin Read(w)
    BY <2>2 DEF Read
  <2> QED BY <2>3 DEF Tokens
<1> QED BY <1>2, <1>5, <1>6, <1>11, <1>12, <1>13

LEMMA JoinedHeard ==
    ASSUME NEW w, NEW u, NEW q, Joined(w, u, q)
    PROVE  /\ Markers(u) = {} => Heard(w) = Heard(u) \o Heard(q)
           /\ Markers(u) = {} => (Markers(w) = {} <=> Markers(q) = {})
           /\ Markers(u) # {} => Heard(w) = Heard(u) /\ Markers(w) # {}
<1>1. /\ Sequence(w) /\ Sequence(u) /\ Sequence(q)
      /\ \A i \in 1 .. Len(u) : w[i] = u[i]
      /\ \A i \in 1 .. Len(q) : w[Len(u) + i] = q[i]
  BY DEF Joined
<1>2. PICK k \in Nat, n \in Nat : k = Len(u) /\ n = Len(q)
  BY <1>1, SequenceFacts
<1>3. /\ Len(w) = k + n
      /\ \A e \in 1 .. k : LineStart(w, e) = LineStart(u, e)
      /\ \A e \in 1 .. n + 1 : LineStart(w, k + e) = k + LineStart(q, e)
  BY <1>2, JoinedLines
<1>4. /\ \A e \in 1 .. k : e \in Markers(w) <=> e \in Markers(u)
      /\ \A e \in 1 .. n : k + e \in Markers(w) <=> e \in Markers(q)
      /\ \A e \in 1 .. k : e \in Tokens(w) <=> e \in Tokens(u)
      /\ Markers(u) = {} => \A e \in 1 .. n : k + e \in Tokens(w) <=> e \in Tokens(q)
      /\ Markers(u) # {} => \A e \in 1 .. n : k + e \notin Tokens(w)
  BY <1>2, JoinedMarkers
<1>5. /\ DataLines(w) \subseteq 1 .. k + n /\ DataLines(u) \subseteq 1 .. k
      /\ DataLines(q) \subseteq 1 .. n
      /\ Tokens(w) \subseteq DataLines(w) /\ Tokens(u) \subseteq DataLines(u)
      /\ Tokens(q) \subseteq DataLines(q)
  BY <1>1, <1>2, <1>3, DataLineFacts, HeardFacts
<1>6. /\ TextAt(u) \in SUBSET Nat /\ IsFiniteSet(TextAt(u)) /\ TextAt(u) \subseteq 1 .. k
      /\ TextAt(q) \in SUBSET Nat /\ IsFiniteSet(TextAt(q)) /\ TextAt(q) \subseteq 1 .. n
      /\ TextAt(w) \subseteq 1 .. k + n
  BY <1>1, <1>2, <1>3, HeardFacts
<1>7. ASSUME NEW i \in TextAt(u) PROVE i \in TextAt(w)
  <2>1. PICK e \in Tokens(u) : LineStart(u, e) < i /\ i < e
    BY <1>1, HeardFacts
  <2>2. e \in 1 .. k
    BY <1>5
  <2>3. e \in Tokens(w) /\ LineStart(w, e) < i /\ i < e /\ i \in Nat
    BY <1>3, <1>4, <1>6, <2>1, <2>2
  <2> QED BY <1>1, <2>3, TextAtIs
<1>8. ASSUME NEW i \in TextAt(w), NEW e \in Tokens(w), LineStart(w, e) < i, i < e, e \in 1 .. k
      PROVE  i \in TextAt(u)
  <2>1. e \in Tokens(u) /\ LineStart(u, e) < i /\ i \in Nat
    BY <1>3, <1>4, <1>6, <1>8
  <2> QED BY <1>1, <1>8, <2>1, TextAtIs
<1>9. ASSUME NEW e \in Tokens(w), e \notin 1 .. k PROVE \E j \in 1 .. n : e = k + j
  <2>1. e \in 1 .. k + n
    BY <1>5
  <2>2. e - k \in 1 .. n /\ e = k + (e - k)
    BY <1>9, <2>1
  <2> QED BY <2>2
<1>10. Heard(u) = Selected(w, TextAt(u))
  <2>1. \A i \in TextAt(u) : w[i] = u[i]
    BY <1>1, <1>2, <1>6
  <2> QED BY <1>6, <2>1, SelectedSame DEF Heard
<1>11. ASSUME Markers(u) = {} PROVE Heard(w) = Heard(u) \o Heard(q)
  <2> DEFINE D == Moved(TextAt(q), k)
  <2>1. /\ D \in SUBSET Nat /\ IsFiniteSet(D)
        /\ \A d : d \in D <=> \E i \in TextAt(q) : d = k + i
    BY <1>6, MovedFacts
  <2> HIDE DEF D
  <2>2. ASSUME NEW i \in TextAt(w) PROVE i \in TextAt(u) \cup D
    <3>1. PICK e \in Tokens(w) : LineStart(w, e) < i /\ i < e
      BY <1>1, HeardFacts
    <3>2. CASE e \in 1 .. k
      BY <1>8, <3>1, <3>2
    <3>3. CASE e \notin 1 .. k
      <4>1. PICK j \in 1 .. n : e = k + j
        BY <1>9, <3>3
      <4>2. j \in Tokens(q)
        BY <1>4, <1>11, <4>1
      <4>3. LineStart(w, e) = k + LineStart(q, j) /\ LineStart(q, j) \in 1 .. j - 1
        <5>1. j \in 1 .. n + 1
          OBVIOUS
        <5>2. j \in DataLines(q)
          BY <1>5, <4>2
        <5> QED BY <1>1, <1>3, <4>1, <5>1, <5>2, DataLineFacts
      <4>4. PICK h \in Nat : i = k + h /\ LineStart(q, j) < h /\ h < j
        <5>1. i \in Nat /\ k + LineStart(q, j) < i /\ i < k + j
          BY <1>6, <3>1, <4>1, <4>3
        <5>2. i - k \in Nat /\ i = k + (i - k) /\ LineStart(q, j) < i - k /\ i - k < j
          BY <4>3, <5>1
        <5> QED BY <5>2
      <4>5. h \in TextAt(q)
        BY <1>1, <4>2, <4>4, TextAtIs
      <4> QED BY <2>1, <4>4, <4>5
    <3> QED BY <3>2, <3>3
  <2>3. ASSUME NEW i \in TextAt(q) PROVE k + i \in TextAt(w)
    <3>1. PICK j \in Tokens(q) : LineStart(q, j) < i /\ i < j
      BY <1>1, HeardFacts
    <3>2. j \in 1 .. n /\ LineStart(q, j) \in 1 .. j - 1 /\ i \in Nat
      BY <1>1, <1>2, <1>5, <1>6, DataLineFacts
    <3>3. j \in 1 .. n + 1
      BY <3>2
    <3>4. PICK e : e = k + j
      OBVIOUS
    <3>5. e \in Tokens(w) /\ LineStart(w, e) = k + LineStart(q, j)
      BY <1>3, <1>4, <1>11, <3>2, <3>3, <3>4
    <3>6. PICK h \in Nat : h = k + i
      BY <3>2
    <3>7. LineStart(w, e) < h /\ h < e
      BY <3>1, <3>2, <3>4, <3>5, <3>6
    <3>8. h \in TextAt(w)
      BY <1>1, <3>5, <3>7, TextAtIs
    <3> QED BY <3>6, <3>8
  <2>4. TextAt(w) = TextAt(u) \cup D
    BY <1>7, <2>1, <2>2, <2>3
  <2>5. \A a \in TextAt(u) : \A d \in D : a < d
    BY <1>6, <2>1
  <2>6. Selected(w, TextAt(u) \cup D) = Selected(w, TextAt(u)) \o Selected(w, D)
    BY <1>6, <2>1, <2>5, SelectedJoined
  <2>7. Selected(w, D) = Heard(q)
    <3>1. \A i \in TextAt(q) : w[k + i] = q[i]
      BY <1>1, <1>2, <1>6
    <3> QED BY <1>6, <3>1, SelectedShifted DEF Heard, D
  <2> QED BY <1>10, <2>4, <2>6, <2>7 DEF Heard
<1>12. ASSUME Markers(u) # {} PROVE Heard(w) = Heard(u)
  <2>1. ASSUME NEW i \in TextAt(w) PROVE i \in TextAt(u)
    <3>1. PICK e \in Tokens(w) : LineStart(w, e) < i /\ i < e
      BY <1>1, HeardFacts
    <3>2. e \in 1 .. k
      BY <1>4, <1>9, <1>12
    <3> QED BY <1>8, <3>1, <3>2
  <2>2. TextAt(w) = TextAt(u)
    BY <1>7, <2>1
  <2> QED BY <1>10, <2>2 DEF Heard
<1>13. Markers(u) = {} => (Markers(w) = {} <=> Markers(q) = {})
  <2>1. Markers(w) \subseteq 1 .. k + n /\ Markers(u) \subseteq 1 .. k /\ Markers(q) \subseteq 1 .. n
    BY <1>5 DEF Markers
  <2>2. ASSUME NEW e \in Markers(w), Markers(u) = {} PROVE Markers(q) # {}
    <3>1. e \in 1 .. k + n /\ e \notin 1 .. k
      BY <1>4, <2>1, <2>2
    <3>2. e - k \in 1 .. n /\ e = k + (e - k)
      BY <3>1
    <3>3. PICK j \in 1 .. n : e = k + j
      BY <3>2
    <3> QED BY <1>4, <3>3
  <2>3. ASSUME NEW e \in Markers(q) PROVE Markers(w) # {}
    BY <1>4, <2>1
  <2> QED BY <2>2, <2>3
<1>14. Markers(u) # {} => Markers(w) # {}
  <2>1. Markers(u) \subseteq 1 .. k
    BY <1>5 DEF Markers
  <2> QED BY <1>4, <2>1
<1> QED BY <1>11, <1>12, <1>13, <1>14

\* A text is its complete lines and what follows them.
LEMMA LastLine ==
    ASSUME NEW p, Sequence(p)
    PROVE  \E u : /\ Joined(p, u, Rest(p)) /\ LineEnds(Rest(p)) = {}
                  /\ Len(u) + 1 = LineStart(p, Len(p) + 1)
                  /\ Rest(p) = SubSeq(p, Len(u) + 1, Len(p))
<1>1. PICK n \in Nat : n = Len(p)
  BY SequenceFacts
<1>2. PICK k \in Nat : k + 1 = LineStart(p, Len(p) + 1) /\ k <= n
  <2>1. n + 1 \in 1 .. Len(p) + 1
    BY <1>1
  <2>2. LineStart(p, n + 1) \in 1 .. n + 1
    BY <2>1, LineStarts
  <2>3. LineStart(p, n + 1) - 1 \in Nat
    BY <2>2
  <2> QED BY <1>1, <2>2, <2>3
<1>3. /\ \A i \in LineEnds(p) : i < k + 1
      /\ k = 0 \/ k \in LineEnds(p)
  <2>1. n + 1 \in 1 .. Len(p) + 1
    BY <1>1
  <2>2. PICK m : m = LineStart(p, n + 1)
    OBVIOUS
  <2>3. /\ \A i \in LineEnds(p) : i < n + 1 => i < m
        /\ m = 1 \/ m - 1 \in LineEnds(p)
    BY <2>1, <2>2, LineStarts
  <2>4. m = k + 1
    BY <1>1, <1>2, <2>2
  <2>5. \A i \in LineEnds(p) : i \in 1 .. n
    BY <1>1, LineEndFacts
  <2>6. \A i \in LineEnds(p) : i < k + 1
    BY <2>3, <2>4, <2>5
  <2>7. k = 0 \/ k \in LineEnds(p)
    BY <2>3, <2>4
  <2> QED BY <2>6, <2>7
<1> DEFINE u == SubSeq(p, 1, k)
           r == SubSeq(p, k + 1, n)
<1>4. Sequence(u) /\ Len(u) = k /\ \A i \in 1 .. k : u[i] = p[i]
  <2>1. k \in 0 .. Len(p) /\ 0 \in Nat /\ 0 <= k
    BY <1>1, <1>2
  <2>2. /\ Sequence(SubSeq(p, 0 + 1, k)) /\ Len(SubSeq(p, 0 + 1, k)) = k - 0
        /\ \A i \in 1 .. k - 0 : SubSeq(p, 0 + 1, k)[i] = p[0 + i]
    BY <2>1, SubSeqFacts
  <2>3. k - 0 = k /\ 0 + 1 = 1 /\ \A i \in 1 .. k : 0 + i = i
    OBVIOUS
  <2> QED BY <2>2, <2>3
<1>5. Sequence(r) /\ Len(r) = n - k /\ \A i \in 1 .. n - k : r[i] = p[k + i]
  <2>1. n \in 0 .. Len(p)
    BY <1>1
  <2> QED BY <1>2, <2>1, SubSeqFacts
<1>6. Rest(p) = r
  BY <1>1, <1>2 DEF Rest
<1> HIDE DEF u, r
<1>7. LineEnds(r) = {}
  <2> SUFFICES ASSUME NEW e \in LineEnds(r) PROVE FALSE
    OBVIOUS
  <2>1. e \in 1 .. n - k /\ r[e] = NL
    BY <1>5, LineEndFacts
  <2>2. PICK i \in 1 .. n : i = k + e /\ k < i
    BY <1>2, <2>1
  <2>3. p[i] = NL
    BY <1>5, <2>1, <2>2
  <2>4. i \in LineEnds(p)
    BY <1>1, <2>3, LineEndFacts
  <2> QED BY <1>3, <2>2, <2>4
<1>8. k = 0 \/ u[k] = NL
  <2>1. ASSUME k \in LineEnds(p) PROVE u[k] = NL
    <3>1. k \in 1 .. Len(p) /\ p[k] = NL
      BY <2>1, LineEndFacts
    <3>2. k \in 1 .. k
      BY <3>1
    <3> QED BY <1>4, <3>1, <3>2
  <2> QED BY <1>3, <2>1
<1>9. Joined(p, u, r)
  <2>1. Len(p) = Len(u) + Len(r)
    BY <1>1, <1>2, <1>4, <1>5
  <2>2. \A i \in 1 .. Len(u) : p[i] = u[i]
    BY <1>4
  <2>3. \A i \in 1 .. Len(r) : p[Len(u) + i] = r[i]
    BY <1>4, <1>5
  <2> QED BY <1>4, <1>5, <1>8, <2>1, <2>2, <2>3 DEF Joined
<1>10. Len(u) + 1 = LineStart(p, Len(p) + 1) /\ Rest(p) = SubSeq(p, Len(u) + 1, Len(p))
  BY <1>1, <1>2, <1>4, <1>6 DEF r
<1> QED BY <1>6, <1>7, <1>9, <1>10

LEMMA NothingSelected ==
    ASSUME NEW s
    PROVE  Selected(s, {}) = <<>>
<1>1. Sequence(Selected(s, {})) /\ Len(Selected(s, {})) = 0
  BY SelectedFacts, FS_EmptySet
<1> QED BY <1>1, SequenceFacts

LEMMA HeardSequence ==
    ASSUME NEW s, Sequence(s)
    PROVE  Sequence(Heard(s))
  BY HeardFacts, SelectedFacts DEF Heard

\* Nothing is heard of an incomplete line.
LEMMA UnfinishedLine ==
    ASSUME NEW s, LineEnds(s) = {}
    PROVE  Heard(s) = <<>> /\ Markers(s) = {}
<1>1. DataLines(s) = {}
  BY DEF DataLines
<1>2. Markers(s) = {} /\ Tokens(s) = {}
  BY <1>1 DEF Markers, Tokens, Read
<1>3. TextAt(s) = {}
  BY <1>2 DEF TextAt
<1> QED BY <1>2, <1>3, NothingSelected DEF Heard

LEMMA ConcatNothing ==
    ASSUME NEW s, Sequence(s)
    PROVE  s \o <<>> = s /\ <<>> \o s = s
<1>1. s \in Seq({s[i] : i \in DOMAIN s})
  BY DEF Sequence
<1> QED BY <1>1

\* The next chunk c of a text whose first part is p.
LEMMA HeardOn ==
    ASSUME NEW p, Sequence(p), NEW c, Sequence(c)
    PROVE  /\ Rest(p \o c) = Rest(Rest(p) \o c)
           /\ Markers(p) = {} =>
                /\ Heard(p \o c) = Heard(p) \o Heard(Rest(p) \o c)
                /\ Markers(p \o c) = {} <=> Markers(Rest(p) \o c) = {}
           /\ Markers(p) # {} => Heard(p \o c) = Heard(p)
<1>1. PICK u : Joined(p, u, Rest(p)) /\ LineEnds(Rest(p)) = {}
  BY LastLine
<1>2. PICK r : r = Rest(p)
  OBVIOUS
<1>3. /\ Sequence(u) /\ Sequence(r) /\ Len(p) = Len(u) + Len(r)
      /\ \A i \in 1 .. Len(u) : p[i] = u[i]
      /\ \A i \in 1 .. Len(r) : p[Len(u) + i] = r[i]
      /\ Len(u) = 0 \/ u[Len(u)] = NL
  BY <1>1, <1>2 DEF Joined
<1>4. PICK k \in Nat, n \in Nat, l \in Nat : k = Len(u) /\ n = Len(r) /\ l = Len(c)
  BY <1>3, SequenceFacts
<1>5. PICK w, q : w = p \o c /\ q = r \o c
  OBVIOUS
<1>6. /\ Sequence(w) /\ Len(w) = k + n + l
      /\ \A i \in 1 .. k + n : w[i] = p[i]
      /\ \A i \in 1 .. l : w[k + n + i] = c[i]
  <2>1. /\ Sequence(w) /\ Len(w) = Len(p) + Len(c)
        /\ \A i \in 1 .. Len(p) : w[i] = p[i]
        /\ \A i \in 1 .. Len(c) : w[Len(p) + i] = c[i]
    BY <1>5, ConcatFacts
  <2>2. Len(p) = k + n /\ Len(c) = l
    BY <1>3, <1>4
  <2> QED BY <2>1, <2>2
<1>7. /\ Sequence(q) /\ Len(q) = n + l
      /\ \A i \in 1 .. n : q[i] = r[i]
      /\ \A i \in 1 .. l : q[n + i] = c[i]
  BY <1>3, <1>4, <1>5, ConcatFacts
<1>8. Joined(w, u, q)
  <2>1. Len(w) = Len(u) + Len(q)
    BY <1>4, <1>6, <1>7
  <2>2. \A i \in 1 .. Len(u) : w[i] = u[i]
    BY <1>3, <1>4, <1>6
  <2>3. ASSUME NEW i \in 1 .. n + l PROVE w[k + i] = q[i]
    <3>1. CASE i \in 1 .. n
      <4>1. k + i \in 1 .. k + n
        BY <3>1
      <4>2. w[k + i] = p[k + i]
        BY <1>6, <4>1
      <4> QED BY <1>3, <1>4, <1>7, <3>1, <4>2
    <3>2. CASE i \notin 1 .. n
      <4>1. PICK j \in 1 .. l : i = n + j
        <5>1. i - n \in 1 .. l /\ i = n + (i - n)
          BY <3>2
        <5> QED BY <5>1
      <4>2. k + i = k + n + j
        BY <4>1
      <4> QED BY <1>6, <1>7, <4>1, <4>2
    <3> QED BY <3>1, <3>2
  <2> QED BY <1>3, <1>4, <1>6, <1>7, <2>1, <2>2, <2>3 DEF Joined
<1>9. /\ Markers(u) = {} => Heard(w) = Heard(u) \o Heard(q)
      /\ Markers(u) = {} => (Markers(w) = {} <=> Markers(q) = {})
      /\ Markers(u) # {} => Heard(w) = Heard(u)
      /\ Rest(w) = Rest(q)
  BY <1>8, JoinedHeard, JoinedRest
<1>10. /\ Markers(u) = {} <=> Markers(p) = {}
       /\ Heard(p) = Heard(u)
  <2>1. Heard(r) = <<>> /\ Markers(r) = {}
    BY <1>1, <1>2, UnfinishedLine
  <2>2. /\ Markers(u) = {} => Heard(p) = Heard(u) \o Heard(r)
        /\ Markers(u) = {} => (Markers(p) = {} <=> Markers(r) = {})
        /\ Markers(u) # {} => Heard(p) = Heard(u) /\ Markers(p) # {}
    BY <1>1, <1>2, JoinedHeard
  <2>3. Heard(u) \o <<>> = Heard(u)
    BY <1>3, HeardSequence, ConcatNothing
  <2> QED BY <2>1, <2>2, <2>3
<1> QED BY <1>2, <1>5, <1>9, <1>10

\* A part of a text and what follows it in a longer part.
LEMMA PartOf ==
    ASSUME NEW s, Sequence(s), NEW m \in Nat, NEW n \in Nat, NEW l \in Nat,
           m <= n, n <= l, l <= Len(s)
    PROVE  SubSeq(s, m + 1, n) \o SubSeq(s, n + 1, l) = SubSeq(s, m + 1, l)
<1> DEFINE a == SubSeq(s, m + 1, n)
           b == SubSeq(s, n + 1, l)
           c == SubSeq(s, m + 1, l)
<1>1. n \in 0 .. Len(s) /\ l \in 0 .. Len(s) /\ m <= l
  BY SequenceFacts
<1>2. Sequence(a) /\ Len(a) = n - m /\ \A i \in 1 .. n - m : a[i] = s[m + i]
  BY <1>1, SubSeqFacts
<1>3. Sequence(b) /\ Len(b) = l - n /\ \A i \in 1 .. l - n : b[i] = s[n + i]
  BY <1>1, SubSeqFacts
<1>4. Sequence(c) /\ Len(c) = l - m /\ \A i \in 1 .. l - m : c[i] = s[m + i]
  BY <1>1, SubSeqFacts
<1>5. PICK x \in Nat, y \in Nat : x = n - m /\ y = l - n
  OBVIOUS
<1> HIDE DEF a, b, c
<1>6. /\ Sequence(a \o b) /\ Len(a \o b) = x + y
      /\ \A i \in 1 .. x : (a \o b)[i] = a[i]
      /\ \A i \in 1 .. y : (a \o b)[x + i] = b[i]
  <2>1. /\ Sequence(a \o b) /\ Len(a \o b) = Len(a) + Len(b)
        /\ \A i \in 1 .. Len(a) : (a \o b)[i] = a[i]
        /\ \A i \in 1 .. Len(b) : (a \o b)[Len(a) + i] = b[i]
    <3>1. Sequence(a) /\ Sequence(b)
      BY <1>2, <1>3
    <3> QED BY <3>1, ConcatFacts
  <2>2. Len(a) = x /\ Len(b) = y
    BY <1>2, <1>3, <1>5
  <2> QED BY <2>1, <2>2
<1>7. Len(a \o b) = Len(c) /\ Len(c) = x + y
  BY <1>4, <1>5, <1>6
<1>8. ASSUME NEW i \in 1 .. x + y PROVE (a \o b)[i] = c[i]
  <2>1. CASE i \in 1 .. x
    <3>1. i \in 1 .. l - m
      BY <1>5
    <3> QED BY <1>2, <1>4, <1>5, <1>6, <2>1, <3>1
  <2>2. CASE i \notin 1 .. x
    <3>1. PICK j \in 1 .. y : i = x + j
      <4>1. i - x \in 1 .. y /\ i = x + (i - x)
        BY <2>2
      <4> QED BY <4>1
    <3>2. (a \o b)[i] = s[n + j]
      BY <1>3, <1>5, <1>6, <3>1
    <3>3. i \in 1 .. l - m /\ m + i = n + j
      BY <1>5, <3>1
    <3>4. c[i] = s[m + i]
      BY <1>4, <3>3
    <3> QED BY <3>2, <3>3, <3>4
  <2> QED BY <2>1, <2>2
<1>9. \A i \in 1 .. Len(a \o b) : (a \o b)[i] = c[i]
  BY <1>7, <1>8
<1> QED BY <1>4, <1>6, <1>7, <1>9, SameSequence DEF a, b, c

LEMMA TypedSequence ==
    ASSUME NEW S, NEW s \in Seq(S)
    PROVE  Sequence(s)
<1>1. Len(s) \in Nat /\ s = [i \in 1 .. Len(s) |-> s[i]]
  OBVIOUS
<1> QED BY <1>1, SequenceOf

Pieces == Said \cup {Data, Done, Session, NL}

LEMMA PieceSequences ==
    /\ <<Data>> \in Seq(Pieces) /\ <<Done>> \in Seq(Pieces) /\ <<Session>> \in Seq(Pieces)
    /\ <<NL, NL>> \in Seq(Pieces)
<1>1. Data \in Pieces /\ Done \in Pieces /\ Session \in Pieces /\ NL \in Pieces
  BY DEF Pieces
<1>2. \A S : \A a \in S : <<a>> \in Seq(S) /\ <<a, a>> \in Seq(S)
  OBVIOUS
<1> QED BY <1>1, <1>2

\* The events of a list of tokens, one after the other.
LEMMA EventsTyped ==
    ASSUME NEW tokens \in Seq(Seq(Pieces))
    PROVE  FlattenSeq([i \in DOMAIN tokens |-> Event(tokens[i])]) \in Seq(Pieces)
<1> DEFINE events == [i \in DOMAIN tokens |-> Event(tokens[i])]
           n == Len(tokens)
<1>1. n \in Nat /\ DOMAIN tokens = 1 .. n /\ \A i \in 1 .. n : tokens[i] \in Seq(Pieces)
  OBVIOUS
<1>2. ASSUME NEW token \in Seq(Pieces) PROVE Event(token) \in Seq(Pieces)
  BY PieceSequences DEF Event
<1>3. \A i \in 1 .. n : events[i] \in Seq(Pieces)
  BY <1>1, <1>2
<1>4. events \in Seq(Seq(Pieces)) /\ Len(events) = n
  <2> DEFINE e == [i \in 1 .. n |-> Event(tokens[i])]
  <2>1. events = e
    BY <1>1
  <2>2. e \in Seq(Seq(Pieces)) /\ Len(e) = n
    BY <1>1, <1>2
  <2> QED BY <2>1, <2>2
<1> HIDE DEF events
<1>5. CASE n = 0
  <2>1. Len(events) = 0
    BY <1>4, <1>5
  <2>2. FlattenSeq(events) = events
    BY <2>1 DEF FlattenSeq
  <2>3. events \in Seq(Pieces)
    BY <1>4, <2>1
  <2> QED BY <2>2, <2>3 DEF events
<1>6. CASE n # 0
  <2>1. Len(events) \in Nat \ {0} /\ events[1] \in Seq(Pieces)
    BY <1>1, <1>3, <1>4, <1>6
  <2>2. \A i \in 2 .. Len(events) : \A t \in Seq(Pieces) : t \o events[i] \in Seq(Pieces)
    BY <1>1, <1>3, <1>4
  <2>3. FlattenSeq(events) \in Seq(Pieces)
    BY <2>1, <2>2, FlattenIn
  <2> QED BY <2>3 DEF events
<1> QED BY <1>5, <1>6

LEMMA BodiesAreSequences ==
    ASSUME NEW body \in Bodies
    PROVE  Sequence(body)
<1>1. PICK tokens \in Answers, first \in {<<>>, <<<<Session>>>>} : body = Body(first, tokens)
  BY DEF Bodies, AnalysisBody, ChatBody
<1>2. tokens \in Seq(Seq(Pieces))
  <2>1. tokens \in Seq(Seq(Said))
    BY AIAssumption
  <2>2. \A i \in 1 .. Len(tokens) : tokens[i] \in Seq(Pieces)
    <3> TAKE i \in 1 .. Len(tokens)
    <3>1. tokens[i] \in Seq(Said) /\ Said \subseteq Pieces
      BY <2>1 DEF Pieces
    <3>2. \A S, T : \A t \in Seq(S) : S \subseteq T => t \in Seq(T)
      OBVIOUS
    <3> QED BY <3>1, <3>2
  <2> QED BY <2>1, <2>2
<1>3. first \in Seq(Seq(Pieces))
  <2>1. \A S : \A a \in S : <<a>> \in Seq(S) /\ <<>> \in Seq(S)
    OBVIOUS
  <2>2. <<<<Session>>>> \in Seq(Seq(Pieces)) /\ <<>> \in Seq(Seq(Pieces))
    BY <2>1, PieceSequences
  <2> QED BY <1>1, <2>2
<1>4. Event(<<Done>>) \in Seq(Pieces)
  BY PieceSequences DEF Event
<1>5. PICK a, b, c : /\ a = FlattenSeq([i \in DOMAIN first |-> Event(first[i])])
                     /\ b = FlattenSeq([i \in DOMAIN tokens |-> Event(tokens[i])])
                     /\ c = Event(<<Done>>)
  OBVIOUS
<1>6. a \in Seq(Pieces) /\ b \in Seq(Pieces) /\ c \in Seq(Pieces)
  BY <1>2, <1>3, <1>4, <1>5, EventsTyped
<1>7. a \o b \o c \in Seq(Pieces)
  BY <1>6
<1>8. body = a \o b \o c
  BY <1>1, <1>5 DEF Body
<1> QED BY <1>7, <1>8, TypedSequence

\* The first n pieces of a body.
LEMMA BodyParts ==
    ASSUME NEW body \in Bodies, NEW n \in 0 .. Len(body)
    PROVE  /\ Sequence(SubSeq(body, 1, n)) /\ Len(SubSeq(body, 1, n)) = n
           /\ HeardBy[body][n] = Heard(SubSeq(body, 1, n))
           /\ Len(body) \in Nat
<1>1. Sequence(body) /\ Len(body) \in Nat
  BY BodiesAreSequences, SequenceFacts
<1>2. /\ Sequence(SubSeq(body, 0 + 1, n)) /\ Len(SubSeq(body, 0 + 1, n)) = n - 0
  BY <1>1, SubSeqFacts
<1>3. 0 + 1 = 1 /\ n - 0 = n
  BY <1>1
<1>4. HeardBy[body] = [m \in 0 .. Len(body) |-> Heard(SubSeq(body, 1, m))]
  BY DEF HeardBy
<1>5. HeardBy[body][n] = Heard(SubSeq(body, 1, n))
  BY <1>4
<1> QED BY <1>1, <1>2, <1>3, <1>5

\* The buffer and the next chunk are a part of the body.
LEMMA BufferedPart ==
    ASSUME NEW body \in Bodies, NEW at \in 0 .. Len(body), NEW n \in at .. Len(body)
    PROVE  /\ SubSeq(body, 1, at) \o SubSeq(body, at + 1, n) = SubSeq(body, 1, n)
           /\ Sequence(SubSeq(body, at + 1, n))
           /\ \E m \in 1 .. Len(body) + 1 :
                 Rest(SubSeq(body, 1, at)) \o SubSeq(body, at + 1, n) = SubSeq(body, m, n)
<1>1. Sequence(body) /\ Len(body) \in Nat /\ n \in 0 .. Len(body)
  BY BodiesAreSequences, SequenceFacts
<1>2. SubSeq(body, 1, at) \o SubSeq(body, at + 1, n) = SubSeq(body, 1, n)
  <2>1. SubSeq(body, 0 + 1, at) \o SubSeq(body, at + 1, n) = SubSeq(body, 0 + 1, n)
    BY <1>1, PartOf
  <2>2. 0 + 1 = 1
    OBVIOUS
  <2> QED BY <2>1, <2>2
<1>3. Sequence(SubSeq(body, at + 1, n))
  BY <1>1, SubSeqFacts
<1>4. PICK p : p = SubSeq(body, 1, at)
  OBVIOUS
<1>5. Sequence(p) /\ Len(p) = at
  BY <1>4, BodyParts
<1>6. PICK u : /\ Joined(p, u, Rest(p)) /\ Rest(p) = SubSeq(p, Len(u) + 1, Len(p))
  BY <1>5, LastLine
<1>7. PICK k \in Nat : k = Len(u) /\ k <= at
  <2>1. /\ Sequence(u) /\ Sequence(Rest(p)) /\ Len(p) = Len(u) + Len(Rest(p))
    BY <1>6 DEF Joined
  <2>2. Len(u) \in Nat /\ Len(Rest(p)) \in Nat
    BY <2>1, SequenceFacts
  <2> QED BY <1>5, <2>1, <2>2
<1>8. SubSeq(p, k + 1, at) = SubSeq(body, k + 1, at)
  <2>1. \A i \in 1 .. at : p[i] = body[i]
    <3>1. /\ \A i \in 1 .. at - 0 : SubSeq(body, 0 + 1, at)[i] = body[0 + i]
      BY <1>1, SubSeqFacts
    <3>2. 0 + 1 = 1 /\ at - 0 = at /\ \A i \in 1 .. at : 0 + i = i
      OBVIOUS
    <3> QED BY <1>4, <3>1, <3>2
  <2>2. \A i \in k + 1 .. at : p[0 + i] = body[i]
    BY <1>7, <2>1
  <2>3. at \in Nat /\ 0 + at <= Len(p) /\ at <= Len(body)
    BY <1>1, <1>5
  <2>4. SubSeq(p, 0 + k + 1, 0 + at) = SubSeq(body, k + 1, at)
    BY <1>1, <1>5, <1>7, <2>2, <2>3, SameStretch
  <2>5. 0 + k + 1 = k + 1 /\ 0 + at = at
    OBVIOUS
  <2> QED BY <2>4, <2>5
<1>9. Rest(p) = SubSeq(body, k + 1, at)
  BY <1>5, <1>6, <1>7, <1>8
<1>10. SubSeq(body, k + 1, at) \o SubSeq(body, at + 1, n) = SubSeq(body, k + 1, n)
  <2>1. at \in Nat /\ n \in Nat /\ k <= at /\ at <= n /\ n <= Len(body)
    BY <1>1, <1>7
  <2> QED BY <1>1, <2>1, PartOf
<1>11. k + 1 \in 1 .. Len(body) + 1
  BY <1>1, <1>7
<1> QED BY <1>2, <1>3, <1>4, <1>9, <1>10, <1>11

\* What a chunk brings: what is heard goes on to be what a reader of the body up to
\* there hears, and the marker is seen when it is there.
Chunk(body, at, n) == Feed(Rest(SubSeq(body, 1, at)), SubSeq(body, at + 1, n))

LEMMA ChunkRead ==
    ASSUME NEW body \in Bodies, NEW at \in 0 .. Len(body), NEW n \in at .. Len(body),
           Markers(SubSeq(body, 1, at)) = {}
    PROVE  /\ HeardBy[body][at] \o Chunk(body, at, n).text = HeardBy[body][n]
           /\ Chunk(body, at, n).done = (Markers(SubSeq(body, 1, n)) # {})
           /\ Chunk(body, at, n).buffer = Rest(SubSeq(body, 1, n))
           /\ Markers(SubSeq(body, 1, n)) # {} => HeardBy[body][n] = HeardBy[body][Len(body)]
<1>1. Sequence(body) /\ Len(body) \in Nat /\ n \in 0 .. Len(body)
  BY BodiesAreSequences, SequenceFacts
<1>2. PICK p, c, w, q, fed :
          /\ p = SubSeq(body, 1, at) /\ c = SubSeq(body, at + 1, n)
          /\ w = SubSeq(body, 1, n) /\ q = Rest(SubSeq(body, 1, at)) \o c
          /\ fed = Chunk(body, at, n)
  OBVIOUS
<1>3. Sequence(p) /\ Sequence(c) /\ Sequence(w) /\ p \o c = w
  BY <1>1, <1>2, BodyParts, BufferedPart
<1>4. fed = Took(q)
  <2>1. q \in UNION {{SubSeq(b, l, m) : l \in 1 .. Len(b) + 1, m \in 0 .. Len(b)} : b \in Bodies}
    <3>1. PICK l \in 1 .. Len(body) + 1 : q = SubSeq(body, l, n)
      BY <1>2, BufferedPart
    <3>2. q \in {SubSeq(body, i, m) : i \in 1 .. Len(body) + 1, m \in 0 .. Len(body)}
      BY <1>1, <3>1
    <3> QED BY <3>2
  <2>2. TookOf[q] = Took(q)
    BY <2>1 DEF TookOf
  <2> QED BY <1>2, <2>2 DEF Feed, Chunk
<1>5. /\ fed.buffer = Rest(q) /\ fed.text = Heard(q) /\ fed.done = (Markers(q) # {})
  BY <1>4 DEF Took
<1>6. /\ Rest(w) = Rest(q)
      /\ Heard(w) = Heard(p) \o Heard(q)
      /\ Markers(w) = {} <=> Markers(q) = {}
  <2>1. q = Rest(p) \o c /\ Markers(p) = {}
    BY <1>2
  <2>2. /\ Rest(p \o c) = Rest(Rest(p) \o c)
        /\ Heard(p \o c) = Heard(p) \o Heard(Rest(p) \o c)
        /\ Markers(p \o c) = {} <=> Markers(Rest(p) \o c) = {}
    BY <1>3, <2>1, HeardOn
  <2> QED BY <1>3, <2>1, <2>2
<1>7. HeardBy[body][at] = Heard(p) /\ HeardBy[body][n] = Heard(w)
  BY <1>1, <1>2, BodyParts
<1>8. ASSUME Markers(w) # {} PROVE Heard(w) = HeardBy[body][Len(body)]
  <2>1. Len(body) \in n .. Len(body) /\ Len(body) \in 0 .. Len(body)
    BY <1>1
  <2>2. PICK d : d = SubSeq(body, n + 1, Len(body)) /\ Sequence(d) /\ w \o d = SubSeq(body, 1, Len(body))
    BY <1>1, <1>2, <2>1, BufferedPart
  <2>3. Heard(w \o d) = Heard(w)
    BY <1>3, <1>8, <2>2, HeardOn
  <2>4. HeardBy[body][Len(body)] = Heard(SubSeq(body, 1, Len(body)))
    BY <2>1, BodyParts
  <2> QED BY <2>2, <2>3, <2>4
<1> QED BY <1>2, <1>5, <1>6, <1>7, <1>8

\* A call that has read nothing yet.
LEMMA NothingRead ==
    ASSUME NEW body \in Bodies
    PROVE  /\ 0 \in 0 .. Len(body) /\ HeardBy[body][0] = <<>>
           /\ Rest(SubSeq(body, 1, 0)) = <<>> /\ Markers(SubSeq(body, 1, 0)) = {}
<1>1. Len(body) \in Nat /\ 0 \in 0 .. Len(body)
  BY BodiesAreSequences, SequenceFacts
<1>2. PICK p : p = SubSeq(body, 1, 0)
  OBVIOUS
<1>3. Sequence(p) /\ Len(p) = 0 /\ p = <<>>
  BY <1>1, <1>2, BodyParts, SequenceFacts
<1>4. LineEnds(p) = {}
  BY <1>3, LineEndFacts
<1>5. Heard(p) = <<>> /\ Markers(p) = {}
  BY <1>4, UnfinishedLine
<1>6. Rest(p) = <<>>
  <2>1. 1 \in 1 .. Len(p) + 1
    BY <1>3
  <2>2. LineStart(p, 1) \in 1 .. 1
    BY <1>3, <2>1, LineStarts
  <2>3. LineStart(p, Len(p) + 1) = 1
    BY <1>3, <2>2
  <2>4. Rest(p) = SubSeq(p, 1, 0)
    BY <1>3, <2>3 DEF Rest
  <2>5. SubSeq(p, 1, 0) = <<>>
    BY <1>3
  <2> QED BY <2>4, <2>5
<1> QED BY <1>1, <1>2, <1>5, <1>6, BodyParts

-----------------------------------------------------------------------------
(* The tags of a thinking part.                                            *)

LEMMA WhereFacts ==
    ASSUME NEW text, Sequence(text), NEW tag
    PROVE  \/ Where(text, tag) = 0
           \/ Where(text, tag) \in 1 .. Len(text) /\ text[Where(text, tag)] = tag
<1> DEFINE I == {i \in 1 .. Len(text) : text[i] = tag}
<1>1. Where(text, tag) = IF I # {} THEN Min(I) ELSE 0
  BY DEF Where, SelectInSeq
<1>2. Len(text) \in Nat /\ I \in SUBSET Nat
  BY SequenceFacts
<1>3. I # {} => Min(I) \in I
  <2> HIDE DEF I
  <2> QED BY <1>2, MinLeast
<1> QED BY <1>1, <1>3

LEMMA UntaggedConcat ==
    ASSUME NEW s, Sequence(s), NEW t, Sequence(t)
    PROVE  Untagged(s \o t) = Untagged(s) \o Untagged(t)
  BY WithoutConcat DEF Untagged

\* The text from position m on without the tag that is there.
LEMMA TagDropped ==
    ASSUME NEW text, Sequence(text), NEW m \in 1 .. Len(text),
           text[m] \in {"<think>", "</think>"}, NEW n \in m .. Len(text)
    PROVE  Untagged(SubSeq(text, m, n)) = Untagged(SubSeq(text, m + 1, n))
<1> DEFINE tags == {"<think>", "</think>"}
           a == SubSeq(text, m, m)
           b == SubSeq(text, m + 1, n)
<1>1. Len(text) \in Nat
  BY SequenceFacts
<1>2. PICK k \in Nat : m = k + 1
  <2>1. m - 1 \in Nat /\ m = (m - 1) + 1
    BY <1>1
  <2> QED BY <2>1
<1>3. /\ k \in Nat /\ m \in Nat /\ n \in Nat /\ k <= m /\ m <= n /\ n <= Len(text)
      /\ m \in 0 .. Len(text) /\ n \in 0 .. Len(text)
  BY <1>1, <1>2
<1>4. SubSeq(text, k + 1, m) \o SubSeq(text, m + 1, n) = SubSeq(text, k + 1, n)
  BY <1>3, PartOf
<1>5. a \o b = SubSeq(text, m, n)
  BY <1>2, <1>4
<1>6. Sequence(a) /\ Len(a) = 1 /\ a[1] = text[m]
  <2>1. /\ Sequence(SubSeq(text, k + 1, m)) /\ Len(SubSeq(text, k + 1, m)) = m - k
        /\ \A i \in 1 .. m - k : SubSeq(text, k + 1, m)[i] = text[k + i]
    BY <1>3, SubSeqFacts
  <2>2. m - k = 1 /\ 1 \in 1 .. m - k
    BY <1>2
  <2> QED BY <1>2, <2>1, <2>2
<1>7. Sequence(b)
  BY <1>3, SubSeqFacts
<1>8. a = <<text[m]>>
  <2> HIDE DEF a
  <2>1. Sequence(<<text[m]>>) /\ Len(<<text[m]>>) = 1 /\ <<text[m]>>[1] = text[m]
    BY ShortSequences
  <2>2. \A i \in 1 .. Len(a) : a[i] = <<text[m]>>[i]
    BY <1>6, <2>1
  <2> QED BY <1>6, <2>1, <2>2, SameSequence
<1>9. Without(a, tags) = <<>>
  BY <1>8, WithoutLeft
<1> HIDE DEF a, b
<1>10. Without(a \o b, tags) = Without(a, tags) \o Without(b, tags)
  BY <1>6, <1>7, WithoutConcat
<1>11. <<>> \o Without(b, tags) = Without(b, tags)
  BY <1>7, WithoutFacts, ConcatNothing
<1> QED BY <1>5, <1>9, <1>10, <1>11 DEF Untagged, b

\* Whatever tags an answer has, what is on screen is all of it from its thinking on.
LEMMA AllIsShown ==
    ASSUME NEW text, Sequence(text)
    PROVE  Untagged(Shown(text).thinking \o Shown(text).response) =
               Untagged(SubSeq(text, ShownFrom(text), Len(text)))
<1> DEFINE open == Where(text, "<think>")
           close == Where(text, "</think>")
           tags == {"<think>", "</think>"}
<1>1. Len(text) \in Nat
  BY SequenceFacts
<1>2. /\ open = 0 \/ (open \in 1 .. Len(text) /\ text[open] = "<think>")
      /\ close = 0 \/ (close \in 1 .. Len(text) /\ text[close] = "</think>")
  BY WhereFacts
<1>3. PICK l \in Nat : l = Len(text)
  BY <1>1
<1>4. CASE ParseThink(text).thinking = <<>>
  <2>1. Shown(text).thinking = <<>> /\ Shown(text).response = text
    BY <1>4 DEF Shown
  <2>2. ShownFrom(text) = 1
    BY <1>4 DEF ShownFrom
  <2>3. SubSeq(text, 1, l) = text
    <3>1. text \in Seq({text[i] : i \in DOMAIN text})
      BY DEF Sequence
    <3> QED BY <1>3, <3>1
  <2>4. <<>> \o text = text
    BY ConcatNothing
  <2> QED BY <1>3, <2>1, <2>2, <2>3, <2>4
<1>5. CASE ParseThink(text).thinking # <<>>
  <2>1. open # 0
    BY <1>5 DEF ParseThink
  <2>2. ShownFrom(text) = open
    BY <1>5 DEF ShownFrom
  <2>3. open \in 1 .. l /\ text[open] = "<think>" /\ l \in open .. Len(text)
    BY <1>2, <1>3, <2>1
  <2>4. Untagged(SubSeq(text, open, l)) = Untagged(SubSeq(text, open + 1, l))
    <3> HIDE DEF open
    <3> QED BY <1>3, <2>3, TagDropped
  <2>5. CASE close = 0
    <3>1. ParseThink(text) = [thinking |-> SubSeq(text, open + 1, Len(text)), response |-> <<>>,
                              done |-> FALSE]
      BY <2>1, <2>5 DEF ParseThink
    <3> HIDE DEF open, close
    <3>2. Shown(text).thinking = SubSeq(text, open + 1, l) /\ Shown(text).response = <<>>
      <4>1. PICK a : a = SubSeq(text, open + 1, l)
        OBVIOUS
      <4>2. PICK p : p = ParseThink(text)
        OBVIOUS
      <4>3. p = [thinking |-> a, response |-> <<>>, done |-> FALSE]
        BY <1>3, <3>1, <4>1, <4>2
      <4>4. p.thinking = a /\ p.response = <<>>
        BY <4>3
      <4>5. Shown(text).thinking = p.thinking
        BY <4>2 DEF Shown
      <4>6. Shown(text).response = p.response
        BY <1>5, <4>2 DEF Shown
      <4> QED BY <4>1, <4>4, <4>5, <4>6
    <3>3. Sequence(SubSeq(text, open + 1, l))
      <4>1. open \in Nat /\ l \in 0 .. Len(text) /\ open <= l
        BY <1>3, <2>3
      <4> QED BY <4>1, SubSeqFacts
    <3>4. SubSeq(text, open + 1, l) \o <<>> = SubSeq(text, open + 1, l)
      BY <3>3, ConcatNothing
    <3> QED BY <1>3, <2>2, <2>4, <3>2, <3>4
  <2>6. CASE close # 0
    <3>1. ParseThink(text) = [thinking |-> SubSeq(text, open + 1, close - 1),
                              response |-> SubSeq(text, close + 1, Len(text)), done |-> TRUE]
      BY <2>1, <2>6 DEF ParseThink
    <3> HIDE DEF open, close
    <3>2. PICK a, b : a = SubSeq(text, open + 1, close - 1) /\ b = SubSeq(text, close + 1, l)
      OBVIOUS
    <3>3. Shown(text).thinking = a /\ Shown(text).response = b /\ a # <<>>
      <4>1. ParseThink(text).thinking = a /\ ParseThink(text).response = b
        <5>1. ParseThink(text) = [thinking |-> a, response |-> b, done |-> TRUE]
          BY <1>3, <3>1, <3>2
        <5>2. PICK p : p = ParseThink(text)
          OBVIOUS
        <5>3. p = [thinking |-> a, response |-> b, done |-> TRUE]
          BY <5>1, <5>2
        <5>4. p.thinking = a /\ p.response = b
          BY <5>3
        <5> QED BY <5>2, <5>4
      <4>2. Shown(text).thinking = ParseThink(text).thinking
        BY DEF Shown
      <4>3. Shown(text).response = ParseThink(text).response
        BY <1>5 DEF Shown
      <4> QED BY <1>5, <4>1, <4>2, <4>3
    <3>4. close \in 1 .. l /\ text[close] = "</think>"
      BY <1>2, <1>3, <2>6 DEF close
    <3>5. PICK m \in Nat : m = close - 1
      BY <3>4
    <3>6. open <= m
      <4>1. SUFFICES ASSUME m < open PROVE FALSE
        BY <2>3, <3>5
      <4>2. text \in Seq({text[i] : i \in DOMAIN text})
        BY DEF Sequence
      <4>3. Len(SubSeq(text, open + 1, m)) = 0
        BY <1>3, <2>3, <3>5, <4>1, <4>2
      <4>4. SubSeq(text, open + 1, m) = <<>>
        BY <1>3, <2>3, <3>5, <4>1, <4>2, <4>3
      <4> QED BY <3>2, <3>3, <3>5, <4>4
    <3>7. open \in Nat /\ m <= l /\ l <= Len(text) /\ l \in 0 .. Len(text) /\ m \in 0 .. Len(text)
      BY <1>3, <2>3, <3>4, <3>5
    <3>8. a = SubSeq(text, open + 1, m) /\ Sequence(a)
      BY <3>2, <3>5, <3>6, <3>7, SubSeqFacts
    <3>9. PICK c : c = SubSeq(text, m + 1, l) /\ Sequence(c)
      BY <3>7, SubSeqFacts
    <3>10. SubSeq(text, open + 1, l) = a \o c
      BY <3>6, <3>7, <3>8, <3>9, PartOf
    <3>11. Untagged(c) = Untagged(b)
      <4>1. m + 1 = close
        BY <3>4, <3>5
      <4>2. close \in 1 .. Len(text) /\ l \in close .. Len(text)
        BY <1>3, <3>4
      <4>3. Untagged(SubSeq(text, close, l)) = Untagged(SubSeq(text, close + 1, l))
        BY <3>4, <4>2, TagDropped
      <4> QED BY <3>2, <3>9, <4>1, <4>3
    <3>12. Sequence(b)
      <4>1. close \in Nat /\ close <= l
        BY <3>4
      <4> QED BY <3>2, <3>7, <4>1, SubSeqFacts
    <3>13. /\ Untagged(a \o c) = Untagged(a) \o Untagged(c)
           /\ Untagged(a \o b) = Untagged(a) \o Untagged(b)
      <4>1. Sequence(a) /\ Sequence(b) /\ Sequence(c)
        BY <3>8, <3>9, <3>12
      <4> QED BY <4>1, UntaggedConcat
    <3> QED BY <1>3, <2>2, <2>4, <3>3, <3>10, <3>11, <3>13
  <2> QED BY <2>5, <2>6
<1> QED BY <1>4, <1>5
-----------------------------------------------------------------------------
(***************************************************************************)
(* What the calls have read.  The buffer of a call is the last, incomplete *)
(* line of what came so far, no end marker is before it, and what was      *)
(* heard is what a reader of that much of the body hears at once.          *)
(***************************************************************************)

Reading(call, heard) ==
    /\ call.body \in Bodies /\ call.at \in 0 .. Len(call.body)
    /\ call.buffer = Rest(SubSeq(call.body, 1, call.at))
    /\ Markers(SubSeq(call.body, 1, call.at)) = {}
    /\ heard = HeardBy[call.body][call.at]

StreamsOK ==
    /\ gen.state = "reading" => Reading(gen, streamedText)
    /\ chat.state = "sent" => chatStreamed = <<>>
    /\ chat.state = "reading" => Reading(chat, chatStreamed)

\* A call whose body is not yet read.
LEMMA ReadingStarts ==
    ASSUME NEW call, call.body \in Bodies, call.at = 0, call.buffer = <<>>
    PROVE  Reading(call, <<>>)
  BY NothingRead DEF Reading

\* A chunk up to position n, and the call that goes on after it.
LEMMA ReadingGoesOn ==
    ASSUME NEW call, NEW heard, Reading(call, heard), NEW n \in call.at .. Len(call.body),
           NEW fed, fed = Feed(call.buffer, SubSeq(call.body, call.at + 1, n))
    PROVE  /\ fed.done => heard \o fed.text = HeardBy[call.body][Len(call.body)]
           /\ \A next : /\ ~fed.done /\ next.body = call.body
                        /\ next.at = n /\ next.buffer = fed.buffer
                        => Reading(next, heard \o fed.text)
<1>1. PICK body, at, buffer : body = call.body /\ at = call.at /\ buffer = call.buffer
  OBVIOUS
<1>2. /\ body \in Bodies /\ at \in 0 .. Len(body) /\ buffer = Rest(SubSeq(body, 1, at))
      /\ Markers(SubSeq(body, 1, at)) = {} /\ heard = HeardBy[body][at]
      /\ n \in at .. Len(body)
  BY <1>1 DEF Reading
<1>3. fed = Chunk(body, at, n)
  BY <1>1, <1>2 DEF Chunk
<1>4. /\ HeardBy[body][at] \o Chunk(body, at, n).text = HeardBy[body][n]
      /\ Chunk(body, at, n).done = (Markers(SubSeq(body, 1, n)) # {})
      /\ Chunk(body, at, n).buffer = Rest(SubSeq(body, 1, n))
      /\ Markers(SubSeq(body, 1, n)) # {} => HeardBy[body][n] = HeardBy[body][Len(body)]
  BY <1>2, ChunkRead, Zenon
<1>5. /\ HeardBy[body][at] \o fed.text = HeardBy[body][n]
      /\ fed.done = (Markers(SubSeq(body, 1, n)) # {})
      /\ fed.buffer = Rest(SubSeq(body, 1, n))
      /\ Markers(SubSeq(body, 1, n)) # {} => HeardBy[body][n] = HeardBy[body][Len(body)]
  BY <1>3, <1>4, Zenon
<1>6. n \in 0 .. Len(body)
  BY <1>2, BodyParts
<1>7. ASSUME NEW next, ~fed.done, next.body = body, next.at = n, next.buffer = fed.buffer
      PROVE  Reading(next, heard \o fed.text)
  BY <1>2, <1>5, <1>6, <1>7 DEF Reading
<1> QED BY <1>1, <1>2, <1>5, <1>7

\* What ReadTo gives lies between what was read and what is written.
LEMMA ReadToFacts ==
    ASSUME NEW call, NEW heard, Reading(call, heard), NEW length \in Int, length <= Len(call.body),
           NEW n \in ReadTo(call, length)
    PROVE  n \in call.at .. Len(call.body)
<1>1. call.at \in 0 .. Len(call.body) /\ Len(call.body) \in Nat
  BY BodyParts DEF Reading
<1>2. n \in call.at + 1 .. length
  BY DEF ReadTo
<1> QED BY <1>1, <1>2

LEMMA WrittenFacts ==
    ASSUME NEW call, NEW heard, Reading(call, heard)
    PROVE  Written(call) \in Int /\ Written(call) <= Len(call.body)
<1>1. call.at \in 0 .. Len(call.body) /\ Len(call.body) \in Nat
  BY BodyParts DEF Reading
<1>2. Len(Event(<<Done>>)) \in Nat
  <2>1. Event(<<Done>>) \in Seq(Pieces)
    BY PieceSequences DEF Event
  <2> QED BY <2>1
<1>3. PICK m \in Nat : m = IF call.answered THEN 0 ELSE Len(Event(<<Done>>))
  BY <1>2
<1>4. PICK l \in Nat : l = Len(call.body)
  BY <1>1
<1>5. PICK w : w = Written(call)
  OBVIOUS
<1>6. w = l - m
  BY <1>3, <1>4, <1>5 DEF Written
<1>7. w \in Int /\ w <= l
  BY <1>6
<1> QED BY <1>4, <1>5, <1>7

LEMMA StreamsStart ==
    ASSUME AIInit
    PROVE  StreamsOK
<1>1. gen.state = "none" /\ chat.state = "none"
  BY DEF AIInit, NoCall
<1> QED BY <1>1 DEF StreamsOK

LEMMA StreamsStutter ==
    ASSUME StreamsOK, gen' = gen, streamedText' = streamedText, chat' = chat,
           chatStreamed' = chatStreamed
    PROVE  StreamsOK'
  BY DEF StreamsOK, Reading

\* The chunk of an analysis, which ends it or not.
LEMMA AnalysisRead ==
    ASSUME StreamsOK, ReadAnalysis, GenRec
    PROVE  gen'.state = "reading" => Reading(gen, streamedText)'
<1>1. gen.state = "reading" /\ Reading(gen, streamedText)
  BY DEF ReadAnalysis, StreamsOK
<1>2. PICK n, fed :
          /\ n \in ReadTo(gen, Len(gen.body))
          /\ fed = Feed(gen.buffer, SubSeq(gen.body, gen.at + 1, n))
          /\ streamedText' = streamedText \o fed.text
          /\ gen' = IF fed.done THEN NoCall ELSE [gen EXCEPT !.at = n, !.buffer = fed.buffer]
  BY DEF ReadAnalysis
<1>3. n \in gen.at .. Len(gen.body)
  <2>1. Len(gen.body) \in Nat
    BY <1>1, BodyParts DEF Reading
  <2>2. Len(gen.body) \in Int /\ Len(gen.body) <= Len(gen.body)
    BY <2>1
  <2> QED BY <1>1, <1>2, <2>2, ReadToFacts
<1>4. CASE fed.done
  BY <1>2, <1>4 DEF NoCall
<1>5. CASE ~fed.done
  <2>1. PICK buffer : buffer = fed.buffer
    OBVIOUS
  <2>2. gen' = [state |-> "reading", body |-> gen.body, at |-> n, buffer |-> buffer]
    BY <1>1, <1>2, <1>5, <2>1, CallGoesOn
  <2>3. PICK next : next = gen'
    OBVIOUS
  <2>4. next.body = gen.body /\ next.at = n /\ next.buffer = buffer
    BY <2>2, <2>3
  <2>5. Reading(next, streamedText \o fed.text)
    BY <1>1, <1>2, <1>3, <1>5, <2>1, <2>4, ReadingGoesOn
  <2> QED BY <1>2, <2>3, <2>5 DEF Reading
<1> QED BY <1>4, <1>5

\* The chunk of a chat answer: it ends the answer with all that it has, or goes on.
LEMMA ChatRead ==
    ASSUME StreamsOK, ReadChat, ChatRec
    PROVE  \/ /\ EndChat(HeardBy[chat.body][Len(chat.body)])
           \/ /\ chat' # NoCall /\ chat'.state = "reading" /\ Reading(chat, chatStreamed)'
<1>1. chat.state = "reading" /\ Reading(chat, chatStreamed)
  BY DEF ReadChat, StreamsOK
<1>2. PICK n, fed :
          /\ n \in ReadTo(chat, Written(chat))
          /\ fed = Feed(chat.buffer, SubSeq(chat.body, chat.at + 1, n))
          /\ fed.done => EndChat(chatStreamed \o fed.text)
          /\ ~fed.done => /\ chatStreamed' = chatStreamed \o fed.text
                          /\ chat' = [chat EXCEPT !.at = n, !.buffer = fed.buffer]
  BY DEF ReadChat
<1>3. n \in chat.at .. Len(chat.body)
  BY <1>1, <1>2, ReadToFacts, WrittenFacts
<1>4. CASE fed.done
  <2>1. chatStreamed \o fed.text = HeardBy[chat.body][Len(chat.body)]
    BY <1>1, <1>2, <1>3, <1>4, ReadingGoesOn
  <2> QED BY <1>2, <1>4, <2>1
<1>5. CASE ~fed.done
  <2>1. PICK buffer : buffer = fed.buffer
    OBVIOUS
  <2>2. chat' = [state |-> "reading", number |-> chat.number, session |-> chat.session,
                 body |-> chat.body, at |-> n, buffer |-> buffer, answered |-> chat.answered]
    BY <1>1, <1>2, <1>5, <2>1, CallGoesOn
  <2>3. PICK next : next = chat'
    OBVIOUS
  <2>4. next.body = chat.body /\ next.at = n /\ next.buffer = buffer /\ next.state = "reading"
    BY <2>2, <2>3
  <2>5. Reading(next, chatStreamed \o fed.text)
    BY <1>1, <1>2, <1>3, <1>5, <2>1, <2>4, ReadingGoesOn
  <2>6. chat' # NoCall /\ chat'.state = "reading"
    BY <2>3, <2>4 DEF NoCall
  <2> QED BY <1>2, <1>5, <2>3, <2>5, <2>6 DEF Reading
<1> QED BY <1>4, <1>5

LEMMA StreamsStep ==
    ASSUME AIInv, StreamsOK, AINext
    PROVE  StreamsOK'
<1>1. /\ gen.state = "reading" => Reading(gen, streamedText)
      /\ chat.state = "sent" => chatStreamed = <<>>
      /\ chat.state = "reading" => Reading(chat, chatStreamed)
      /\ GenRec /\ ChatRec
  BY DEF StreamsOK, AIInv
<1>2. CASE HealthArrives \/ TickersSelected \/ SwitchStreaming \/ SessionEnds
  <2>1. UNCHANGED <<analysis, conversation>>
    BY <1>2 DEF HealthArrives, TickersSelected, SwitchStreaming, SessionEnds
  <2> QED BY <2>1, StreamsStutter DEF analysis, conversation, bubble
<1>3. CASE AnalysisStep
  <2>1. chat' = chat /\ chatStreamed' = chatStreamed
    BY <1>3 DEF AnalysisStep, ReadAnalysis, AnalysisArrives, AnalysisCut, AnalysisFails,
                conversation, bubble
  <2>2. gen'.state = "reading" => Reading(gen, streamedText)'
    <3>1. CASE ReadAnalysis
      BY <1>1, <3>1, AnalysisRead
    <3>2. CASE AnalysisArrives \/ AnalysisCut \/ AnalysisFails
      BY <3>2 DEF AnalysisArrives, AnalysisCut, AnalysisFails, NoCall
    <3> QED BY <1>3, <3>1, <3>2 DEF AnalysisStep
  <2> QED BY <1>1, <2>1, <2>2 DEF StreamsOK, Reading
<1>4. CASE Generate
  <2>1. /\ streamedText' = <<>> /\ chat' = chat /\ chatStreamed' = chatStreamed
        /\ gen' \in {IF streaming THEN Analysis(a) ELSE Plain(a) : a \in Answers}
    BY <1>4 DEF Generate
  <2>2. PICK next, a : a \in Answers /\ next = gen' /\ (next = Analysis(a) \/ next = Plain(a))
    BY <2>1
  <2>3. next.state = "reading" => Reading(next, <<>>)
    <3>1. CASE next = Plain(a)
      <4>1. next.state = "plain"
        BY <3>1 DEF Plain
      <4> QED BY <4>1
    <3>2. CASE next = Analysis(a)
      <4>1. next.body = AnalysisBody[a] /\ next.at = 0 /\ next.buffer = <<>>
        BY <3>2 DEF Analysis
      <4>2. next.body \in Bodies
        BY <2>2, <4>1 DEF Bodies
      <4> QED BY <4>1, <4>2, ReadingStarts
    <3> QED BY <2>2, <3>1, <3>2
  <2>4. gen'.state = "reading" => Reading(gen, streamedText)'
    BY <2>1, <2>2, <2>3 DEF Reading
  <2> QED BY <1>1, <2>1, <2>4 DEF StreamsOK, Reading
<1>5. CASE SendChat
  <2>1. chatStreamed' = <<>> /\ chat' = Question(asked') /\ gen' = gen /\ streamedText' = streamedText
    BY <1>5 DEF SendChat, analysis
  <2>2. chat'.state = "sent"
    BY <2>1 DEF Question
  <2> QED BY <1>1, <2>1, <2>2 DEF StreamsOK, Reading
<1>6. CASE ChatStep
  <2>1. gen' = gen /\ streamedText' = streamedText
    BY <1>6 DEF ChatStep, ServerTakesChat, ServerAnswers, ReadChat, ChatCut, ChatFails, analysis
  <2>2. CASE ServerTakesChat
    <3>1. PICK next, tokens :
              /\ tokens \in Answers /\ next = chat' /\ next.state = "reading" /\ next.body = ChatBody[tokens]
              /\ next.at = 0 /\ next.buffer = <<>>
      BY <2>2 DEF ServerTakesChat
    <3>2. chatStreamed' = <<>>
      BY <1>1, <2>2 DEF ServerTakesChat, bubble
    <3>3. next.body \in Bodies
      BY <3>1 DEF Bodies
    <3>4. Reading(next, <<>>)
      BY <3>1, <3>3, ReadingStarts
    <3> QED BY <1>1, <2>1, <3>1, <3>2, <3>4 DEF StreamsOK, Reading
  <2>3. CASE ServerAnswers
    <3>1. /\ chat.state = "reading" /\ chatStreamed' = chatStreamed
          /\ chat' = [chat EXCEPT !.answered = TRUE]
      BY <2>3 DEF ServerAnswers, bubble
    <3>2. PICK number, session, body, at, buffer, answered :
              chat = [state |-> "reading", number |-> number, session |-> session, body |-> body,
                      at |-> at, buffer |-> buffer, answered |-> answered]
      BY <1>1, <3>1 DEF ChatRec, NoCall
    <3>3. /\ chat'.state = "reading" /\ chat'.body = chat.body /\ chat'.at = chat.at
          /\ chat'.buffer = chat.buffer
      BY <3>1, <3>2
    <3> QED BY <1>1, <2>1, <3>1, <3>3 DEF StreamsOK, Reading
  <2>4. CASE ReadChat
    <3>1. CASE EndChat(HeardBy[chat.body][Len(chat.body)])
      BY <1>1, <2>1, <3>1 DEF EndChat, NoCall, StreamsOK, Reading
    <3>2. CASE chat'.state = "reading" /\ Reading(chat, chatStreamed)'
      BY <1>1, <2>1, <3>2 DEF StreamsOK, Reading
    <3> QED BY <1>1, <2>4, <3>1, <3>2, ChatRead
  <2>5. CASE ChatCut \/ ChatFails
    <3>1. chat'.state = "none"
      BY <2>5 DEF ChatCut, ChatFails, EndChat, NoCall
    <3> QED BY <1>1, <2>1, <3>1 DEF StreamsOK, Reading
  <2> QED BY <1>6, <2>2, <2>3, <2>4, <2>5 DEF ChatStep
<1> QED BY <1>2, <1>3, <1>4, <1>5, <1>6 DEF AINext

\* However the network cuts a stream: what was received is what the lines so far say, and
\* the screen shows all of it.
LEMMA AllIsReceived ==
    ASSUME StreamsOK
    PROVE  NothingLost
<1>1. ASSUME gen.state = "reading" PROVE streamedText = HeardBy[gen.body][gen.at]
  BY <1>1 DEF StreamsOK, Reading
<1>2. ASSUME gen.state = "reading", streaming
      PROVE  Untagged(Output.thinking \o Output.response) =
                 Untagged(SubSeq(streamedText, ShownFrom(streamedText), Len(streamedText)))
  <2>1. Sequence(streamedText)
    <3>1. /\ gen.body \in Bodies /\ gen.at \in 0 .. Len(gen.body)
          /\ streamedText = HeardBy[gen.body][gen.at]
      BY <1>2 DEF StreamsOK, Reading
    <3>2. streamedText = Heard(SubSeq(gen.body, 1, gen.at)) /\ Sequence(SubSeq(gen.body, 1, gen.at))
      BY <3>1, BodyParts
    <3> QED BY <3>2, HeardSequence
  <2>2. Output = Shown(streamedText)
    BY <1>2 DEF Output, DisplayText
  <2> QED BY <2>1, <2>2, AllIsShown
<1>3. ASSUME chat.state = "reading" PROVE chatStreamed = HeardBy[chat.body][chat.at]
  BY <1>3 DEF StreamsOK, Reading
<1> QED BY <1>1, <1>2, <1>3 DEF NothingLost

\* The last message once x has joined the conversation.
LEMMA LastMessage ==
    ASSUME Sequence(chatMessages), NEW x, chatMessages' = Append(chatMessages, x)
    PROVE  Last(chatMessages') = x
<1>1. PICK m : m = chatMessages'
  OBVIOUS
<1>2. Len(m) = Len(chatMessages) + 1 /\ m[Len(chatMessages) + 1] = x
  BY <1>1, AppendFacts
<1>3. m[Len(m)] = x
  BY <1>2
<1> QED BY <1>1, <1>3 DEF Last

\* A step that ends a chat answer puts all that was received of it in the conversation.
LEMMA AnswerJoins ==
    ASSUME AIInv, StreamsOK, [AINext]_aiVars,
           chat.state = "reading", chat' = NoCall, Last(chatMessages').role = "assistant"
    PROVE  Last(chatMessages').text \in
               {HeardBy[chat.body][n] : n \in {chat.at, Len(chat.body)}}
<1>1. Sequence(chatMessages) /\ ChatRec /\ chat # NoCall
  BY DEF AIInv, NoCall
<1>2. ASSUME NEW text, EndChat(text) PROVE Last(chatMessages').text = text
  <2>1. PICK x : x = Assistant(chat.number, FinalText(text))
    OBVIOUS
  <2>2. chatMessages' = Append(chatMessages, x)
    BY <1>2, <2>1 DEF EndChat
  <2>3. x.text = text
    BY <2>1 DEF Assistant, FinalText
  <2> QED BY <1>1, <2>2, <2>3, LastMessage
<1>3. CASE ReadChat
  <2>1. EndChat(HeardBy[chat.body][Len(chat.body)])
    BY <1>1, <1>3, ChatRead
  <2> QED BY <1>2, <2>1
<1>4. CASE ChatCut
  <2>1. EndChat(chatStreamed) /\ chatStreamed = HeardBy[chat.body][chat.at]
    BY <1>4 DEF ChatCut, StreamsOK, Reading
  <2> QED BY <1>2, <2>1
<1>5. CASE ChatFails
  <2>1. PICK x : x = Failed(chat.number)
    OBVIOUS
  <2>2. chatMessages' = Append(chatMessages, x) /\ x.role = "error"
    BY <1>5, <2>1 DEF ChatFails, Failed
  <2>3. Last(chatMessages').role = "error"
    BY <1>1, <2>2, LastMessage
  <2> QED BY <2>3
<1>6. CASE ServerTakesChat \/ ServerAnswers
  <2>1. chat'.state = "reading"
    <3>1. CASE ServerTakesChat
      BY <3>1 DEF ServerTakesChat
    <3>2. CASE ServerAnswers
      <4>1. PICK number, session, body, at, buffer, answered :
                chat = [state |-> "reading", number |-> number, session |-> session,
                        body |-> body, at |-> at, buffer |-> buffer, answered |-> answered]
        BY <1>1 DEF ChatRec
      <4>2. chat' = [chat EXCEPT !.answered = TRUE]
        BY <3>2 DEF ServerAnswers
      <4> QED BY <4>1, <4>2
    <3> QED BY <1>6, <3>1, <3>2
  <2> QED BY <2>1 DEF NoCall
<1>7. CASE SendChat
  <2>1. ~chatStreaming
    BY <1>7 DEF SendChat, ChatEnabled
  <2> QED BY <2>1, AIFacts
<1>8. CASE HealthArrives \/ TickersSelected \/ SwitchStreaming \/ Generate \/ AnalysisStep \/ SessionEnds
  <2>1. chat' = chat
    BY <1>8 DEF HealthArrives, TickersSelected, SwitchStreaming, Generate, SessionEnds,
                AnalysisStep, ReadAnalysis, AnalysisArrives, AnalysisCut, AnalysisFails,
                conversation
  <2> QED BY <1>1, <2>1
<1>9. CASE UNCHANGED aiVars
  <2>1. chat' = chat
    BY <1>9 DEF aiVars, conversation
  <2> QED BY <1>1, <2>1
<1> QED BY <1>3, <1>4, <1>5, <1>6, <1>7, <1>8, <1>9 DEF AINext, ChatStep

-----------------------------------------------------------------------------
(***************************************************************************)
(* The dashboard.  A behaviour has one panel, whose steps change no other  *)
(* panel's state, so that the invariants of the panels hold side by side.  *)
(***************************************************************************)

DashboardInv ==
    /\ panel \in Panels /\ Flags /\ AIInv /\ StreamsOK
    /\ LoadInv /\ ChartInv /\ SearchInv /\ TickersInv /\ ListInv

LEMMA AIStutters ==
    ASSUME AIInv, StreamsOK, UNCHANGED aiVars
    PROVE  AIInv' /\ StreamsOK'
<1>1. /\ UNCHANGED <<conversation, memory, asked, crossed>>
      /\ available' = available /\ selected' = selected /\ streaming' = streaming
      /\ generating' = generating /\ aiError' = aiError /\ gen' = gen
  BY DEF aiVars, environment, analysis
<1>2. GenRec'
  BY <1>1 DEF AIInv, GenRec
<1>3. AIInv'
  BY <1>1, <1>2, AIFacts, AnalysisOnly
<1>4. StreamsOK'
  BY StreamsStutter DEF aiVars, analysis, conversation, bubble
<1> QED BY <1>3, <1>4

LEMMA PanelStutters ==
    ASSUME Flags, LoadInv, ChartInv, SearchInv, TickersInv, ListInv, UNCHANGED panelVars
    PROVE  /\ panel' = panel
           /\ Flags' /\ LoadInv' /\ ChartInv' /\ SearchInv' /\ TickersInv' /\ ListInv'
<1>1. UNCHANGED <<panel, query, data, loading, error, calls, overtaken, overlapped, view, drawn>>
  BY DEF panelVars, fetchVars
<1>2. Flags'
  BY <1>1 DEF Flags
<1>3. LoadInv'
  BY <1>1, <1>2 DEF LoadInv, FetchOK, NewsOK, TableOK, TableRows
<1>4. SearchInv'
  <2>1. OverviewOK => OverviewOK'
    BY <1>1, <1>2 DEF OverviewOK
  <2>2. TypingOK => TypingOK'
    BY <1>1, <1>2 DEF TypingOK, Wanted
  <2> QED BY <1>1, <2>1, <2>2 DEF SearchInv
<1>5. TickersInv'
  BY <1>1, <1>2 DEF TickersInv, TickersOK
<1>6. ListInv'
  BY <1>1, <1>2 DEF ListInv, ManagedPanels, ListOK, ListTyped, CallsOK, LatestComes, LatestShown
<1>7. ChartInv'
  BY <1>1 DEF ChartInv, CandlesOK, CompareOK, VixOK, IndicatorOK
<1> QED BY <1>1, <1>2, <1>3, <1>4, <1>5, <1>6, <1>7

LEMMA DashboardStarts ==
    ASSUME Init
    PROVE  DashboardInv
<1>1. panel \in Panels /\ AIInv /\ StreamsOK
  BY AIStart, StreamsStart DEF Init
<1>2. CASE TickerPanelInit \/ ChartInit
  <2>1. panel \in LoadPanels
    BY <1>2 DEF TickerPanelInit, ChartInit, LoadPanels
  <2>2. LoadInv /\ Flags
    BY <1>2, <2>1, LoadInvInit DEF LoadInv
  <2>3. SearchInv /\ TickersInv /\ ListInv
    BY <2>1 DEF SearchInv, TickersInv, ListInv, ManagedPanels, LoadPanels
  <2>4. ChartInv
    BY <1>2, ChartInvInit DEF TickerPanelInit, ChartInv
  <2> QED BY <1>1, <2>2, <2>3, <2>4 DEF DashboardInv
<1>3. CASE SearchInit
  <2>1. panel \in {"overview", "search", "palette"}
    BY <1>3 DEF SearchInit
  <2>2. SearchInv /\ Flags
    BY <1>3, <2>1, SearchInvInit DEF SearchInv, OverviewOK, TypingOK
  <2>3. LoadInv /\ ChartInv /\ TickersInv /\ ListInv
    BY <2>1 DEF LoadInv, ChartInv, TickersInv, ListInv, ManagedPanels, LoadPanels
  <2> QED BY <1>1, <2>2, <2>3 DEF DashboardInv
<1>4. CASE ManagedInit
  <2>1. ManagedPanels
    BY <1>4 DEF ManagedInit
  <2>2. ListInv /\ Flags
    BY <1>4, <2>1, ListInvInit DEF ListInv, ListOK, ListTyped
  <2>3. LoadInv /\ ChartInv /\ TickersInv /\ SearchInv
    BY <2>1 DEF LoadInv, ChartInv, TickersInv, SearchInv, ManagedPanels, LoadPanels
  <2> QED BY <1>1, <2>2, <2>3 DEF DashboardInv
<1>5. CASE TickerListInit
  <2>1. panel = "tickers"
    BY <1>5 DEF TickerListInit
  <2>2. TickersInv /\ Flags
    BY <1>5, <2>1, TickersInvInit DEF TickersInv, TickersOK
  <2>3. LoadInv /\ ChartInv /\ SearchInv /\ ListInv
    BY <2>1 DEF LoadInv, ChartInv, SearchInv, ListInv, ManagedPanels, LoadPanels
  <2> QED BY <1>1, <2>2, <2>3 DEF DashboardInv
<1>6. CASE AssistantInit
  <2>1. /\ panel = "assistant" /\ calls = <<>> /\ loading = TRUE /\ error = FALSE
        /\ overtaken = FALSE /\ overlapped = FALSE
    BY <1>6 DEF AssistantInit, Untouched
  <2>2. Flags
    <3>1. loading \in BOOLEAN /\ error \in BOOLEAN /\ overtaken \in BOOLEAN /\ overlapped \in BOOLEAN
      BY <2>1
    <3>2. Sequence(calls) /\ Len(calls) = 0
      BY <2>1, ShortSequences
    <3> QED BY <3>1, <3>2, PanelAssumption DEF Flags
  <2>3. LoadInv /\ ChartInv /\ SearchInv /\ TickersInv /\ ListInv
    BY <2>1 DEF LoadInv, ChartInv, SearchInv, TickersInv, ListInv, ManagedPanels, LoadPanels
  <2> QED BY <1>1, <2>2, <2>3 DEF DashboardInv
<1> QED BY <1>2, <1>3, <1>4, <1>5, <1>6 DEF Init

LEMMA DashboardSteps ==
    ASSUME DashboardInv, [Next]_vars
    PROVE  DashboardInv'
<1>1. CASE UNCHANGED vars
  <2>1. UNCHANGED aiVars /\ UNCHANGED panelVars
    BY <1>1 DEF vars
  <2> QED BY <2>1, AIStutters, PanelStutters DEF DashboardInv
<1>2. CASE AINext /\ UNCHANGED panelVars
  BY <1>2, AIStep, StreamsStep, PanelStutters DEF DashboardInv
<1>3. ASSUME UNCHANGED aiVars PROVE AIInv' /\ StreamsOK'
  BY <1>3, AIStutters DEF DashboardInv
<1>4. CASE (TickerPanelNext \/ ChartNext) /\ UNCHANGED aiVars
  <2>1. panel \in LoadPanels /\ panel' = panel /\ LoadInv' /\ ChartInv'
    BY <1>4, LoadPanelStep, LoadInvStep, ChartInvStep DEF DashboardInv
  <2>2. Flags'
    BY <2>1 DEF LoadInv
  <2>3. SearchInv' /\ TickersInv' /\ ListInv'
    BY <2>1 DEF SearchInv, TickersInv, ListInv, ManagedPanels, LoadPanels
  <2> QED BY <1>3, <1>4, <2>1, <2>2, <2>3 DEF DashboardInv
<1>5. CASE SearchNext /\ UNCHANGED aiVars
  <2>1. panel \in {"overview", "search", "palette"} /\ panel' = panel /\ SearchInv'
    BY <1>5, SearchInvStep DEF DashboardInv
  <2>2. Flags'
    BY <2>1 DEF SearchInv, OverviewOK, TypingOK
  <2>3. LoadInv' /\ ChartInv' /\ TickersInv' /\ ListInv'
    BY <2>1 DEF LoadInv, ChartInv, TickersInv, ListInv, ManagedPanels, LoadPanels
  <2> QED BY <1>3, <1>5, <2>1, <2>2, <2>3 DEF DashboardInv
<1>6. CASE ManagedNext /\ UNCHANGED aiVars
  <2>1. ManagedPanels /\ panel' = panel /\ ListInv'
    BY <1>6, ListInvStep DEF DashboardInv
  <2>2. Flags'
    BY <2>1 DEF ListInv, ListOK, ListTyped, ManagedPanels
  <2>3. LoadInv' /\ ChartInv' /\ SearchInv' /\ TickersInv'
    BY <2>1 DEF LoadInv, ChartInv, SearchInv, TickersInv, ManagedPanels, LoadPanels
  <2> QED BY <1>3, <1>6, <2>1, <2>2, <2>3 DEF DashboardInv
<1>7. CASE TickerListNext /\ UNCHANGED aiVars
  <2>1. panel = "tickers" /\ panel' = panel /\ TickersInv'
    BY <1>7, TickersInvStep DEF DashboardInv
  <2>2. Flags'
    BY <2>1 DEF TickersInv, TickersOK
  <2>3. LoadInv' /\ ChartInv' /\ SearchInv' /\ ListInv'
    BY <2>1 DEF LoadInv, ChartInv, SearchInv, ListInv, ManagedPanels, LoadPanels
  <2> QED BY <1>3, <1>7, <2>1, <2>2, <2>3 DEF DashboardInv
<1> QED BY <1>1, <1>2, <1>4, <1>5, <1>6, <1>7 DEF Next

LEMMA DashboardInvariant == Spec => []DashboardInv
<1>1. Init => DashboardInv
  BY DashboardStarts
<1>2. DashboardInv /\ [Next]_vars => DashboardInv'
  BY DashboardSteps
<1> QED BY <1>1, <1>2, PTL DEF Spec

\* The state of every panel is what its code can hold: the flags of the AI panel are set
\* exactly while their calls run, and no panel has more calls in flight than it makes.
THEOREM DashboardTypes == Spec => []DashboardTypeOK
<1>1. DashboardInv => DashboardTypeOK
  BY DEF DashboardInv, Flags, AIInv, DashboardTypeOK
<1> QED BY <1>1, DashboardInvariant, PTL

\* What a panel shows is of what is chosen in it: of the ticker, the span or the
\* indicator once its answers came in turn, of the page and the search in whatever order
\* they came, of the text once the typing is over, and of the one ticker list.
THEOREM PanelsShowChoice == Spec => []PanelShowsChoice
<1>1. DashboardInv => PanelShowsChoice
  BY LoadedIsChosen, SearchedIsShown, TickersAreShared DEF DashboardInv, PanelShowsChoice
<1> QED BY <1>1, DashboardInvariant, PTL

\* A canvas shows what its panel has loaded, in the way that is chosen, and the legend
\* names values that have a line: but for the VIX after a change of theme, candles of a
\* ticker without bars, and indicators of which two loads were under way.  The candles of
\* an interval tell of all daily bars and of nothing else, there is one for each calendar
\* week where the browser is not to the west of Greenwich, and the profile has the volume
\* of all candles that do not close below all lows.
THEOREM CanvasesDrawData == Spec => []ChartsDrawData
<1>1. DashboardInv => ChartsDrawData
  BY CanvasIsDrawn, CandlesTell DEF DashboardInv, ChartInv, ChartsDrawData
<1> QED BY <1>1, DashboardInvariant, PTL

\* After its own writes, and nothing told to have failed, a panel has shown the server's
\* list, and shows it still unless an earlier answer came later.
THEOREM ListsMatchServer == Spec => []ListMatchesServer
<1>1. DashboardInv => ListMatchesServer
  BY ListsAreServers DEF DashboardInv
<1> QED BY <1>1, DashboardInvariant, PTL

\* Unless an analysis was asked for during a chat answer, questions and answers are in
\* turn, the bubble shows what was received, and the session that the next question is
\* asked in holds nothing but questions of this conversation.
THEOREM ConversationsInTurn == Spec => []ConversationInTurn
<1>1. DashboardInv => ConversationInTurn
  BY DEF DashboardInv, AIInv
<1> QED BY <1>1, DashboardInvariant, PTL

\* However the network cuts a stream into chunks, the text received is that of the lines
\* received, each once and in order, and the screen shows all of it from its thinking on.
THEOREM NothingIsLost == Spec => []NothingLost
<1>1. DashboardInv => NothingLost
  BY AllIsReceived DEF DashboardInv
<1> QED BY <1>1, DashboardInvariant, PTL

\* A chat answer that joins a conversation is all that was received of it, up to its
\* marker or to where the network cut it.
THEOREM AnswersWhole == Spec => AnswerWhole
<1>1. ASSUME DashboardInv, [Next]_vars
      PROVE  [chat.state = "reading" /\ chat' = NoCall /\ Last(chatMessages').role = "assistant" =>
                Last(chatMessages').text \in
                    {HeardBy[chat.body][n] : n \in {chat.at, Len(chat.body)}}]_aiVars
  <2>1. [AINext]_aiVars
    BY <1>1 DEF Next, vars
  <2>2. AIInv /\ StreamsOK
    BY <1>1 DEF DashboardInv
  <2> QED BY <2>1, <2>2, AnswerJoins
<1> QED BY <1>1, DashboardInvariant, PTL DEF Spec, AnswerWhole
=============================================================================
