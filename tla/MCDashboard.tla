---------------------------- MODULE MCDashboard ----------------------------
(***************************************************************************)
(* The panels of the dashboard, each in behaviours of its own: they share  *)
(* nothing that changes, so that the panels side by side have no more      *)
(* states worth exploring than each alone.                                 *)
(***************************************************************************)
EXTENDS AISummary, TickerPanels, PriceCharts, SearchPanels, ManagedLists, TickerList

vars == <<aiVars, panelVars>>

AssistantInit == panel = "assistant" /\ Untouched /\ view = [none |-> None]

\* Each panel starts alone.
Init ==
    /\ panel \in Panels
    /\ AIInit
    /\ \/ AssistantInit \/ TickerPanelInit \/ ChartInit \/ SearchInit \/ ManagedInit
       \/ TickerListInit

Next ==
    \/ panel = "assistant" /\ AINext /\ UNCHANGED panelVars
    \/ /\ TickerPanelNext \/ ChartNext \/ SearchNext \/ ManagedNext \/ TickerListNext
       /\ UNCHANGED aiVars

PanelAnswer ==
    \/ NewsArrives \/ FundamentalsArrive \/ TableArrives
    \/ CandlesArrive \/ CompareArrives \/ VixArrives \/ IndicatorArrives
    \/ OverviewArrives \/ SearchArrives \/ PaletteArrives
    \/ ManagedAnswer \/ NamesArrive

\* The call that waits longest is over.
OldestTaken == calls # <<>> /\ SubSeq(calls', 1, Len(calls) - 1) = Tail(calls)
OldestServed == calls # <<>> /\ calls[1].state = "sent" /\ calls'[1].state # "sent"

\* Every call is answered or fails, and pending timers run.
Spec ==
    /\ Init /\ [][Next]_vars
    /\ WF_vars(panel = "assistant" /\ AnalysisStep /\ UNCHANGED panelVars)
    /\ WF_vars(panel = "assistant" /\ ChatStep /\ UNCHANGED panelVars)
    /\ WF_vars(PanelAnswer /\ OldestTaken /\ UNCHANGED aiVars)
    /\ WF_vars(ServerStep /\ OldestServed /\ UNCHANGED aiVars)
    /\ WF_vars((OverviewSearches \/ SearchCalls \/ PaletteCalls) /\ UNCHANGED aiVars)

-----------------------------------------------------------------------------

\* Every panel is well typed.
DashboardTypeOK ==
    /\ AITypeOK
    /\ {loading, error, overtaken, overlapped} \subseteq BOOLEAN
    /\ Len(calls) <= MaxCalls
    /\ panel \in Panels

\* What each panel shows is of what is chosen in it.
PanelShowsChoice ==
    /\ TickerPanelShowsChoice
    /\ SearchShowsText
    /\ TickersShared
    /\ panel \in {"candles", "compare", "vix", "indicator"} /\ Settled => data = query

\* A canvas shows what was loaded, and the candles all of it.
ChartsDrawData == ChartDrawsData /\ CandlesConserve

\* Once a panel's choice is left alone it is done with its loading, and a button that
\* waits for a write is usable again.  The search box is not when its text was
\* removed before its pause was over.
LoadingEnds ==
    /\ <>[][UNCHANGED query]_vars =>
          (loading /\ query # None ~> ~loading \/ (panel = "search" /\ query = Nothing))
    /\ Busy ~> ~Busy

-----------------------------------------------------------------------------

TwoAnswers == {<< <<"yes">> >>,
               << <<"so">>, <<"<think>", "hm">>, <<"</think>">>, <<"a", NL, "b">> >>}

Bar(day, open, high, low, close, volume) ==
    [day |-> day, open |-> open, high |-> high, low |-> low, close |-> close, volume |-> volume]

\* Friday to Tuesday across a month's end, and a ticker without bars.
MCBars ==
    [t \in Ticker |->
        IF t = First
        THEN <<Bar(4, 10, 14, 9, 12, 5), Bar(7, 12, 13, 8, 9, 3), Bar(8, 9, 11, 9, 11, 4),
               Bar(15, 11, 18, 10, 17, 7)>>
        ELSE <<>>]

MCRows ==
    [t \in Ticker |->
        IF t = First THEN <<[date |-> 1, close |-> 30], [date |-> 2, close |-> 20],
                            [date |-> 3, close |-> 25]>>
                     ELSE <<[date |-> 1, close |-> 7]>>]

MCPages == [text \in Text |-> IF text = Nothing THEN 2 ELSE 1]
=============================================================================
