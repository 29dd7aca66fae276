---------------------------- MODULE SearchPanels ----------------------------
(***************************************************************************)
(* The inputs that search while one types: the overview with its pages,    *)
(* the search box and the command palette.  Each waits for a pause in the  *)
(* typing; only the overview ignores the answers it no longer wants.       *)
(***************************************************************************)
EXTENDS PanelFetch

CONSTANTS
    Word,           \* what may be typed, besides nothing
    TotalPages      \* the pages of the tickers that match a text

Nothing == "nothing"
Text == Word \cup {Nothing}

-----------------------------------------------------------------------------
(* TickerOverview.tsx.  A call remembers whether its effect was cancelled. *)

\* Mutant: an effect is not cancelled by the next one.
CancelNone == calls

\* The cleanup of the effect before the next one runs.
CancelAll == [i \in DOMAIN calls |-> [calls[i] EXCEPT !.live = FALSE]]

OverviewLoads(q) ==
    /\ Len(calls) < MaxCalls
    /\ query' = q /\ loading' = TRUE /\ error' = FALSE
    /\ calls' = Append(CancelAll, [q |-> q, live |-> TRUE])
    /\ UNCHANGED <<data, overtaken, overlapped, panel, drawn>>

\* handleSearchChange: the timer starts again.  Before the first load is over there is
\* no input yet.
OverviewTypes(text) ==
    /\ panel = "overview" /\ view.loaded /\ text # view.typed
    /\ view' = [view EXCEPT !.typed = text, !.timer = TRUE]
    /\ UNCHANGED <<panel, fetchVars, drawn>>

\* Its pause is over: the first page of what matches.
OverviewSearches ==
    /\ panel = "overview" /\ view.timer
    /\ view' = [view EXCEPT !.timer = FALSE]
    /\ LET q == [page |-> 1, search |-> view.typed]
       IN  IF q = query THEN UNCHANGED <<panel, fetchVars, drawn>> ELSE OverviewLoads(q)

\* The pages offered are those of the data.
OverviewTurns ==
    /\ panel = "overview" /\ data # None
    /\ \E p \in 1 .. TotalPages[data.search] \ {query.page} :
          OverviewLoads([query EXCEPT !.page = p])
    /\ UNCHANGED view

\* The answer to a cancelled call changes nothing, nor does its failure.
OverviewArrives ==
    /\ panel = "overview"
    /\ \E i \in DOMAIN calls :
          /\ calls' = Remaining(i)
          /\ view' = [view EXCEPT !.loaded = @ \/ calls[i].live]
          /\ \/ ~calls[i].live /\ UNCHANGED <<data, loading, error>>
             \/ calls[i].live /\ loading' = FALSE /\ data' = calls[i].q /\ UNCHANGED error
             \/ calls[i].live /\ loading' = FALSE /\ error' = TRUE /\ UNCHANGED data
    /\ UNCHANGED <<panel, query, overtaken, overlapped, drawn>>

-----------------------------------------------------------------------------
(* TickerSearch.tsx.  Error is observed here: the source shows no results. *)

\* An emptied input has its results at once: they overtake a call in flight.
Emptied == data' = None /\ overtaken' = (calls # <<>>)

\* The effect on the input: without text it returns early, with a text it is loading
\* before the pause is over.
SearchTypes(text) ==
    /\ panel = "search" /\ text # query
    /\ query' = text
    /\ IF text = Nothing
       THEN Emptied /\ view' = [timer |-> FALSE] /\ UNCHANGED loading
       ELSE loading' = TRUE /\ view' = [timer |-> TRUE] /\ UNCHANGED <<data, overtaken>>
    /\ UNCHANGED <<panel, calls, error, overlapped, drawn>>

\* The pause is over.
SearchCalls ==
    /\ panel = "search" /\ view.timer
    /\ view' = [timer |-> FALSE]
    /\ Call(query)
    /\ UNCHANGED <<panel, query, data, loading, error, drawn>>

\* An answer's results, or none if the call failed.
TakeResults ==
    \E i \in DOMAIN calls :
        /\ TakeCall(i) /\ loading' = FALSE
        /\ \/ data' = calls[i] /\ error' = FALSE
           \/ data' = None /\ error' = TRUE

SearchArrives == panel = "search" /\ TakeResults /\ UNCHANGED <<panel, query, view, drawn>>

-----------------------------------------------------------------------------
(* CommandPalette.tsx.                                                     *)

\* The keys open it, and close it as it is.
PaletteToggles ==
    /\ panel = "palette"
    /\ view' = [view EXCEPT !.open = ~@]
    /\ UNCHANGED <<panel, fetchVars, drawn>>

\* handleClose: by the escape key, or once a ticker, a section, the portfolio or the
\* theme was chosen.
PaletteCloses ==
    /\ panel = "palette" /\ view.open
    /\ query' = Nothing /\ loading' = FALSE /\ Emptied
    /\ view' = [open |-> FALSE, timer |-> FALSE]
    /\ UNCHANGED <<panel, calls, error, overlapped, drawn>>

\* The effect on the query.
PaletteTypes(text) ==
    /\ panel = "palette" /\ view.open /\ text # query
    /\ query' = text
    /\ IF text = Nothing
       THEN Emptied /\ loading' = FALSE /\ view' = [view EXCEPT !.timer = FALSE]
       ELSE loading' = TRUE /\ view' = [view EXCEPT !.timer = TRUE] /\ UNCHANGED <<data, overtaken>>
    /\ UNCHANGED <<panel, calls, error, overlapped, drawn>>

PaletteCalls ==
    /\ panel = "palette" /\ view.timer
    /\ view' = [view EXCEPT !.timer = FALSE]
    /\ Call(query)
    /\ UNCHANGED <<panel, query, data, loading, error, drawn>>

PaletteArrives == panel = "palette" /\ TakeResults /\ UNCHANGED <<panel, query, view, drawn>>

\* The group of tickers: what matches, unless it is still looked for.
PaletteTickers == IF loading THEN None ELSE data

-----------------------------------------------------------------------------

SearchInit ==
    /\ drawn = None /\ error = FALSE /\ overtaken = FALSE /\ overlapped = FALSE /\ data = None
    /\ \/ /\ panel = "overview" /\ loading = TRUE
          /\ query = [page |-> 1, search |-> Nothing]
          /\ calls = <<[q |-> query, live |-> TRUE]>>
          /\ view = [typed |-> Nothing, timer |-> FALSE, loaded |-> FALSE]
       \/ /\ panel = "search" /\ loading = FALSE
          /\ query = Nothing /\ calls = <<>> /\ view = [timer |-> FALSE]
       \/ /\ panel = "palette" /\ loading = FALSE
          /\ query = Nothing /\ calls = <<>> /\ view = [open |-> FALSE, timer |-> FALSE]

SearchNext ==
    \/ \E text \in Text : OverviewTypes(text) \/ SearchTypes(text) \/ PaletteTypes(text)
    \/ OverviewSearches \/ OverviewTurns \/ OverviewArrives
    \/ SearchCalls \/ SearchArrives
    \/ PaletteToggles \/ PaletteCloses \/ PaletteCalls \/ PaletteArrives

Wanted == IF query = Nothing THEN None ELSE query

\* Once the typing and the calls are over, the results are those of the text, if no late
\* answer overtook what was wanted after it.  The overview needs no such luck: not
\* loading, it shows the page and the search it names in whatever order answers come.
SearchShowsText ==
    /\ panel = "overview" /\ ~loading /\ ~error => data = query
    /\ panel = "overview" => (loading <=> \E i \in DOMAIN calls : calls[i].live)
    /\ panel \in {"search", "palette"} /\ calls = <<>> /\ ~view.timer /\ ~overtaken /\ ~error =>
          data = Wanted
=============================================================================
