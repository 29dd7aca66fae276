---------------------------- MODULE TickerPanels ----------------------------
(***************************************************************************)
(* The panels that show one ticker's data without a chart: the news with   *)
(* its article dialog, the fundamentals, and the table of daily bars with  *)
(* its sorting and pages.                                                  *)
(***************************************************************************)
EXTENDS PanelFetch

CONSTANTS
    Rows,           \* the rows of each ticker, records [date, close]
    PageSize        \* PAGE_SIZE, 50 in the source

ASSUME TableAssumption ==
    /\ Rows \in [Ticker -> Seq([date : Int, close : Int])]
    /\ PageSize \in Nat \ {0}

Columns == {"date", "close"}

TickerPanelInit ==
    \/ panel = "news" /\ Untouched /\ view = [article |-> None]
    \/ panel = "fundamentals" /\ Untouched /\ view = [none |-> None]
    \/ panel = "table" /\ Untouched /\ view = [col |-> "date", dir |-> "desc", page |-> 0]

-----------------------------------------------------------------------------
(* NewsFeed.tsx.  The dialog covers the rest while it is open.             *)

NewsLoads(t) ==
    /\ panel = "news" /\ view.article = None
    /\ MayPick(t) /\ Load(t)
    /\ UNCHANGED <<panel, view, drawn>>

NewsArrives ==
    /\ panel = "news"
    /\ \E i \in DOMAIN calls : CallAnswered(i) \/ CallFailed(i)
    /\ UNCHANGED <<panel, view, drawn>>

\* The list is replaced by its skeleton while any call is thought to be under way.
ArticleList == IF loading THEN None ELSE data

\* A click on one of its cards.
ArticleOpens ==
    /\ panel = "news" /\ view.article = None /\ ArticleList # None
    /\ view' = [article |-> ArticleList]
    /\ UNCHANGED <<panel, fetchVars, drawn>>

\* The dialog shows its article until it is closed.
ArticleCloses ==
    /\ panel = "news" /\ view.article # None
    /\ view' = [article |-> None]
    /\ UNCHANGED <<panel, fetchVars, drawn>>

-----------------------------------------------------------------------------
(* FundamentalsCard.tsx.                                                   *)

FundamentalsLoad(t) ==
    /\ panel = "fundamentals" /\ MayPick(t) /\ Load(t)
    /\ UNCHANGED <<panel, view, drawn>>

FundamentalsArrive ==
    /\ panel = "fundamentals"
    /\ \E i \in DOMAIN calls : CallAnswered(i) \/ CallFailed(i)
    /\ UNCHANGED <<panel, view, drawn>>

\* The name over the metrics and whose metrics they are.
Metrics == IF loading THEN None ELSE data

-----------------------------------------------------------------------------
(* DataTable.tsx.                                                          *)

\* Mutant: another ticker is shown from the page one was on.
SamePage == view

\* setPage(0) at the start of load().
FirstPage == [view EXCEPT !.page = 0]

TableLoads(t) ==
    /\ panel = "table" /\ MayPick(t) /\ Load(t)
    /\ view' = FirstPage
    /\ UNCHANGED <<panel, drawn>>

TableArrives ==
    /\ panel = "table"
    /\ \E i \in DOMAIN calls : CallAnswered(i) \/ CallFailed(i)
    /\ UNCHANGED <<panel, view, drawn>>

\* handleSort: the same column turns the order round, another one starts descending.
AfterSort(col) ==
    [col |-> col, page |-> 0,
     dir |-> IF col = view.col /\ view.dir = "desc" THEN "asc" ELSE "desc"]

TableSorts(col) ==
    /\ panel = "table" /\ view' = AfterSort(col)
    /\ UNCHANGED <<panel, fetchVars, drawn>>

TableRows == IF data = None THEN <<>> ELSE Rows[data]

Before(a, b) ==
    IF view.dir = "asc" THEN a[view.col] < b[view.col] ELSE a[view.col] > b[view.col]

\* toSorted is stable: row i comes after the rows before it in the order of the column
\* and after those that are equal and were before it.
Sorted ==
    LET rank == [i \in DOMAIN TableRows |->
                    Cardinality({j \in DOMAIN TableRows :
                        \/ Before(TableRows[j], TableRows[i])
                        \/ j <= i /\ ~Before(TableRows[i], TableRows[j])})]
    IN  [n \in DOMAIN TableRows |-> TableRows[CHOOSE i \in DOMAIN TableRows : rank[i] = n]]

PageRows ==
    LET from == view.page * PageSize
        to == IF from + PageSize < Len(Sorted) THEN from + PageSize ELSE Len(Sorted)
    IN  SubSeq(Sorted, from + 1, to)

\* The pages are offered when there are more rows than one holds, but not while loading.
Pages ==
    IF ~loading /\ Len(Sorted) > PageSize
    THEN 0 .. (Len(Sorted) - 1) \div PageSize
    ELSE {}

TableTurns ==
    /\ panel = "table"
    /\ \E p \in Pages \ {view.page} : view' = [view EXCEPT !.page = p]
    /\ UNCHANGED <<panel, fetchVars, drawn>>

-----------------------------------------------------------------------------

TickerPanelNext ==
    \/ \E t \in Ticker : NewsLoads(t) \/ FundamentalsLoad(t) \/ TableLoads(t)
    \/ NewsArrives \/ ArticleOpens \/ ArticleCloses
    \/ FundamentalsArrive
    \/ TableArrives \/ TableTurns \/ \E col \in Columns : TableSorts(col)

\* What the panel shows is of the ticker it names.  An article that is still open, or a
\* page that was turned, before a later list arrived may be of the earlier list.
TickerPanelShowsChoice ==
    /\ panel = "news" /\ Settled =>
          ArticleList = query /\ (~overlapped => view.article \in {None, query})
    /\ panel = "fundamentals" /\ Settled => Metrics = query
    /\ panel = "table" /\ Settled =>
          /\ data = query
          /\ ~overlapped => PageRows # <<>> \/ Rows[query] = <<>>
=============================================================================
