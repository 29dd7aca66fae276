----------------------------- MODULE TickerList -----------------------------
(***************************************************************************)
(* useTickers.ts: the list of tickers that most panels start from.  All    *)
(* that are mounted share one call and, once it is answered, one cache.    *)
(* Data is cachedTickers; in view are inflightPromise and what each panel  *)
(* got: it waits, has the list, or has none after a failure.               *)
(***************************************************************************)
EXTENDS PanelFetch

CONSTANT Hook       \* the panels on the pages that use the list

ASSUME TickersAssumption == None # "all"

TickerListInit ==
    /\ panel = "tickers"
    /\ query = "all" /\ data = None /\ loading = FALSE /\ error = FALSE
    /\ calls = <<>> /\ overtaken = FALSE /\ overlapped = FALSE /\ drawn = None
    /\ view = [inflight |-> FALSE, hooks |-> [h \in Hook |-> "away"]]

Waiting == {h \in Hook : view.hooks[h] = "waiting"}

\* The effect of a panel that is mounted: the cache, the call under way or a new one.
TickersMount(h) ==
    /\ panel = "tickers" /\ view.hooks[h] = "away"
    /\ view' = [view EXCEPT !.hooks[h] = IF data = None THEN "waiting" ELSE "has",
                            !.inflight = @ \/ data = None]
    /\ loading' = (loading \/ data = None)
    /\ calls' = IF data = None /\ ~view.inflight THEN Append(calls, query) ELSE calls
    /\ UNCHANGED <<panel, query, data, error, overtaken, overlapped, drawn>>

\* Its cleanup: it does not want the answer any more, the others still do.
TickersUnmount(h) ==
    /\ panel = "tickers" /\ view.hooks[h] # "away"
    /\ view' = [view EXCEPT !.hooks[h] = "away"]
    /\ loading' = (Waiting \ {h} # {})
    /\ UNCHANGED <<panel, query, data, error, calls, overtaken, overlapped, drawn>>

\* What those that wait get.
Settle(hooks, got) == [h \in Hook |-> IF hooks[h] = "waiting" THEN got ELSE hooks[h]]

\* Mutant: the call that failed stays the one under way.
FailureKept == [view EXCEPT !.hooks = Settle(@, "none")]

\* The catch of loadTickers and those of the panels.
FailureForgotten == [view EXCEPT !.hooks = Settle(@, "none"), !.inflight = FALSE]

NamesArrive ==
    /\ panel = "tickers"
    /\ \E i \in DOMAIN calls : calls' = Remaining(i)
    /\ \/ data' = query /\ view' = [view EXCEPT !.hooks = Settle(@, "has"), !.inflight = FALSE]
       \/ view' = FailureForgotten /\ UNCHANGED data
    /\ loading' = FALSE
    /\ UNCHANGED <<panel, query, error, overtaken, overlapped, drawn>>

TickerListNext ==
    \/ \E h \in Hook : TickersMount(h) \/ TickersUnmount(h)
    \/ NamesArrive

\* However panels come and go, there is at most one call, it is the one that is
\* remembered, nobody waits without it, and nobody has another list than the cache.  After
\* a failure whoever comes next tries again.
TickersShared ==
    panel = "tickers" =>
        /\ Len(calls) <= 1
        /\ view.inflight <=> calls # <<>>
        /\ Waiting # {} => view.inflight /\ data = None
        /\ \A h \in Hook : view.hooks[h] = "has" => data # None
=============================================================================
