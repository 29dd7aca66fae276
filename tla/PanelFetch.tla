----------------------------- MODULE PanelFetch -----------------------------
(***************************************************************************)
(* What the panels of the dashboard have in common: an effect that calls   *)
(* the server for what is chosen, and a continuation that takes whatever   *)
(* answer comes, in whatever order.  A behaviour has one panel: they share *)
(* nothing but the ticker list and the theme.  Loaded data is represented  *)
(* by the choice it was loaded for.                                        *)
(***************************************************************************)
EXTENDS Integers, Sequences, SequencesExt, FiniteSets

CONSTANTS
    Panels,         \* the panels to explore
    Ticker,
    First,          \* the first of the ticker list, which is chosen at the start
    MaxCalls,       \* bound: calls in flight
    None            \* null, and what nothing is drawn or loaded of

VARIABLES
    panel,
    query,          \* what is chosen: the dependencies of the panel's effect
    data, loading, error,
    calls,          \* calls in flight, in the order they were made
    overtaken,      \* observed: an answer overtook an earlier one since all was quiet
    overlapped,     \* observed: two calls were in flight since all was quiet
    view,           \* the rest of the panel's state, a record
    drawn           \* what its chart shows

fetchVars == <<query, data, loading, error, calls, overtaken, overlapped>>
panelVars == <<panel, fetchVars, view, drawn>>

ASSUME PanelAssumption == First \in Ticker /\ MaxCalls \in Nat \ {0}

\* useState before the first effect: nothing is chosen yet.
Untouched ==
    /\ query = None /\ data = None /\ loading = TRUE /\ error = FALSE
    /\ calls = <<>> /\ overtaken = FALSE /\ overlapped = FALSE /\ drawn = None

Remaining(i) == [k \in 1 .. Len(calls) - 1 |-> IF k < i THEN calls[k] ELSE calls[k + 1]]

\* A call is made.
Call(c) ==
    /\ Len(calls) < MaxCalls
    /\ calls' = Append(calls, c)
    /\ overlapped' = (calls # <<>>)
    /\ overtaken' = (overtaken /\ calls # <<>>)

\* Call i is over.
TakeCall(i) ==
    /\ calls' = Remaining(i)
    /\ overtaken' = (overtaken \/ i > 1)
    /\ UNCHANGED overlapped

\* load() up to its await, for the choice q.
Load(q) ==
    /\ query' = q /\ loading' = TRUE /\ error' = FALSE
    /\ Call(q)
    /\ UNCHANGED data

\* The rest of load(): the answer to call i is what is shown from now on.
CallAnswered(i) ==
    /\ TakeCall(i)
    /\ data' = calls[i] /\ loading' = FALSE
    /\ UNCHANGED <<query, error>>

\* Mutant: only an answer ends the loading.
CallFailedNoFinally(i) ==
    /\ TakeCall(i)
    /\ error' = TRUE
    /\ UNCHANGED <<query, data, loading>>

\* Its catch and finally: what was shown stays.
CallFailed(i) ==
    /\ TakeCall(i)
    /\ error' = TRUE /\ loading' = FALSE
    /\ UNCHANGED <<query, data>>

\* The first ticker is chosen when the list arrives, then the user may pick another.
MayPick(t) == IF query = None THEN t = First ELSE t # query

Quiet == calls = <<>> /\ query # None
Settled == Quiet /\ ~overtaken /\ ~error
=============================================================================
