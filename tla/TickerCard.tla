----------------------------- MODULE TickerCard -----------------------------
(***************************************************************************)
(* The price on an overview card: the two lines of TickerOverview.tsx that *)
(* choose between the live price of LivePrices and the close of the        *)
(* overview request, whose answer the server composes before it arrives.   *)
(***************************************************************************)
EXTENDS LivePrices

CONSTANTS
    CardTicker,     \* the ticker of the card
    MaxReloads      \* bound: overview requests

ASSUME CardAssumption == CardTicker \in Listed /\ MaxReloads \in Nat

NoPrice == 0        \* null, or undefined

VARIABLES
    close,          \* latest.close of the loaded item
    reload,         \* closes composed by the server and not yet arrived
    reloads,        \* overview requests so far
    shown,          \* displayClose of the last render
    live            \* isLive of the last render: the LIVE badge

cardVars == <<close, reload, reloads, shown, live>>

CardInit ==
    /\ close = NoPrice /\ reload = {} /\ reloads = 0
    /\ shown = NoPrice /\ live = FALSE

\* The server composes the answer to an overview request.
OverviewComposed ==
    /\ reloads < MaxReloads
    /\ reloads' = reloads + 1
    /\ reload' = reload \cup {market[CardTicker]}
    /\ UNCHANGED <<close, shown, live, liveVars>>

\* It arrives; the answer to a superseded request is dropped.
OverviewArrives ==
    /\ \E c \in reload :
          /\ reload' = reload \ {c}
          /\ close' \in {c, close}
    /\ UNCHANGED <<reloads, shown, live, liveVars>>

IsLive == prices[CardTicker] # NoPrice

\* Mutant: the loaded close wins over the live price.
LoadedFirst == IF close # NoPrice THEN close ELSE prices[CardTicker]

\* liveData ? liveData.close : (item.latest?.close ?? null)
DisplayClose == IF IsLive THEN prices[CardTicker] ELSE close

CardRenders ==
    /\ <<shown, live>> # <<DisplayClose, IsLive>>
    /\ shown' = DisplayClose /\ live' = IsLive
    /\ UNCHANGED <<close, reload, reloads, liveVars>>

CardNext == OverviewComposed \/ OverviewArrives \/ CardRenders

CardTypeOK ==
    /\ {close, shown} \cup reload \subseteq 0 .. MaxMoves
    /\ reloads \in 0 .. MaxReloads /\ live \in BOOLEAN
=============================================================================
