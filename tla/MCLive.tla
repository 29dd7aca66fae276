------------------------------- MODULE MCLive -------------------------------
(***************************************************************************)
(* A page below one connection.  The toast and the card read different     *)
(* parts of what it delivers and nothing of each other, so each behaviour  *)
(* has the one or the other on the page.                                   *)
(***************************************************************************)
EXTENDS AlertToast, TickerCard

VARIABLE onPage     \* "card" or "toast"

vars == <<liveVars, toastVars, cardVars, onPage>>

Init == LiveInit /\ ToastInit /\ CardInit /\ onPage \in {"card", "toast"}

Connection ==
    \/ TimerConnects \/ SocketOpens \/ SocketCloses \/ MessageArrives
    \/ NetworkDown \/ NetworkUp

ToastPage ==
    \/ ToastNext
    \/ (Connection \/ ServerAlerts) /\ UNCHANGED toastVars

Asks == \E t \in Ticker, action \in {"subscribe", "unsubscribe"} : Ask(action, t)

CardPage ==
    \/ CardNext
    \/ /\ \/ Connection \/ Asks \/ ServerHandles
          \/ \E t \in Listed : ServerPushes(t) \/ MarketMoves(t)
       /\ UNCHANGED cardVars

Next ==
    /\ UNCHANGED onPage
    /\ \/ onPage = "toast" /\ ToastPage /\ UNCHANGED cardVars
       \/ onPage = "card" /\ CardPage /\ UNCHANGED toastVars

\* The browser runs what is due; the server's poller keeps its rounds.
Spec ==
    /\ Init /\ [][Next]_vars
    /\ LiveFairness
    /\ WF_toastVars(ToastEffect) /\ WF_cardVars(CardRenders)
    /\ \A t \in Listed : SF_liveVars(onPage = "card" /\ ServerPushes(t))

\* Every part of the page is well typed.
PageTypeOK == LiveTypeOK /\ ToastTypeOK /\ CardTypeOK

\* A card that shows a live price never goes back to an older one, whatever
\* reconnects, and whatever late answer to an overview request arrives, as long
\* as the server itself has live quotes to send.
LiveNeverGoesBack == [][live => shown' >= shown]_vars

\* Once the server stays reachable the page ends up connected or has given up for
\* good, and connected its card ends up with the newest price unless
\* what it is subscribed to keeps the ticker from it.
CatchesUp ==
    <>[]net =>
        \/ <>[]GivenUp
        \/ /\ <>[](status = "connected")
           /\ <>[](onPage = "card" /\ Pushed(CardTicker)) => <>[](shown = market[CardTicker])

NewestAlert(a) == alerts # <<>> /\ Head(alerts) = a

\* The newest alert gets its toast, at once or before, unless a newer one replaces
\* it before the page renders.
NewestAlertToasted ==
    \A a \in AlertId : NewestAlert(a) ~> (a \in shownIds \/ ~NewestAlert(a))
=============================================================================
