----------------------------- MODULE LivePrices -----------------------------
(***************************************************************************)
(* The page's end of the live prices: the hook usePriceWebSocket, whose    *)
(* state PriceProvider hands to every component below it.  The server's    *)
(* half of the connection (its set of subscriptions, the two directions in *)
(* flight) is kept only as far as the page can tell; PriceHub has the rest *)
(* of it.  A price is the number of its market move, as the server has it: *)
(* the last stored close, which the poller sends when no live quote can be *)
(* had, is left out.  So is the ping, for the server skips its answer.     *)
(***************************************************************************)
EXTENDS Integers, Sequences

CONSTANTS
    Ticker,
    Listed,         \* the tickers the server has prices of
    AlertId,
    MaxAttempts,    \* MAX_RECONNECT_ATTEMPTS, 10 in the source
    MaxAlerts,      \* MAX_ALERTS, 10 in the source
    MaxMoves,       \* bound: moves of a ticker's price
    MaxFiring,      \* bound: alert messages of the server
    MaxInFlight     \* bound: messages in flight, and requests queued, per direction

ASSUME LiveAssumption ==
    /\ Listed \subseteq Ticker
    /\ {MaxAttempts, MaxAlerts, MaxInFlight, MaxMoves} \subseteq Nat \ {0}
    /\ MaxFiring \in Nat

VARIABLES
    net,            \* whether the server can be reached
    socket,         \* the WebSocket in wsRef
    timer,          \* a reconnect is scheduled
    attempts,       \* attemptsRef
    status,
    pending,        \* pendingSubRef: messages asked for while no socket was open
    subscribed,     \* subscribedTickers: the last acknowledgement
    prices,         \* last price of each ticker, 0 before the first
    alerts,         \* triggered alerts, newest batch first
    serverSubs,     \* the server's subscriptions of this connection
    toServer, toClient,
    market,         \* the price the server has
    firings,        \* alert messages sent so far
    failures,       \* observed: connects in a row that never opened
    wanted,         \* observed: what subscribe and unsubscribe asked for in all
    forgotten       \* observed: subscriptions, or messages in flight, were lost

link == <<socket, timer, attempts, status, failures>>
page == <<prices, alerts, subscribed>>
server == <<serverSubs, market, firings>>
interest == <<pending, wanted, forgotten>>
liveVars == <<net, link, page, server, interest, toServer, toClient>>

Subscription == [action : {"subscribe", "unsubscribe"}, ticker : Ticker]

Ack(S) == [kind |-> "ack", tickers |-> S]
Prices(t, p) == [kind |-> "prices", ticker |-> t, price |-> p]
Alerts(ids) == [kind |-> "alerts", ids |-> ids]

\* The first render and the effect that connects.
LiveInit ==
    /\ net = TRUE
    /\ socket = "connecting" /\ status = "connecting"
    /\ timer = FALSE /\ attempts = 0 /\ failures = 0
    /\ pending = <<>> /\ subscribed = {} /\ wanted = {} /\ forgotten = FALSE
    /\ prices = [t \in Listed |-> 0] /\ alerts = <<>>
    /\ serverSubs = {} /\ toServer = <<>> /\ toClient = <<>>
    /\ market = [t \in Listed |-> 1] /\ firings = 0

-----------------------------------------------------------------------------
(* The hook's own operations.                                              *)

\* sendMessage: straight out on an open socket, else kept for the next one.
\* A socket whose link is lost is still OPEN: what is sent on it is lost.
SendMessage(msg) ==
    CASE socket = "open"   -> toServer' = Append(toServer, msg) /\ UNCHANGED <<pending, forgotten>>
      [] socket = "broken" -> forgotten' = TRUE /\ UNCHANGED <<toServer, pending>>
      [] OTHER             -> pending' = Append(pending, msg) /\ UNCHANGED <<toServer, forgotten>>

\* subscribe and unsubscribe, one message per ticker.
Ask(action, t) ==
    /\ Len(toServer) < MaxInFlight /\ Len(pending) < MaxInFlight
    /\ SendMessage([action |-> action, ticker |-> t])
    /\ wanted' = (IF action = "subscribe" THEN wanted \cup {t} ELSE wanted \ {t})
    /\ UNCHANGED <<net, link, page, server, toClient>>

\* connect returns at once if the socket is OPEN.
MayConnect == socket \notin {"open", "broken"}

\* The reconnect timer calls connect.
TimerConnects ==
    /\ timer
    /\ timer' = FALSE
    /\ IF MayConnect THEN socket' = "connecting" /\ status' = "connecting"
                     ELSE UNCHANGED <<socket, status>>
    /\ UNCHANGED <<net, attempts, failures, page, server, interest, toServer, toClient>>

\* Mutant: what was asked for while offline is not sent.
FlushNothing == /\ pending' = <<>> /\ toServer' = <<>>

\* Every pending message is sent, in order, on the new socket.
Flush == /\ pending' = <<>> /\ toServer' = pending

\* The open event.
SocketOpens ==
    /\ net /\ socket = "connecting"
    /\ socket' = "open" /\ status' = "connected"
    /\ attempts' = 0 /\ failures' = 0
    /\ Flush
    /\ UNCHANGED <<net, timer, page, server, wanted, forgotten, toClient>>

\* Mutant: the last attempt is not followed by another.
GiveUpEarly == attempts + 1 < MaxAttempts

MayRetry == attempts < MaxAttempts

\* The close event: of a connection attempt that failed (an error event closes
\* the socket), or of one that was open.  What was in flight is gone.
SocketCloses ==
    /\ socket = "broken" \/ (socket = "connecting" /\ ~net)
    /\ socket' = "none" /\ status' = "disconnected"
    /\ failures' = (IF socket = "connecting" THEN failures + 1 ELSE failures)
    /\ IF MayRetry THEN attempts' = attempts + 1 /\ timer' = TRUE
                   ELSE UNCHANGED <<attempts, timer>>
    /\ toClient' = <<>>
    /\ UNCHANGED <<net, page, server, interest, toServer>>

\* Mutant: the list of alerts is not cut.
KeepAllAlerts(ids, old) == ids \o old

\* [...newAlerts, ...prev].slice(0, MAX_ALERTS)
PrependAlerts(ids, old) ==
    LET all == ids \o old
    IN  SubSeq(all, 1, IF Len(all) < MaxAlerts THEN Len(all) ELSE MaxAlerts)

\* Mutant: the first price of a ticker stays.
FirstPriceStays(old, t, price) == IF old[t] = 0 THEN [old EXCEPT ![t] = price] ELSE old

\* next[update.ticker] = update
MergePrice(old, t, price) == [old EXCEPT ![t] = price]

\* The message event.
MessageArrives ==
    /\ socket \in {"open", "broken"} /\ toClient # <<>>
    /\ toClient' = Tail(toClient)
    /\ LET msg == Head(toClient) IN
       \/ /\ msg.kind = "ack"
          /\ subscribed' = msg.tickers
          /\ UNCHANGED <<prices, alerts>>
       \/ /\ msg.kind = "prices"
          /\ prices' = MergePrice(prices, msg.ticker, msg.price)
          /\ UNCHANGED <<subscribed, alerts>>
       \/ /\ msg.kind = "alerts"
          /\ alerts' = PrependAlerts(msg.ids, alerts)
          /\ UNCHANGED <<prices, subscribed>>
    /\ UNCHANGED <<net, link, server, interest, toServer>>

LivePage ==
    \/ \E t \in Ticker, action \in {"subscribe", "unsubscribe"} : Ask(action, t)
    \/ TimerConnects \/ SocketOpens \/ SocketCloses \/ MessageArrives

-----------------------------------------------------------------------------
(* The server and the network.                                             *)

\* A subscribe or unsubscribe message is handled and acknowledged.
ServerHandles ==
    /\ socket = "open" /\ toServer # <<>> /\ Len(toClient) < MaxInFlight
    /\ toServer' = Tail(toServer)
    /\ LET msg == Head(toServer)
       IN  serverSubs' = IF msg.action = "subscribe" THEN serverSubs \cup {msg.ticker}
                                                     ELSE serverSubs \ {msg.ticker}
    /\ toClient' = Append(toClient, Ack(serverSubs'))
    /\ UNCHANGED <<net, link, page, market, firings, interest>>

Pushed(t) == serverSubs = {} \/ t \in serverSubs

\* A round of the poller: a connection without subscriptions gets every ticker.
ServerPushes(t) ==
    /\ socket = "open" /\ Pushed(t) /\ Len(toClient) < MaxInFlight
    /\ toClient' = Append(toClient, Prices(t, market[t]))
    /\ UNCHANGED <<net, link, page, server, interest, toServer>>

\* The alerts of one round are one message.
ServerAlerts ==
    /\ socket = "open" /\ firings < MaxFiring /\ Len(toClient) < MaxInFlight
    /\ firings' = firings + 1
    /\ \E a, b \in AlertId :
          toClient' = Append(toClient, Alerts(IF a = b THEN <<a>> ELSE <<a, b>>))
    /\ UNCHANGED <<net, link, page, serverSubs, market, interest, toServer>>

MarketMoves(t) ==
    /\ market[t] < MaxMoves
    /\ market' = [market EXCEPT ![t] = @ + 1]
    /\ UNCHANGED <<net, link, page, serverSubs, firings, interest, toServer, toClient>>

\* The server goes away and with it the link of an open socket: what is in
\* flight to the server is lost, what is in flight to the page may arrive.
NetworkDown ==
    /\ net /\ net' = FALSE
    /\ socket' = (IF socket = "open" THEN "broken" ELSE socket)
    /\ toServer' = <<>>
    /\ forgotten' = (forgotten \/ serverSubs # {} \/ toServer \o toClient # <<>>)
    /\ serverSubs' = {}
    /\ UNCHANGED <<timer, attempts, status, failures, page, market, firings, pending, wanted,
                   toClient>>

NetworkUp ==
    /\ ~net /\ net' = TRUE
    /\ UNCHANGED <<link, page, server, interest, toServer, toClient>>

LiveWorld ==
    \/ ServerHandles \/ ServerAlerts \/ NetworkDown \/ NetworkUp
    \/ \E t \in Listed : ServerPushes(t) \/ MarketMoves(t)

LiveNext == LivePage \/ LiveWorld

LiveSpec == LiveInit /\ [][LiveNext]_liveVars

\* The browser fires its timers and its socket events; the server's loops run.
LiveFairness ==
    /\ WF_liveVars(TimerConnects)
    /\ WF_liveVars(SocketOpens)
    /\ WF_liveVars(SocketCloses)
    /\ WF_liveVars(MessageArrives)

-----------------------------------------------------------------------------
(* Properties.                                                             *)

LiveTypeOK ==
    /\ net \in BOOLEAN /\ timer \in BOOLEAN /\ forgotten \in BOOLEAN
    /\ socket \in {"none", "connecting", "open", "broken"}
    /\ status \in {"disconnected", "connecting", "connected"}
    /\ attempts \in 0 .. MaxAttempts /\ failures \in 0 .. MaxAttempts + 1
    /\ pending \in Seq(Subscription) /\ toServer \in Seq(Subscription)
    /\ {subscribed, wanted, serverSubs} \subseteq SUBSET Ticker
    /\ prices \in [Listed -> 0 .. MaxMoves] /\ market \in [Listed -> 0 .. MaxMoves]
    /\ alerts \in Seq(AlertId) /\ Len(alerts) <= MaxAlerts
    /\ firings \in 0 .. MaxFiring

GivenUp == socket = "none" /\ ~timer

\* The hook never has two sockets, nor a socket and a timer that will open a second
\* one, it says what it has, and it stops trying only after MaxAttempts connects in
\* a row have failed.
OneConnection ==
    /\ socket # "none" => ~timer
    /\ GivenUp => failures >= MaxAttempts
    /\ status = (CASE socket = "none"       -> "disconnected"
                   [] socket = "connecting" -> "connecting"
                   [] OTHER                 -> "connected")

\* What the page asked for, the server has and the page has been told, once all
\* is delivered, whatever was asked for offline: unless a connection was lost
\* that had subscriptions, or messages that had not arrived, since neither are
\* asked for or sent again.
InterestKept ==
    socket = "open" /\ toServer = <<>> /\ ~forgotten =>
        /\ serverSubs = wanted
        /\ toClient = <<>> => subscribed = wanted
=============================================================================
