--------------------------- MODULE LivePageProofs ---------------------------
(***************************************************************************)
(* The connection of the page, and the page below it: there are never two  *)
(* connections, the hook gives up only when it may, what the page asked    *)
(* for arrives, the card's live price never goes back to an older one, and *)
(* card and toast stay well typed, for any tickers, alerts and bounds.     *)
(***************************************************************************)
EXTENDS MCLive, TLAPS

-----------------------------------------------------------------------------
(* The connection.                                                         *)


(***************************************************************************)
(* Where a reconnect is counted: an open socket has used no attempt, since *)
(* then each attempt but the first was used by a connect that failed, and  *)
(* unless the hook has given up each such connect used one.                *)
(***************************************************************************)
AttemptsOK ==
    /\ socket \in {"open", "broken"} => attempts = 0
    /\ attempts <= failures + 1
    /\ ~GivenUp => failures <= attempts

Message ==
    [kind : {"ack"}, tickers : SUBSET Ticker]
        \cup [kind : {"prices"}, ticker : Listed, price : 0 .. MaxMoves]
        \cup [kind : {"alerts"}, ids : Seq(AlertId)]

TypeInv == LiveTypeOK /\ toClient \in Seq(Message)

LinkInv == TypeInv /\ OneConnection /\ AttemptsOK

-----------------------------------------------------------------------------
(* Types.                                                                  *)

LEMMA Bounds ==
    /\ MaxAttempts \in Nat /\ MaxAttempts > 0
    /\ MaxAlerts \in Nat /\ MaxMoves \in Nat /\ MaxMoves > 0
    /\ MaxFiring \in Nat
BY LiveAssumption

LEMMA PrependType ==
    ASSUME NEW ids \in Seq(AlertId), NEW old \in Seq(AlertId)
    PROVE  PrependAlerts(ids, old) \in Seq(AlertId) /\ Len(PrependAlerts(ids, old)) <= MaxAlerts
<1> DEFINE all == ids \o old
           n == IF Len(all) < MaxAlerts THEN Len(all) ELSE MaxAlerts
<1>1. all \in Seq(AlertId)
  OBVIOUS
<1>2. n \in Nat /\ n <= Len(all) /\ n <= MaxAlerts
  BY <1>1, LiveAssumption
<1>3. \A i \in 1 .. n : all[i] \in AlertId
  BY <1>1, <1>2
<1>4. SubSeq(all, 1, n) \in Seq(AlertId) /\ Len(SubSeq(all, 1, n)) = n
  BY <1>1, <1>2, <1>3
<1> HIDE DEF n, all
<1>5. PrependAlerts(ids, old) = SubSeq(all, 1, n)
  BY DEF PrependAlerts, n, all
<1> QED BY <1>2, <1>4, <1>5

\* A hook that is started has not used an attempt.
LEMMA LinkInit == LiveInit => LinkInv
<1> SUFFICES ASSUME LiveInit PROVE LinkInv
  OBVIOUS
<1>1. TypeInv
  <2>1. /\ net \in BOOLEAN /\ timer \in BOOLEAN /\ forgotten \in BOOLEAN
        /\ socket \in {"none", "connecting", "open", "broken"}
        /\ status \in {"disconnected", "connecting", "connected"}
    BY DEF LiveInit
  <2>2. attempts \in 0 .. MaxAttempts /\ failures \in 0 .. MaxAttempts + 1 /\ firings \in 0 .. MaxFiring
    BY Bounds DEF LiveInit
  <2>3. /\ pending \in Seq(Subscription) /\ toServer \in Seq(Subscription)
        /\ toClient \in Seq(Message)
    BY DEF LiveInit
  <2>4. {subscribed, wanted, serverSubs} \subseteq SUBSET Ticker
    BY DEF LiveInit
  <2>5. prices \in [Listed -> 0 .. MaxMoves] /\ market \in [Listed -> 0 .. MaxMoves]
    BY Bounds DEF LiveInit
  <2>6. alerts \in Seq(AlertId) /\ Len(alerts) <= MaxAlerts
    BY Bounds DEF LiveInit
  <2> QED BY <2>1, <2>2, <2>3, <2>4, <2>5, <2>6 DEF TypeInv, LiveTypeOK
<1>2. OneConnection /\ AttemptsOK
  BY DEF LiveInit, OneConnection, AttemptsOK, GivenUp
<1> QED BY <1>1, <1>2 DEF LinkInv

\* The actions that leave the link to itself.
LEMMA LinkKept == LinkInv /\ UNCHANGED link => OneConnection' /\ AttemptsOK'
BY DEF LinkInv, link, OneConnection, AttemptsOK, GivenUp

LEMMA TypeStep == TypeInv /\ AttemptsOK /\ OneConnection /\ [LiveNext]_liveVars => TypeInv'
<1> SUFFICES ASSUME TypeInv, AttemptsOK, OneConnection, [LiveNext]_liveVars PROVE TypeInv'
  OBVIOUS
<1> USE LiveAssumption
<1>1. ASSUME NEW t \in Ticker, NEW a \in {"subscribe", "unsubscribe"}, Ask(a, t) PROVE TypeInv'
  <2>1. [action |-> a, ticker |-> t] \in Subscription
    BY DEF Subscription
  <2>2. /\ pending' \in Seq(Subscription) /\ toServer' \in Seq(Subscription)
        /\ forgotten' \in BOOLEAN
    <3> DEFINE msg == [action |-> a, ticker |-> t]
    <3>1. CASE socket = "open"
      <4>1. toServer' = Append(toServer, msg) /\ UNCHANGED <<pending, forgotten>>
        BY <1>1, <3>1 DEF Ask, SendMessage
      <4> QED BY <2>1, <4>1 DEF TypeInv, LiveTypeOK
    <3>2. CASE socket = "broken"
      <4>1. forgotten' = TRUE /\ UNCHANGED <<toServer, pending>>
        BY <1>1, <3>2 DEF Ask, SendMessage
      <4> QED BY <4>1 DEF TypeInv, LiveTypeOK
    <3>3. CASE socket \notin {"open", "broken"}
      <4>1. pending' = Append(pending, msg) /\ UNCHANGED <<toServer, forgotten>>
        BY <1>1, <3>3 DEF Ask, SendMessage
      <4> QED BY <2>1, <4>1 DEF TypeInv, LiveTypeOK
    <3> QED BY <3>1, <3>2, <3>3
  <2>3. wanted' \in SUBSET Ticker
    BY <1>1 DEF Ask, TypeInv, LiveTypeOK
  <2> QED BY <1>1, <2>2, <2>3 DEF Ask, TypeInv, LiveTypeOK, link, page, server
<1>2. CASE TimerConnects
  BY <1>2 DEF TimerConnects, MayConnect, TypeInv, LiveTypeOK, page, server, interest
<1>3. CASE SocketOpens
  BY <1>3 DEF SocketOpens, Flush, TypeInv, LiveTypeOK, page, server
<1>4. CASE SocketCloses
  <2>1. attempts' \in 0 .. MaxAttempts /\ timer' \in BOOLEAN
    <3>1. CASE MayRetry
      <4>1. attempts' = attempts + 1 /\ timer' = TRUE
        BY <1>4, <3>1 DEF SocketCloses
      <4> QED BY <3>1, <4>1, Bounds DEF MayRetry, TypeInv, LiveTypeOK
    <3>2. CASE ~MayRetry
      <4>1. UNCHANGED <<attempts, timer>>
        BY <1>4, <3>2 DEF SocketCloses
      <4> QED BY <4>1 DEF TypeInv, LiveTypeOK
    <3> QED BY <3>1, <3>2
  <2>2. failures' \in 0 .. MaxAttempts + 1
    BY <1>4 DEF SocketCloses, TypeInv, LiveTypeOK, AttemptsOK, OneConnection, GivenUp
  <2> QED BY <1>4, <2>1, <2>2 DEF SocketCloses, TypeInv, LiveTypeOK, page, server, interest
<1>5. CASE MessageArrives
  <2> DEFINE msg == Head(toClient)
  <2>1. msg \in Message /\ toClient' \in Seq(Message)
    BY <1>5 DEF MessageArrives, TypeInv
  <2>2. CASE msg.kind = "ack" /\ subscribed' = msg.tickers /\ UNCHANGED <<prices, alerts>>
    <3>1. msg.tickers \in SUBSET Ticker
      BY <2>1, <2>2 DEF Message
    <3> QED BY <1>5, <2>1, <2>2, <3>1 DEF MessageArrives, TypeInv, LiveTypeOK, link, server, interest
  <2>3. CASE msg.kind = "prices" /\ prices' = MergePrice(prices, msg.ticker, msg.price)
             /\ UNCHANGED <<subscribed, alerts>>
    <3>1. msg.ticker \in Listed /\ msg.price \in 0 .. MaxMoves
      BY <2>1, <2>3 DEF Message
    <3>2. prices' \in [Listed -> 0 .. MaxMoves]
      BY <2>3, <3>1 DEF MergePrice, TypeInv, LiveTypeOK
    <3> QED BY <1>5, <2>1, <2>3, <3>2 DEF MessageArrives, TypeInv, LiveTypeOK, link, server, interest
  <2>4. CASE msg.kind = "alerts" /\ alerts' = PrependAlerts(msg.ids, alerts)
             /\ UNCHANGED <<prices, subscribed>>
    <3>1. msg.ids \in Seq(AlertId)
      BY <2>1, <2>4 DEF Message
    <3>2. alerts' \in Seq(AlertId) /\ Len(alerts') <= MaxAlerts
      BY <2>4, <3>1, PrependType DEF TypeInv, LiveTypeOK
    <3> QED BY <1>5, <2>1, <2>4, <3>2 DEF MessageArrives, TypeInv, LiveTypeOK, link, server, interest
  <2> QED BY <1>5, <2>2, <2>3, <2>4 DEF MessageArrives
<1>6. CASE ServerHandles
  <2>1. Head(toServer) \in Subscription /\ toServer' \in Seq(Subscription)
    BY <1>6 DEF ServerHandles, TypeInv, LiveTypeOK
  <2>2. serverSubs' \in SUBSET Ticker
    BY <1>6, <2>1 DEF ServerHandles, TypeInv, LiveTypeOK, Subscription
  <2>3. toClient' \in Seq(Message)
    BY <1>6, <2>2 DEF ServerHandles, Ack, Message, TypeInv
  <2> QED BY <1>6, <2>1, <2>2, <2>3 DEF ServerHandles, TypeInv, LiveTypeOK, link, page, interest
<1>7. CASE ServerAlerts
  <2>1. toClient' \in Seq(Message)
    <3>1. PICK a \in AlertId, b \in AlertId :
              toClient' = Append(toClient, Alerts(IF a = b THEN <<a>> ELSE <<a, b>>))
      BY <1>7 DEF ServerAlerts
    <3>2. Alerts(IF a = b THEN <<a>> ELSE <<a, b>>) \in Message
      BY DEF Alerts, Message
    <3> QED BY <3>1, <3>2 DEF TypeInv
  <2> QED BY <1>7, <2>1 DEF ServerAlerts, TypeInv, LiveTypeOK, link, page, interest
<1>8. ASSUME NEW t \in Listed, ServerPushes(t) PROVE TypeInv'
  <2>1. Prices(t, market[t]) \in Message
    BY DEF Prices, Message, TypeInv, LiveTypeOK
  <2>2. toClient' \in Seq(Message)
    BY <1>8, <2>1 DEF ServerPushes, TypeInv
  <2> QED BY <1>8, <2>2 DEF ServerPushes, TypeInv, LiveTypeOK, link, page, server, interest
<1>9. ASSUME NEW t \in Listed, MarketMoves(t) PROVE TypeInv'
  BY <1>9 DEF MarketMoves, TypeInv, LiveTypeOK, link, page, interest
<1>10. CASE NetworkDown
  <2>1. forgotten' \in BOOLEAN
    BY <1>10 DEF NetworkDown
  <2>2. socket' \in {"none", "connecting", "open", "broken"} /\ net' \in BOOLEAN
    BY <1>10 DEF NetworkDown, TypeInv, LiveTypeOK
  <2>3. toServer' = <<>> /\ serverSubs' = {}
    BY <1>10 DEF NetworkDown
  <2> QED BY <1>10, <2>1, <2>2, <2>3 DEF NetworkDown, TypeInv, LiveTypeOK, page
<1>11. CASE NetworkUp
  BY <1>11 DEF NetworkUp, TypeInv, LiveTypeOK, link, page, server, interest
<1>12. CASE UNCHANGED liveVars
  BY <1>12 DEF liveVars, TypeInv, LiveTypeOK, link, page, server, interest
<1> QED BY <1>1, <1>2, <1>3, <1>4, <1>5, <1>6, <1>7, <1>8, <1>9, <1>10, <1>11, <1>12
        DEF LiveNext, LivePage, LiveWorld

-----------------------------------------------------------------------------
(* One connection.                                                         *)

LEMMA LinkStep == LinkInv /\ [LiveNext]_liveVars => OneConnection' /\ AttemptsOK'
<1> SUFFICES ASSUME LinkInv, [LiveNext]_liveVars PROVE OneConnection' /\ AttemptsOK'
  OBVIOUS
<1>1. CASE TimerConnects
  BY <1>1 DEF TimerConnects, MayConnect, LinkInv, OneConnection, AttemptsOK, GivenUp
<1>2. CASE SocketOpens
  BY <1>2 DEF SocketOpens, LinkInv, TypeInv, LiveTypeOK, OneConnection, AttemptsOK, GivenUp
<1>3. CASE SocketCloses
  <2>1. attempts \in Nat /\ failures \in Nat
    BY DEF LinkInv, TypeInv, LiveTypeOK
  <2>2. socket' = "none" /\ status' = "disconnected" /\ failures <= attempts /\ attempts <= failures + 1
    BY <1>3 DEF SocketCloses, LinkInv, AttemptsOK, GivenUp
  <2>3. CASE MayRetry
    <3>1. attempts' = attempts + 1 /\ timer' = TRUE
      BY <1>3, <2>3 DEF SocketCloses
    <3>2. failures' = failures + 1 \/ (failures' = failures /\ attempts = 0)
      BY <1>3 DEF SocketCloses, LinkInv, AttemptsOK
    <3> QED BY <2>1, <2>2, <3>1, <3>2 DEF OneConnection, AttemptsOK, GivenUp
  <2>4. CASE ~MayRetry
    <3>1. UNCHANGED <<attempts, timer>> /\ attempts >= MaxAttempts
      BY <1>3, <2>1, <2>4, Bounds DEF SocketCloses, MayRetry
    <3>2. socket = "connecting" /\ failures' = failures + 1
      BY <1>3, <2>1, <3>1, Bounds DEF SocketCloses, LinkInv, AttemptsOK
    <3>3. ~timer'
      BY <3>1, <3>2 DEF LinkInv, OneConnection
    <3> QED BY <2>1, <2>2, <3>1, <3>2, <3>3, Bounds DEF OneConnection, AttemptsOK, GivenUp
  <2> QED BY <2>3, <2>4
<1>4. CASE NetworkDown
  BY <1>4 DEF NetworkDown, LinkInv, OneConnection, AttemptsOK, GivenUp
<1>5. CASE UNCHANGED link
  BY <1>5, LinkKept
<1>6. CASE MessageArrives \/ ServerHandles \/ ServerAlerts \/ NetworkUp \/ UNCHANGED liveVars
  BY <1>5, <1>6 DEF MessageArrives, ServerHandles, ServerAlerts, NetworkUp, liveVars
<1>7. ASSUME NEW t \in Ticker, NEW a \in {"subscribe", "unsubscribe"}, Ask(a, t)
      PROVE  UNCHANGED link
  BY <1>7 DEF Ask
<1>8. ASSUME NEW t \in Listed, ServerPushes(t) \/ MarketMoves(t) PROVE UNCHANGED link
  BY <1>8 DEF ServerPushes, MarketMoves
<1> QED BY <1>1, <1>2, <1>3, <1>4, <1>5, <1>6, <1>7, <1>8 DEF LiveNext, LivePage, LiveWorld

LEMMA LinkAlways == LiveSpec => []LinkInv
<1>1. LinkInv /\ [LiveNext]_liveVars => LinkInv'
  BY TypeStep, LinkStep DEF LinkInv
<1> QED BY <1>1, LinkInit, PTL DEF LiveSpec

\* The page's end of the connection stays well typed, and what it remembers of alerts
\* bounded, for any tickers, alerts and bounds.
THEOREM LiveTypes == LiveSpec => []LiveTypeOK
<1>1. LinkInv => LiveTypeOK
  BY DEF LinkInv, TypeInv
<1> QED BY <1>1, LinkAlways, PTL

\* There are never two connections nor a timer that would open a second one, and the
\* hook gives up only after MaxAttempts connects in a row have failed, whatever
\* number that is.
THEOREM LiveOneConnection == LiveSpec => []OneConnection
<1>1. LinkInv => OneConnection
  BY DEF LinkInv
<1> QED BY <1>1, LinkAlways, PTL

-----------------------------------------------------------------------------
(***************************************************************************)
(* The interest.  A queue q of messages turns the subscriptions S into the *)
(* tickers W: the last message on a ticker decides, else S does.  The      *)
(* acknowledgements in c turn what the page was told, T, into S.           *)
(***************************************************************************)
LastOn(q, i) == \A j \in DOMAIN q : j > i => q[j].ticker # q[i].ticker

Leads(q, S, W) ==
    /\ \A i \in DOMAIN q : LastOn(q, i) => (q[i].ticker \in W <=> q[i].action = "subscribe")
    /\ \A t \in Ticker : (\A i \in DOMAIN q : q[i].ticker # t) => (t \in W <=> t \in S)

Tells(c, T, S) ==
    /\ \A i \in DOMAIN c :
          c[i].kind = "ack" /\ (\A j \in DOMAIN c : j > i => c[j].kind # "ack") => c[i].tickers = S
    /\ (\A i \in DOMAIN c : c[i].kind # "ack") => T = S

(***************************************************************************)
(* As long as nothing was forgotten, what is queued leads from what the    *)
(* server has to what is wanted; while no socket is open the server has    *)
(* nothing and all of it is pending.                                       *)
(***************************************************************************)
InterestInv ==
    /\ socket \in {"open", "broken"} => pending = <<>>
    /\ ~forgotten =>
          /\ Tells(toClient, subscribed, serverSubs)
          /\ socket = "open" => Leads(toServer, serverSubs, wanted)
          /\ socket # "open" => /\ serverSubs = {} /\ toServer = <<>> /\ toClient = <<>>
                                /\ Leads(pending, {}, wanted)

After(S, msg) == IF msg.action = "subscribe" THEN S \cup {msg.ticker} ELSE S \ {msg.ticker}

\* A message is queued when the ticker is wanted, or not wanted any more.
LEMMA LeadsAppend ==
    ASSUME NEW q \in Seq(Subscription), NEW S, NEW W, NEW msg \in Subscription, Leads(q, S, W)
    PROVE  Leads(Append(q, msg), S, After(W, msg))
<1> DEFINE n == Len(q)
           p == Append(q, msg)
           V == After(W, msg)
<1>1. n \in Nat /\ DOMAIN q = 1 .. n /\ DOMAIN p = 1 .. n + 1 /\ p[n + 1] = msg
  OBVIOUS
<1>2. \A i \in 1 .. n : p[i] = q[i]
  OBVIOUS
<1>3. \A t : t # msg.ticker => (t \in V <=> t \in W)
  BY DEF After
<1>4. msg.ticker \in V <=> msg.action = "subscribe"
  BY DEF After
<1> HIDE DEF p, n, V
<1>5. ASSUME NEW i \in DOMAIN p, LastOn(p, i) PROVE p[i].ticker \in V <=> p[i].action = "subscribe"
  <2>1. CASE i = n + 1
    BY <1>1, <1>4, <2>1
  <2>2. CASE i \in 1 .. n
    <3>1. q[i].ticker # msg.ticker
      BY <1>1, <1>2, <1>5, <2>2 DEF LastOn
    <3>2. LastOn(q, i)
      BY <1>1, <1>2, <1>5, <2>2 DEF LastOn
    <3> QED BY <1>1, <1>2, <1>3, <2>2, <3>1, <3>2 DEF Leads
  <2> QED BY <1>1, <2>1, <2>2
<1>6. ASSUME NEW t \in Ticker, \A i \in DOMAIN p : p[i].ticker # t PROVE t \in V <=> t \in S
  <2>1. t # msg.ticker
    BY <1>1, <1>6
  <2>2. \A i \in DOMAIN q : q[i].ticker # t
    BY <1>1, <1>2, <1>6
  <2> QED BY <1>3, <2>1, <2>2 DEF Leads
<1> QED BY <1>5, <1>6 DEF Leads, p, V

\* The server handles the first message.
LEMMA LeadsTail ==
    ASSUME NEW q \in Seq(Subscription), q # <<>>, NEW S, NEW W, Leads(q, S, W)
    PROVE  Leads(Tail(q), After(S, Head(q)), W)
<1> DEFINE n == Len(q)
           p == Tail(q)
           V == After(S, Head(q))
<1>1. n \in Nat \ {0} /\ DOMAIN q = 1 .. n /\ DOMAIN p = 1 .. n - 1 /\ Head(q) = q[1]
  OBVIOUS
<1>2. \A i \in 1 .. n - 1 : p[i] = q[i + 1]
  OBVIOUS
<1>3. \A t : t # q[1].ticker => (t \in V <=> t \in S)
  BY <1>1 DEF After
<1>4. q[1].ticker \in V <=> q[1].action = "subscribe"
  BY <1>1 DEF After
<1> HIDE DEF p, n, V
<1>5. ASSUME NEW i \in DOMAIN p, LastOn(p, i) PROVE p[i].ticker \in W <=> p[i].action = "subscribe"
  <2>1. i \in Nat /\ i + 1 \in DOMAIN q /\ p[i] = q[i + 1]
    BY <1>1, <1>2
  <2>2. ASSUME NEW j \in DOMAIN q, j > i + 1 PROVE q[j].ticker # q[i + 1].ticker
    <3>1. j - 1 \in DOMAIN p /\ j - 1 > i /\ p[j - 1] = q[j]
      BY <1>1, <1>2, <2>1, <2>2
    <3> QED BY <1>5, <2>1, <3>1 DEF LastOn
  <2>3. LastOn(q, i + 1)
    BY <2>2 DEF LastOn
  <2> QED BY <2>1, <2>3 DEF Leads
<1>6. ASSUME NEW t \in Ticker, \A i \in DOMAIN p : p[i].ticker # t PROVE t \in W <=> t \in V
  <2>1. ASSUME NEW j \in DOMAIN q, j > 1 PROVE q[j].ticker # t
    <3>1. j - 1 \in DOMAIN p /\ p[j - 1] = q[j]
      BY <1>1, <1>2, <2>1
    <3> QED BY <1>6, <3>1
  <2>2. CASE t = q[1].ticker
    <3>1. 1 \in DOMAIN q /\ LastOn(q, 1)
      BY <1>1, <2>1, <2>2 DEF LastOn
    <3> QED BY <1>4, <2>2, <3>1 DEF Leads
  <2>3. CASE t # q[1].ticker
    <3>1. \A j \in DOMAIN q : q[j].ticker # t
      BY <1>1, <2>1, <2>3
    <3> QED BY <1>3, <2>3, <3>1 DEF Leads
  <2> QED BY <2>2, <2>3
<1> QED BY <1>5, <1>6 DEF Leads, p, V

\* The server sends an acknowledgement, or something else.
LEMMA TellsAppend ==
    ASSUME NEW c \in Seq(Message), NEW T, NEW S, NEW S2, NEW msg \in Message, Tells(c, T, S),
           IF msg.kind = "ack" THEN msg.tickers = S2 ELSE S2 = S
    PROVE  Tells(Append(c, msg), T, S2)
<1> DEFINE n == Len(c)
           d == Append(c, msg)
<1>1. n \in Nat /\ DOMAIN c = 1 .. n /\ DOMAIN d = 1 .. n + 1 /\ d[n + 1] = msg
  OBVIOUS
<1>2. \A i \in 1 .. n : d[i] = c[i]
  OBVIOUS
<1> HIDE DEF d, n
<1>3. CASE msg.kind = "ack"
  <2>1. ASSUME NEW i \in DOMAIN d, \A j \in DOMAIN d : j > i => d[j].kind # "ack"
        PROVE  i = n + 1
    BY <1>1, <1>3, <2>1
  <2> QED BY <1>1, <1>3, <2>1 DEF Tells, d
<1>4. CASE msg.kind # "ack"
  <2>1. ASSUME NEW i \in DOMAIN d, d[i].kind = "ack", \A j \in DOMAIN d : j > i => d[j].kind # "ack"
        PROVE  d[i].tickers = S
    <3>1. i \in DOMAIN c /\ c[i] = d[i]
      BY <1>1, <1>2, <1>4, <2>1
    <3>2. \A j \in DOMAIN c : j > i => c[j].kind # "ack"
      BY <1>1, <1>2, <2>1
    <3> QED BY <2>1, <3>1, <3>2 DEF Tells
  <2>2. (\A i \in DOMAIN d : d[i].kind # "ack") => T = S
    BY <1>1, <1>2 DEF Tells
  <2> QED BY <1>4, <2>1, <2>2 DEF Tells, d
<1> QED BY <1>3, <1>4

\* The page takes the first message.
LEMMA TellsTail ==
    ASSUME NEW c \in Seq(Message), c # <<>>, NEW T, NEW S, Tells(c, T, S)
    PROVE  Tells(Tail(c), IF Head(c).kind = "ack" THEN Head(c).tickers ELSE T, S)
<1> DEFINE n == Len(c)
           d == Tail(c)
           U == IF Head(c).kind = "ack" THEN Head(c).tickers ELSE T
<1>1. n \in Nat \ {0} /\ DOMAIN c = 1 .. n /\ DOMAIN d = 1 .. n - 1 /\ Head(c) = c[1]
  OBVIOUS
<1>2. \A i \in 1 .. n - 1 : d[i] = c[i + 1]
  OBVIOUS
<1>3. c[1].kind = "ack" => U = c[1].tickers
  BY <1>1
<1>4. c[1].kind # "ack" => U = T
  BY <1>1
<1> HIDE DEF d, n, U
<1>5. ASSUME NEW i \in DOMAIN d, d[i].kind = "ack", \A j \in DOMAIN d : j > i => d[j].kind # "ack"
      PROVE  d[i].tickers = S
  <2>1. i \in Nat /\ i + 1 \in DOMAIN c /\ d[i] = c[i + 1]
    BY <1>1, <1>2
  <2>2. ASSUME NEW j \in DOMAIN c, j > i + 1 PROVE c[j].kind # "ack"
    <3>1. j - 1 \in DOMAIN d /\ j - 1 > i /\ d[j - 1] = c[j]
      BY <1>1, <1>2, <2>1, <2>2
    <3> QED BY <1>5, <3>1
  <2> QED BY <1>5, <2>1, <2>2 DEF Tells
<1>6. ASSUME \A i \in DOMAIN d : d[i].kind # "ack" PROVE U = S
  <2>1. ASSUME NEW j \in DOMAIN c, j > 1 PROVE c[j].kind # "ack"
    <3>1. j - 1 \in DOMAIN d /\ d[j - 1] = c[j]
      BY <1>1, <1>2, <2>1
    <3> QED BY <1>6, <3>1
  <2>2. 1 \in DOMAIN c
    BY <1>1
  <2>3. CASE c[1].kind = "ack"
    BY <1>3, <2>1, <2>2, <2>3 DEF Tells
  <2>4. CASE c[1].kind # "ack"
    <3>1. \A j \in DOMAIN c : c[j].kind # "ack"
      BY <1>1, <2>1, <2>4
    <3> QED BY <1>4, <2>4, <3>1 DEF Tells
  <2> QED BY <2>3, <2>4
<1> QED BY <1>5, <1>6 DEF Tells, d, U

-----------------------------------------------------------------------------
(* Every step keeps the interest.                                          *)

LEMMA InterestInit == LiveInit => InterestInv
BY DEF LiveInit, InterestInv, Tells, Leads

LEMMA AskKeepsInterest ==
    ASSUME LinkInv, InterestInv, NEW t \in Ticker, NEW a \in {"subscribe", "unsubscribe"}, Ask(a, t)
    PROVE  InterestInv'
<1> DEFINE msg == [action |-> a, ticker |-> t]
<1>1. msg \in Subscription /\ wanted' = After(wanted, msg)
  BY DEF Ask, Subscription, After
<1>2. UNCHANGED <<socket, subscribed, serverSubs, toClient>>
  BY DEF Ask, link, page, server
<1>3. pending \in Seq(Subscription) /\ toServer \in Seq(Subscription)
  BY DEF LinkInv, TypeInv, LiveTypeOK
<1>4. CASE socket = "open"
  <2>1. toServer' = Append(toServer, msg) /\ UNCHANGED <<pending, forgotten>>
    BY <1>4 DEF Ask, SendMessage
  <2>2. ~forgotten => Leads(toServer', serverSubs, wanted')
    BY <1>1, <1>3, <1>4, <2>1, LeadsAppend DEF InterestInv
  <2> QED BY <1>2, <1>4, <2>1, <2>2 DEF InterestInv
<1>5. CASE socket = "broken"
  <2>1. forgotten' /\ UNCHANGED <<toServer, pending>>
    BY <1>5 DEF Ask, SendMessage
  <2> QED BY <1>2, <1>5, <2>1 DEF InterestInv
<1>6. CASE socket \notin {"open", "broken"}
  <2>1. pending' = Append(pending, msg) /\ UNCHANGED <<toServer, forgotten>>
    BY <1>6 DEF Ask, SendMessage
  <2>2. ~forgotten => Leads(pending', {}, wanted')
    BY <1>1, <1>3, <1>6, <2>1, LeadsAppend DEF InterestInv
  <2> QED BY <1>2, <1>6, <2>1, <2>2 DEF InterestInv
<1> QED BY <1>4, <1>5, <1>6

LEMMA MessageKeepsInterest ==
    ASSUME LinkInv, InterestInv, MessageArrives
    PROVE  InterestInv'
<1>1. toClient \in Seq(Message) /\ toClient # <<>> /\ toClient' = Tail(toClient)
  BY DEF MessageArrives, LinkInv, TypeInv
<1>2. UNCHANGED <<socket, pending, wanted, forgotten, serverSubs, toServer>>
  BY DEF MessageArrives, link, server, interest
<1>3. subscribed' = IF Head(toClient).kind = "ack" THEN Head(toClient).tickers ELSE subscribed
  BY DEF MessageArrives
<1>4. ~forgotten => Tells(toClient', subscribed', serverSubs)
  BY <1>1, <1>3, TellsTail DEF InterestInv
<1>5. ~forgotten => socket = "open"
  BY <1>1 DEF InterestInv
<1> QED BY <1>2, <1>4, <1>5 DEF InterestInv

LEMMA ServerKeepsInterest ==
    ASSUME LinkInv, InterestInv, ServerHandles
    PROVE  InterestInv'
<1> DEFINE msg == Head(toServer)
<1>1. /\ toServer \in Seq(Subscription) /\ toServer # <<>> /\ toServer' = Tail(toServer)
      /\ msg \in Subscription /\ toClient \in Seq(Message) /\ serverSubs \in SUBSET Ticker
  BY DEF ServerHandles, LinkInv, TypeInv, LiveTypeOK
<1>2. UNCHANGED <<socket, subscribed, pending, wanted, forgotten>> /\ socket = "open"
  BY DEF ServerHandles, link, page, interest
<1>3. serverSubs' = After(serverSubs, msg) /\ toClient' = Append(toClient, Ack(serverSubs'))
  BY DEF ServerHandles, After
<1>4. Ack(serverSubs') \in Message /\ Ack(serverSubs').kind = "ack"
          /\ Ack(serverSubs').tickers = serverSubs'
  BY <1>1, <1>3 DEF After, Ack, Message, Subscription
<1>5. ~forgotten => Tells(toClient', subscribed, serverSubs')
  BY <1>1, <1>3, <1>4, TellsAppend DEF InterestInv
<1>6. ~forgotten => Leads(toServer', serverSubs', wanted)
  BY <1>1, <1>2, <1>3, LeadsTail DEF InterestInv
<1> QED BY <1>2, <1>5, <1>6 DEF InterestInv

\* The server sends something that is not an acknowledgement.
LEMMA PushKeepsInterest ==
    ASSUME LinkInv, InterestInv, NEW msg \in Message, msg.kind # "ack", socket = "open",
           toClient' = Append(toClient, msg),
           UNCHANGED <<socket, subscribed, serverSubs, interest, toServer>>
    PROVE  InterestInv'
<1>1. ~forgotten => Tells(toClient', subscribed, serverSubs)
  BY TellsAppend DEF InterestInv, LinkInv, TypeInv
<1> QED BY <1>1 DEF InterestInv, interest

LEMMA InterestStep == LinkInv /\ InterestInv /\ [LiveNext]_liveVars => InterestInv'
<1> SUFFICES ASSUME LinkInv, InterestInv, [LiveNext]_liveVars PROVE InterestInv'
  OBVIOUS
<1>1. ASSUME NEW t \in Ticker, NEW a \in {"subscribe", "unsubscribe"}, Ask(a, t) PROVE InterestInv'
  BY <1>1, AskKeepsInterest
<1>2. CASE TimerConnects
  <2>1. UNCHANGED <<interest, subscribed, serverSubs, toServer, toClient>>
    BY <1>2 DEF TimerConnects, page, server
  <2>2. socket' = socket \/ (socket' = "connecting" /\ socket \notin {"open", "broken"})
    BY <1>2 DEF TimerConnects, MayConnect
  <2> QED BY <2>1, <2>2 DEF InterestInv, interest
<1>3. CASE SocketOpens
  <2>1. socket = "connecting" /\ socket' = "open" /\ pending' = <<>> /\ toServer' = pending
    BY <1>3 DEF SocketOpens, Flush
  <2>2. UNCHANGED <<subscribed, serverSubs, wanted, forgotten, toClient>>
    BY <1>3 DEF SocketOpens, page, server
  <2> QED BY <2>1, <2>2 DEF InterestInv
<1>4. CASE SocketCloses
  <2>1. socket # "open" /\ socket' = "none" /\ toClient' = <<>>
    BY <1>4 DEF SocketCloses
  <2>2. UNCHANGED <<interest, subscribed, serverSubs, toServer>>
    BY <1>4 DEF SocketCloses, page, server
  <2> QED BY <2>1, <2>2 DEF InterestInv, interest
<1>5. CASE MessageArrives
  BY <1>5, MessageKeepsInterest
<1>6. CASE ServerHandles
  BY <1>6, ServerKeepsInterest
<1>7. CASE ServerAlerts
  <2>1. PICK a \in AlertId, b \in AlertId :
            toClient' = Append(toClient, Alerts(IF a = b THEN <<a>> ELSE <<a, b>>))
    BY <1>7 DEF ServerAlerts
  <2>2. /\ Alerts(IF a = b THEN <<a>> ELSE <<a, b>>) \in Message
        /\ Alerts(IF a = b THEN <<a>> ELSE <<a, b>>).kind # "ack"
    BY DEF Alerts, Message
  <2>3. socket = "open" /\ UNCHANGED <<socket, subscribed, serverSubs, interest, toServer>>
    BY <1>7 DEF ServerAlerts, link, page
  <2> QED BY <2>1, <2>2, <2>3, PushKeepsInterest
<1>8. ASSUME NEW t \in Listed, ServerPushes(t) PROVE InterestInv'
  <2>1. Prices(t, market[t]) \in Message /\ Prices(t, market[t]).kind # "ack"
    BY DEF Prices, Message, LinkInv, TypeInv, LiveTypeOK
  <2>2. socket = "open" /\ UNCHANGED <<socket, subscribed, serverSubs, interest, toServer>>
    BY <1>8 DEF ServerPushes, link, page, server
  <2>3. toClient' = Append(toClient, Prices(t, market[t]))
    BY <1>8 DEF ServerPushes
  <2> QED BY <2>1, <2>2, <2>3, PushKeepsInterest
<1>9. CASE NetworkDown
  <2>1. /\ socket' = IF socket = "open" THEN "broken" ELSE socket
        /\ UNCHANGED <<pending, wanted, subscribed, toClient>>
        /\ toServer' = <<>> /\ serverSubs' = {}
    BY <1>9 DEF NetworkDown, page
  <2>2. ~forgotten' => ~forgotten /\ serverSubs = {} /\ toServer \o toClient = <<>>
    BY <1>9 DEF NetworkDown
  <2>3. toServer \o toClient = <<>> => toServer = <<>> /\ toClient = <<>>
    BY DEF LinkInv, TypeInv, LiveTypeOK
  <2> QED BY <2>1, <2>2, <2>3 DEF InterestInv
<1>10. ASSUME NEW t \in Listed, MarketMoves(t) PROVE InterestInv'
  BY <1>10 DEF MarketMoves, link, page, interest, InterestInv
<1>11. CASE NetworkUp
  BY <1>11 DEF NetworkUp, link, page, server, interest, InterestInv
<1>12. CASE UNCHANGED liveVars
  BY <1>12 DEF liveVars, link, page, server, interest, InterestInv
<1> QED BY <1>1, <1>2, <1>3, <1>4, <1>5, <1>6, <1>7, <1>8, <1>9, <1>10, <1>11, <1>12
        DEF LiveNext, LivePage, LiveWorld

LEMMA InterestFollows == LinkInv /\ InterestInv => InterestKept
<1> SUFFICES ASSUME LinkInv, InterestInv, socket = "open", toServer = <<>>, ~forgotten
             PROVE  /\ serverSubs = wanted
                    /\ toClient = <<>> => subscribed = wanted
  BY DEF InterestKept
<1>1. \A t \in Ticker : t \in wanted <=> t \in serverSubs
  <2>1. Leads(toServer, serverSubs, wanted)
    BY DEF InterestInv
  <2>2. \A i \in DOMAIN toServer : FALSE
    OBVIOUS
  <2> QED BY <2>1, <2>2 DEF Leads
<1>2. wanted \subseteq Ticker /\ serverSubs \subseteq Ticker
  BY DEF LinkInv, TypeInv, LiveTypeOK
<1>3. serverSubs = wanted
  BY <1>1, <1>2
<1>4. toClient = <<>> => subscribed = serverSubs
  BY DEF InterestInv, Tells
<1> QED BY <1>3, <1>4

\* Whatever is asked for, in whatever order and while offline, is what the server has
\* and the page was told once all is delivered, unless a connection that had something
\* was lost: for any tickers and any number of messages.
THEOREM LiveInterestKept == LiveSpec => []InterestKept
<1>1. LinkInv /\ LinkInv' /\ InterestInv /\ [LiveNext]_liveVars => InterestInv'
  BY InterestStep
<1>2. LinkInv /\ InterestInv => InterestKept
  BY InterestFollows
<1> QED BY <1>1, <1>2, LinkAlways, InterestInit, PTL DEF LiveSpec

-----------------------------------------------------------------------------
(* The card and the toast.                                                 *)


\* The prices of the card's ticker that are on their way to the page.
CardPrice(i) == toClient[i].kind = "prices" /\ toClient[i].ticker = CardTicker

(***************************************************************************)
(* Why a live price only rises: the market's does, the messages on their   *)
(* way tell of it in the order of its moves, the page has the last that    *)
(* arrived, and a lost connection takes all of them with it.               *)
(***************************************************************************)
PricesInOrder ==
    /\ prices[CardTicker] <= market[CardTicker]
    /\ \A i \in DOMAIN toClient :
          CardPrice(i) => /\ prices[CardTicker] <= toClient[i].price
                          /\ toClient[i].price <= market[CardTicker]
    /\ \A i, j \in DOMAIN toClient :
          i < j /\ CardPrice(i) /\ CardPrice(j) => toClient[i].price <= toClient[j].price

\* A card that is live shows the page's price, or one before it.
ShownBehind == live => IsLive /\ shown <= prices[CardTicker]

\* Alerts are never all forgotten: without one the effect has seen none either.
AlertsStay == alerts = <<>> => seenAlerts = <<>>

PageInv == ToastTypeOK /\ AlertsStay /\ CardTypeOK /\ PricesInOrder /\ ShownBehind

-----------------------------------------------------------------------------
(* The connection of the page is the one of LivePrices.                    *)

LEMMA PageStepIsLive == [Next]_vars => [LiveNext]_liveVars
<1> SUFFICES ASSUME [Next]_vars PROVE [LiveNext]_liveVars
  OBVIOUS
<1>1. ASSUME Connection \/ ServerAlerts \/ Asks \/ ServerHandles
                 \/ \E t \in Listed : ServerPushes(t) \/ MarketMoves(t)
      PROVE  LiveNext
  BY <1>1 DEF Connection, Asks, LiveNext, LivePage, LiveWorld
<1>2. ASSUME ToastNext \/ CardNext PROVE UNCHANGED liveVars
  BY <1>2 DEF ToastNext, ToastEffect, ToastCloses, CardNext, OverviewComposed, OverviewArrives,
              CardRenders
<1>3. ASSUME UNCHANGED vars PROVE UNCHANGED liveVars
  BY <1>3 DEF vars
<1> QED BY <1>1, <1>2, <1>3 DEF Next, ToastPage, CardPage

\* The page's connection behaves as LivePrices says, so that what is proved of it holds
\* below any page: one connection, and the interest kept.
THEOREM PageIsLive == Spec => LiveSpec
<1>1. Init => LiveInit
  BY DEF Init
<1> QED BY <1>1, PageStepIsLive, PTL DEF Spec, LiveSpec

LEMMA PageLink == Spec => []LinkInv
  BY PageIsLive, LinkAlways, PTL

-----------------------------------------------------------------------------
(* Prices in order.                                                        *)

LEMMA CardFacts ==
    ASSUME LinkInv
    PROVE  /\ CardTicker \in Listed /\ MaxMoves \in Nat /\ MaxMoves > 0 /\ MaxReloads \in Nat
           /\ prices[CardTicker] \in 0 .. MaxMoves /\ market[CardTicker] \in 0 .. MaxMoves
           /\ toClient \in Seq(Message)
  BY CardAssumption, LiveAssumption DEF LinkInv, TypeInv, LiveTypeOK

LEMMA CardPriceType ==
    ASSUME LinkInv, NEW i \in DOMAIN toClient, CardPrice(i)
    PROVE  toClient[i].price \in 0 .. MaxMoves
<1>1. toClient[i] \in Message
  BY DEF LinkInv, TypeInv
<1> QED BY <1>1 DEF Message, CardPrice

\* A message is sent: another one, or the market's price.
LEMMA SendInOrder ==
    ASSUME LinkInv, PricesInOrder, NEW msg, toClient' = Append(toClient, msg),
           msg.kind = "prices" /\ msg.ticker = CardTicker => msg.price = market[CardTicker],
           UNCHANGED <<prices, market>>
    PROVE  PricesInOrder'
<1>1. PICK n \in Nat : /\ DOMAIN toClient = 1 .. n /\ DOMAIN toClient' = 1 .. n + 1
                     /\ toClient'[n + 1] = msg /\ \A i \in 1 .. n : toClient'[i] = toClient[i]
  <2>1. Len(toClient) \in Nat
    BY CardFacts
  <2> QED BY <2>1, CardFacts
<1>2. \A i \in 1 .. n : CardPrice(i)' <=> CardPrice(i)
  BY <1>1 DEF CardPrice
<1>3. ASSUME NEW i \in 1 .. n + 1, CardPrice(i)'
      PROVE  /\ prices[CardTicker] <= toClient'[i].price
             /\ toClient'[i].price <= market[CardTicker]
             /\ toClient'[i].price \in Int
  <2>1. CASE i = n + 1
    <3>1. toClient'[i].price = market[CardTicker]
      BY <1>1, <1>3, <2>1 DEF CardPrice
    <3> QED BY <3>1, CardFacts DEF PricesInOrder
  <2>2. CASE i \in 1 .. n
    BY <1>1, <1>2, <1>3, <2>2, CardPriceType, CardFacts DEF PricesInOrder
  <2> QED BY <1>1, <2>1, <2>2
<1>4. ASSUME NEW i \in 1 .. n + 1, NEW j \in 1 .. n + 1, i < j, CardPrice(i)', CardPrice(j)'
      PROVE  toClient'[i].price <= toClient'[j].price
  <2>1. i \in 1 .. n
    BY <1>1, <1>4
  <2>2. CASE j = n + 1
    <3>1. toClient'[j].price = market[CardTicker]
      BY <1>1, <1>4, <2>2 DEF CardPrice
    <3> QED BY <1>3, <1>4, <3>1
  <2>3. CASE j \in 1 .. n
    BY <1>1, <1>2, <1>4, <2>1, <2>3 DEF PricesInOrder
  <2> QED BY <1>1, <2>2, <2>3
<1> QED BY <1>1, <1>3, <1>4 DEF PricesInOrder

\* The first message arrives.
LEMMA ArriveInOrder ==
    ASSUME LinkInv, PricesInOrder, MessageArrives
    PROVE  PricesInOrder' /\ prices[CardTicker] <= prices'[CardTicker]
<1> DEFINE n == Len(toClient)
           msg == Head(toClient)
<1>1. /\ n \in Nat \ {0} /\ DOMAIN toClient = 1 .. n /\ DOMAIN toClient' = 1 .. n - 1
      /\ msg = toClient[1] /\ 1 \in 1 .. n
      /\ \A i \in 1 .. n - 1 : toClient'[i] = toClient[i + 1] /\ i + 1 \in 1 .. n
  BY CardFacts DEF MessageArrives
<1>2. UNCHANGED market /\ msg \in Message
  BY CardFacts DEF MessageArrives, server
<1>3. /\ msg.kind = "prices" => prices' = MergePrice(prices, msg.ticker, msg.price)
      /\ msg.kind # "prices" => prices' = prices
  BY DEF MessageArrives
<1>4. prices'[CardTicker] = IF CardPrice(1) THEN toClient[1].price ELSE prices[CardTicker]
  <2>1. CASE msg.kind = "prices"
    <3>1. prices' = [prices EXCEPT ![msg.ticker] = msg.price] /\ CardTicker \in DOMAIN prices
      BY <1>3, <2>1, CardFacts DEF MergePrice, LinkInv, TypeInv, LiveTypeOK
    <3> QED BY <1>1, <2>1, <3>1 DEF CardPrice
  <2>2. CASE msg.kind # "prices"
    BY <1>1, <1>3, <2>2 DEF CardPrice
  <2> QED BY <2>1, <2>2
<1> HIDE DEF n, msg
<1>5. /\ prices[CardTicker] <= prices'[CardTicker] /\ prices'[CardTicker] <= market[CardTicker]
  BY <1>1, <1>4, CardFacts DEF PricesInOrder
<1>6. \A i \in 1 .. n - 1 : CardPrice(i)' <=> CardPrice(i + 1)
  BY <1>1 DEF CardPrice
<1>7. ASSUME NEW i \in 1 .. n - 1, CardPrice(i)'
      PROVE  prices'[CardTicker] <= toClient'[i].price /\ toClient'[i].price <= market[CardTicker]
  <2>1. /\ i + 1 \in DOMAIN toClient /\ 1 \in DOMAIN toClient /\ 1 < i + 1
        /\ CardPrice(i + 1) /\ toClient'[i] = toClient[i + 1]
    BY <1>1, <1>6, <1>7
  <2> QED BY <1>4, <2>1 DEF PricesInOrder
<1>8. ASSUME NEW i \in 1 .. n - 1, NEW j \in 1 .. n - 1, i < j, CardPrice(i)', CardPrice(j)'
      PROVE  toClient'[i].price <= toClient'[j].price
  <2>1. /\ i + 1 \in DOMAIN toClient /\ j + 1 \in DOMAIN toClient /\ i + 1 < j + 1
        /\ CardPrice(i + 1) /\ CardPrice(j + 1)
        /\ toClient'[i] = toClient[i + 1] /\ toClient'[j] = toClient[j + 1]
    BY <1>1, <1>6, <1>8
  <2> QED BY <2>1 DEF PricesInOrder
<1> QED BY <1>1, <1>2, <1>5, <1>7, <1>8 DEF PricesInOrder

\* The price of a ticker moves up.
LEMMA MoveInOrder ==
    ASSUME LinkInv, PricesInOrder, NEW t \in Listed, MarketMoves(t)
    PROVE  PricesInOrder'
<1>1. market' = [market EXCEPT ![t] = market[t] + 1] /\ UNCHANGED <<prices, toClient>>
  BY DEF MarketMoves, page
<1>2. market[CardTicker] <= market'[CardTicker] /\ market'[CardTicker] \in Nat
  BY <1>1, CardFacts DEF LinkInv, TypeInv, LiveTypeOK
<1>3. prices[CardTicker] <= market'[CardTicker]
  BY <1>2, CardFacts DEF PricesInOrder
<1>4. ASSUME NEW i \in DOMAIN toClient, CardPrice(i)
      PROVE  toClient[i].price <= market'[CardTicker]
  BY <1>2, <1>4, CardFacts, CardPriceType DEF PricesInOrder
<1> QED BY <1>1, <1>3, <1>4 DEF PricesInOrder, CardPrice

LEMMA OrderStep ==
    ASSUME LinkInv, PricesInOrder, [LiveNext]_liveVars
    PROVE  PricesInOrder' /\ prices[CardTicker] <= prices'[CardTicker]
<1>1. prices[CardTicker] \in Int
  BY CardFacts
<1>2. CASE MessageArrives
  BY <1>2, ArriveInOrder
<1>3. ASSUME UNCHANGED <<prices, market, toClient>> PROVE PricesInOrder'
  BY <1>3 DEF PricesInOrder, CardPrice
<1>4. ASSUME NEW t \in Ticker, NEW a \in {"subscribe", "unsubscribe"}, Ask(a, t)
      PROVE  UNCHANGED <<prices, market, toClient>>
  BY <1>4 DEF Ask, page, server
<1>5. ASSUME TimerConnects \/ SocketOpens \/ NetworkDown \/ NetworkUp
      PROVE  UNCHANGED <<prices, market, toClient>>
  BY <1>5 DEF TimerConnects, SocketOpens, NetworkDown, NetworkUp, page, server
<1>6. ASSUME SocketCloses PROVE UNCHANGED prices /\ PricesInOrder'
  <2>1. UNCHANGED <<prices, market>> /\ toClient' = <<>>
    BY <1>6 DEF SocketCloses, page, server
  <2> QED BY <2>1 DEF PricesInOrder
<1>7. ASSUME ServerHandles PROVE UNCHANGED prices /\ PricesInOrder'
  <2>1. UNCHANGED <<prices, market>> /\ toClient' = Append(toClient, Ack(serverSubs'))
    BY <1>7 DEF ServerHandles, page
  <2>2. Ack(serverSubs').kind = "ack"
    BY DEF Ack
  <2> QED BY <2>1, <2>2, SendInOrder
<1>8. ASSUME ServerAlerts PROVE UNCHANGED prices /\ PricesInOrder'
  <2>1. PICK ids : UNCHANGED <<prices, market>> /\ toClient' = Append(toClient, Alerts(ids))
    BY <1>8 DEF ServerAlerts, page
  <2>2. Alerts(ids).kind = "alerts"
    BY DEF Alerts
  <2> QED BY <2>1, <2>2, SendInOrder
<1>9. ASSUME NEW t \in Listed, ServerPushes(t) PROVE UNCHANGED prices /\ PricesInOrder'
  <2> DEFINE msg == Prices(t, market[t])
  <2>1. UNCHANGED <<prices, market>> /\ toClient' = Append(toClient, msg)
    BY <1>9 DEF ServerPushes, page, server
  <2>2. msg.ticker = t /\ msg.price = market[t]
    BY DEF Prices
  <2> HIDE DEF msg
  <2> QED BY <2>1, <2>2, SendInOrder
<1>10. ASSUME NEW t \in Listed, MarketMoves(t) PROVE UNCHANGED prices /\ PricesInOrder'
  BY <1>10, MoveInOrder DEF MarketMoves, page
<1>11. CASE UNCHANGED liveVars
  BY <1>1, <1>3, <1>11 DEF liveVars, page, server
<1> QED BY <1>1, <1>2, <1>3, <1>4, <1>5, <1>6, <1>7, <1>8, <1>9, <1>10, <1>11
        DEF LiveNext, LivePage, LiveWorld

-----------------------------------------------------------------------------
(* The page.                                                               *)

LEMMA PageInit == Init => PageInv
<1> SUFFICES ASSUME Init PROVE PageInv
  OBVIOUS
<1>1. ToastTypeOK /\ AlertsStay
  <2>1. /\ toastOpen = FALSE /\ toastAlert = NoAlert /\ shownIds = {} /\ seenAlerts = <<>>
    BY DEF Init, ToastInit
  <2>2. toastOpen \in BOOLEAN /\ toastAlert \in AlertId \cup {NoAlert} /\ shownIds \subseteq AlertId
    BY <2>1
  <2>3. seenAlerts \in Seq(AlertId)
    BY <2>1
  <2> QED BY <2>1, <2>2, <2>3 DEF ToastTypeOK, AlertsStay
<1>2. CardTypeOK /\ ShownBehind
  <2>1. close = 0 /\ reload = {} /\ reloads = 0 /\ shown = 0 /\ live = FALSE
    BY DEF Init, CardInit, NoPrice
  <2>2. MaxMoves \in Nat /\ MaxReloads \in Nat
    BY CardAssumption, LiveAssumption
  <2>3. {close, shown} \cup reload \subseteq 0 .. MaxMoves
    BY <2>1, <2>2
  <2>4. reloads \in 0 .. MaxReloads /\ live \in BOOLEAN
    <3>1. 0 \in 0 .. MaxReloads
      BY <2>2
    <3> QED BY <2>1, <3>1
  <2>5. ShownBehind
    BY <2>1 DEF ShownBehind
  <2>6. CardTypeOK
    BY <2>3, <2>4 DEF CardTypeOK
  <2> QED BY <2>5, <2>6
<1>3. PricesInOrder
  BY CardAssumption DEF Init, LiveInit, PricesInOrder
<1> QED BY <1>1, <1>2, <1>3 DEF PageInv

LEMMA AlertsGrow ==
    ASSUME LinkInv, [LiveNext]_liveVars, alerts # <<>>
    PROVE  alerts' # <<>>
<1>1. CASE MessageArrives
  <2>1. CASE alerts' = alerts
    BY <2>1
  <2>2. CASE Head(toClient).kind = "alerts" /\ alerts' = PrependAlerts(Head(toClient).ids, alerts)
    <3> DEFINE ids == Head(toClient).ids
               all == ids \o alerts
               m == IF Len(all) < MaxAlerts THEN Len(all) ELSE MaxAlerts
    <3>1. ids \in Seq(AlertId)
      <4>1. Head(toClient) \in Message
        BY <1>1, CardFacts DEF MessageArrives
      <4> QED BY <2>2, <4>1 DEF Message
    <3>2. alerts \in Seq(AlertId)
      BY DEF LinkInv, TypeInv, LiveTypeOK
    <3> HIDE DEF ids
    <3>3. all \in Seq(AlertId) /\ Len(all) >= 1
      BY <3>1, <3>2
    <3> HIDE DEF all
    <3>4. m \in Nat \ {0} /\ m <= Len(all)
      BY <3>3, LiveAssumption
    <3> HIDE DEF m
    <3>5. Len(SubSeq(all, 1, m)) = m
      BY <3>3, <3>4
    <3>6. alerts' = SubSeq(all, 1, m)
      BY <2>2 DEF PrependAlerts, ids, all, m
    <3> QED BY <3>4, <3>5, <3>6
  <2> QED BY <1>1, <2>1, <2>2 DEF MessageArrives
<1>2. ASSUME NEW t \in Ticker, NEW a \in {"subscribe", "unsubscribe"}, Ask(a, t)
      PROVE  UNCHANGED alerts
  BY <1>2 DEF Ask, page
<1>3. ASSUME TimerConnects \/ SocketOpens \/ SocketCloses \/ NetworkDown \/ NetworkUp
                 \/ ServerHandles \/ ServerAlerts
      PROVE  UNCHANGED alerts
  BY <1>3 DEF TimerConnects, SocketOpens, SocketCloses, NetworkDown, NetworkUp, ServerHandles,
              ServerAlerts, page
<1>4. ASSUME NEW t \in Listed, ServerPushes(t) \/ MarketMoves(t) PROVE UNCHANGED alerts
  BY <1>4 DEF ServerPushes, MarketMoves, page
<1>5. CASE UNCHANGED liveVars
  BY <1>5 DEF liveVars, page
<1> QED BY <1>1, <1>2, <1>3, <1>4, <1>5 DEF LiveNext, LivePage, LiveWorld

LEMMA ToastStep ==
    ASSUME LinkInv, ToastTypeOK, AlertsStay, [Next]_vars
    PROVE  ToastTypeOK' /\ AlertsStay'
<1>1. [LiveNext]_liveVars
  BY PageStepIsLive
<1>2. CASE ToastEffect
  <2>1. alerts # <<>> /\ alerts \in Seq(AlertId) /\ alerts' = alerts /\ seenAlerts' = alerts
    BY <1>2 DEF ToastEffect, AlertsStay, LinkInv, TypeInv, LiveTypeOK, liveVars, page
  <2>2. Head(alerts) \in AlertId
    BY <2>1
  <2>3. CASE Unseen(Head(alerts))
    BY <1>2, <2>1, <2>2, <2>3 DEF ToastEffect, ToastTypeOK, AlertsStay
  <2>4. CASE ~Unseen(Head(alerts))
    BY <1>2, <2>1, <2>4 DEF ToastEffect, ToastTypeOK, AlertsStay
  <2> QED BY <2>3, <2>4
<1>3. CASE ToastCloses
  <2>1. UNCHANGED <<toastAlert, shownIds, seenAlerts, alerts>> /\ toastOpen' = FALSE
    BY <1>3 DEF ToastCloses, liveVars, page
  <2> QED BY <2>1 DEF ToastTypeOK, AlertsStay
<1>4. CASE UNCHANGED toastVars
  <2>1. UNCHANGED <<toastOpen, toastAlert, shownIds, seenAlerts>>
    BY <1>4 DEF toastVars
  <2>2. ToastTypeOK'
    BY <2>1 DEF ToastTypeOK
  <2>3. AlertsStay'
    BY <1>1, <2>1, AlertsGrow DEF AlertsStay
  <2> QED BY <2>2, <2>3
<1> QED BY <1>2, <1>3, <1>4 DEF Next, ToastPage, ToastNext, vars

LEMMA CardStep ==
    ASSUME LinkInv, CardTypeOK, [Next]_vars
    PROVE  CardTypeOK'
<1>1. CASE OverviewComposed
  <2>1. reloads + 1 \in 0 .. MaxReloads
    BY <1>1, CardFacts DEF OverviewComposed, CardTypeOK
  <2> QED BY <1>1, <2>1, CardFacts DEF OverviewComposed, CardTypeOK
<1>2. CASE OverviewArrives
  BY <1>2 DEF OverviewArrives, CardTypeOK
<1>3. CASE CardRenders
  <2>1. DisplayClose \in 0 .. MaxMoves /\ IsLive \in BOOLEAN
    BY CardFacts DEF DisplayClose, IsLive, CardTypeOK
  <2> QED BY <1>3, <2>1 DEF CardRenders, CardTypeOK
<1>4. CASE UNCHANGED cardVars
  BY <1>4 DEF cardVars, CardTypeOK
<1> QED BY <1>1, <1>2, <1>3, <1>4 DEF Next, CardPage, CardNext, vars

\* A render shows the page's price as soon as it has one.
LEMMA ShownStep ==
    ASSUME LinkInv, CardTypeOK, PricesInOrder, ShownBehind, [Next]_vars
    PROVE  ShownBehind' /\ (live => shown' >= shown)
<1>1. prices[CardTicker] <= prices'[CardTicker]
  BY PageStepIsLive, OrderStep
<1>2. LinkInv'
  BY PageStepIsLive, TypeStep, LinkStep DEF LinkInv
<1>3. prices[CardTicker] \in Nat /\ prices'[CardTicker] \in Nat
  BY <1>2, CardFacts, LiveAssumption, CardAssumption DEF LinkInv, TypeInv, LiveTypeOK
<1>4. shown \in Nat
  BY LiveAssumption DEF CardTypeOK
<1>5. CASE CardRenders
  <2>1. shown' = DisplayClose /\ live' = IsLive /\ prices' = prices
    BY <1>5 DEF CardRenders, liveVars, page
  <2>2. IsLive' <=> IsLive
    BY <2>1 DEF IsLive
  <2>3. CASE IsLive
    <3>1. shown' = prices[CardTicker]
      BY <2>1, <2>3 DEF DisplayClose
    <3> QED BY <1>3, <1>4, <2>1, <2>2, <2>3, <3>1 DEF ShownBehind
  <2>4. CASE ~IsLive
    <3>1. ~live /\ ~live'
      BY <2>1, <2>4 DEF ShownBehind
    <3> QED BY <3>1 DEF ShownBehind
  <2> QED BY <2>3, <2>4
<1>6. CASE UNCHANGED <<shown, live>>
  <2>1. live' = live /\ shown' = shown
    BY <1>6
  <2> QED BY <1>1, <1>3, <1>4, <2>1 DEF ShownBehind, IsLive, NoPrice
<1>7. [Next]_vars => CardRenders \/ UNCHANGED <<shown, live>>
  BY DEF Next, ToastPage, CardPage, CardNext, OverviewComposed, OverviewArrives, vars, cardVars
<1> QED BY <1>5, <1>6, <1>7

LEMMA PageInvariant == Spec => [](LinkInv /\ PageInv)
<1>1. LinkInv /\ PageInv /\ [Next]_vars => PageInv'
  <2> SUFFICES ASSUME LinkInv, PageInv, [Next]_vars PROVE PageInv'
    OBVIOUS
  <2>1. PricesInOrder'
    BY PageStepIsLive, OrderStep DEF PageInv
  <2> QED BY <2>1, ToastStep, CardStep, ShownStep DEF PageInv
<1> QED BY <1>1, PageInit, PageLink, PTL DEF Spec

\* Connection, toast and card stay well typed; the effect never asks for the newest of
\* no alerts.
THEOREM PageTypes == Spec => []PageTypeOK
<1>1. LinkInv /\ PageInv => PageTypeOK
  BY DEF LinkInv, TypeInv, PageInv, PageTypeOK
<1> QED BY <1>1, PageInvariant, PTL

\* A card that shows a live price never goes back to an older one, whatever reconnects,
\* and whatever late answer to an overview request arrives.
THEOREM CardNeverGoesBack == Spec => LiveNeverGoesBack
<1>1. LinkInv /\ PageInv /\ [Next]_vars => [live => shown' >= shown]_vars
  BY ShownStep DEF PageInv
<1> QED BY <1>1, PageInvariant, PTL DEF Spec, LiveNeverGoesBack
=============================================================================
