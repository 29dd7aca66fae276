------------------------------ MODULE PriceHub ------------------------------
(***************************************************************************)
(* The live-price hub of server.py: the registry _ws_subscriptions, one    *)
(* ws_prices handler per socket, and the two background tasks _poll_prices *)
(* and _heartbeat, all coroutines of one event loop.  A step runs from one *)
(* await to the next.  The broadcasts iterate the dict itself across the   *)
(* awaited sends, the heartbeat iterates a list copied from it.            *)
(***************************************************************************)
EXTENDS Selection, SequencesExt

CONSTANTS
    Socket,     \* WebSocket objects: a connection uses one and never returns
    NoSocket,
    Ticker,
    Interest,   \* Interest[s]: the tickers socket s may name in its messages
    Faults      \* whether the calls into the stores may raise

ASSUME HubAssumption ==
    /\ NoSocket \notin Socket
    /\ Interest \in [Socket -> SUBSET Ticker]
    /\ Faults \in BOOLEAN

VARIABLES
    conn,       \* state of the handler of each socket
    peer,       \* what a send to the socket meets: up, stalled or down
    registry,   \* keys of _ws_subscriptions, in insertion order
    subs,       \* its values
    poll,       \* where _poll_prices waits
    tickers,    \* tickers asked for in this round, then those with an update
    it,         \* the broadcast's iterator over the dict
    ping,       \* sockets the heartbeat has left to ping, the head in flight
    pingDead,   \* dead of _heartbeat
    churned     \* observed: another task changed the registry under a broadcast

vars == <<conn, peer, registry, subs, poll, tickers, it, ping, pingDead, churned>>
sockets == <<conn, peer, registry, subs>>
poller == <<poll, tickers, it>>
heartbeat == <<ping, pingDead>>

\* No broadcast under way.
Idle == [filter |-> {}, size |-> 0, left |-> 0, visited |-> {}, sending |-> NoSocket, dead |-> {}]

Init ==
    /\ conn = [s \in Socket |-> "new"]
    /\ peer = [s \in Socket |-> "up"]
    /\ registry = <<>>
    /\ subs = [s \in Socket |-> {}]
    /\ poll = "sleep" /\ tickers = {} /\ it = Idle
    /\ ping = <<>> /\ pingDead = {}
    /\ churned = FALSE

Registered(s) == s \in ToSet(registry)
Running(s) == conn[s] \in {"receiving", "acking"}
Broadcasting == poll \in {"prices", "alerts"}

\* _ws_subscriptions.pop(ws, None) for each ws of S.
Pop(S) ==
    /\ registry' = Without(registry, S)
    /\ subs' = [s \in Socket |-> IF s \in S THEN {} ELSE subs[s]]

\* Mutant: a send that raises is not recorded.
Unnoticed(s) == {}

\* What a finished send to s adds to dead.
Failed(s) == IF peer[s] = "down" THEN {s} ELSE {}

\* Observed: a step outside the poller changed the membership.
ObserveChurn == churned' = (churned \/ (Broadcasting /\ registry' # registry))

-----------------------------------------------------------------------------
(* The handlers, one per socket.                                           *)

\* accept() returned and the socket is registered without a filter.
Connect(s) ==
    /\ conn[s] = "new"
    /\ conn' = [conn EXCEPT ![s] = "receiving"]
    /\ registry' = Append(registry, s)
    /\ ObserveChurn
    /\ UNCHANGED <<peer, subs, poller, heartbeat>>

\* Mutant: the handler has no finally clause.
EndLeavesEntry(s) ==
    /\ conn' = [conn EXCEPT ![s] = "closed"]
    /\ peer' = [peer EXCEPT ![s] = "down"]
    /\ UNCHANGED <<registry, subs>>

\* The finally clause; the server then closes the connection.
EndHandler(s) ==
    /\ conn' = [conn EXCEPT ![s] = "closed"]
    /\ peer' = [peer EXCEPT ![s] = "down"]
    /\ Pop({s})

\* A subscribe or unsubscribe message; one for several tickers is as many
\* messages in a row.  A socket that a task has dropped has
\* no entry to update: the KeyError ends the handler.
Receive(s) ==
    /\ conn[s] = "receiving"
    /\ \/ /\ Registered(s)
          /\ \E t \in Interest[s] :
                subs' \in {[subs EXCEPT ![s] = @ \cup {t}], [subs EXCEPT ![s] = @ \ {t}]}
          /\ conn' = [conn EXCEPT ![s] = "acking"]
          /\ UNCHANGED <<peer, registry>>
       \/ /\ ~Registered(s)
          /\ EndHandler(s)
    /\ ObserveChurn
    /\ UNCHANGED <<poller, heartbeat>>

\* The acknowledgement was sent, or its send raised.
AckDone(s) ==
    /\ conn[s] = "acking"
    /\ peer[s] # "stalled"
    /\ \/ /\ peer[s] = "up"
          /\ conn' = [conn EXCEPT ![s] = "receiving"]
          /\ UNCHANGED <<peer, registry, subs>>
       \/ /\ peer[s] = "down"
          /\ EndHandler(s)
    /\ ObserveChurn
    /\ UNCHANGED <<poller, heartbeat>>

\* receive_text raised WebSocketDisconnect, or the message was no JSON object.
Disconnect(s) ==
    /\ conn[s] = "receiving"
    /\ EndHandler(s)
    /\ ObserveChurn
    /\ UNCHANGED <<poller, heartbeat>>

-----------------------------------------------------------------------------
(* The network under the sockets.                                          *)

\* The peer stops reading: sends to it wait for the write buffer to drain.
PeerStalls(s) ==
    /\ Running(s) /\ peer[s] = "up"
    /\ peer' = [peer EXCEPT ![s] = "stalled"]
    /\ UNCHANGED <<conn, registry, subs, poller, heartbeat, churned>>

PeerResumes(s) ==
    /\ Running(s) /\ peer[s] = "stalled"
    /\ peer' = [peer EXCEPT ![s] = "up"]
    /\ UNCHANGED <<conn, registry, subs, poller, heartbeat, churned>>

\* The connection breaks; uvicorn's keepalive breaks one that stays stalled.
PeerBreaks(s) ==
    /\ Running(s) /\ peer[s] # "down"
    /\ peer' = [peer EXCEPT ![s] = "down"]
    /\ UNCHANGED <<conn, registry, subs, poller, heartbeat, churned>>

-----------------------------------------------------------------------------
(* The poller.                                                             *)

\* A socket without subscriptions takes every update.
Wants(s, filter) == subs[s] = {} \/ subs[s] \cap filter # {}

\* Mutant: the broadcast returns at the first socket it should skip.
SkipReturns(unvisited, filter) ==
    IF unvisited # {} /\ Wants(registry[Min(unvisited)], filter) THEN Min(unvisited) ELSE 0

\* The next addressee's entry among those not yet visited, 0 if there is none.
NextAddressee(unvisited, filter) ==
    LET addressees == {k \in unvisited : Wants(registry[k], filter)}
    IN  IF addressees = {} THEN 0 ELSE Min(addressees)

\* Mutant: the broadcast drops a dead socket inside the loop, not after it.
RaisesAfterOwnPop(i, steps) ==
    \/ Len(registry) # i.size
    \/ steps > i.left
    \/ i.dead # {}

\* Mutant: only the number of entries is compared.
ComparesSizeOnly(i, steps) == Len(registry) # i.size

\* next() of the dict's iterator raises RuntimeError: the number of entries
\* is no longer the one it started from, or there are more entries to visit.
IteratorRaises(i, steps) ==
    \/ Len(registry) # i.size
    \/ steps > i.left

\* The broadcast loop from next() up to the next awaited send, over what is
\* left of the iterator i; the updates are those of the tickers T.
Iterate(i, kind, T) ==
    LET unvisited == {k \in DOMAIN registry : registry[k] \notin i.visited}
        n == NextAddressee(unvisited, i.filter)
        passed == IF n = 0 THEN unvisited ELSE {k \in unvisited : k <= n}
        steps == Cardinality(passed)
    IN  \/ /\ IteratorRaises(i, steps)
           /\ poll' = "dead" /\ tickers' = {} /\ it' = Idle
           /\ UNCHANGED <<registry, subs, churned>>
        \/ /\ ~IteratorRaises(i, steps) /\ n # 0
           /\ poll' = kind /\ tickers' = T
           /\ it' = [i EXCEPT !.left = @ - steps,
                              !.visited = @ \cup {registry[k] : k \in passed},
                              !.sending = registry[n]]
           /\ UNCHANGED <<registry, subs, churned>>
        \/ /\ ~IteratorRaises(i, steps) /\ n = 0
           /\ poll' = (IF kind = "alerts" THEN "notify" ELSE "evaluate")
           /\ tickers' = T /\ it' = Idle
           /\ Pop(i.dead)
           /\ churned' = FALSE

\* for ws, subs in _ws_subscriptions.items()
StartBroadcast(filter, kind, T) ==
    LET size == Len(registry)
    IN  Iterate([Idle EXCEPT !.filter = filter, !.size = size, !.left = size], kind, T)

\* The loop goes back to its sleep.
EndRound ==
    /\ poll' = "sleep" /\ tickers' = {}
    /\ UNCHANGED <<registry, subs, it, churned>>

Subscribed == UNION {subs[s] : s \in ToSet(registry)}

\* The sleep is over and somebody is connected.
PollWakes ==
    /\ poll = "sleep"
    /\ registry # <<>>
    /\ poll' = IF Subscribed # {} THEN "fetch" ELSE "list"
    /\ tickers' = Subscribed
    /\ UNCHANGED <<sockets, it, heartbeat, churned>>

\* store.list_tickers returned.
PollLists ==
    /\ poll = "list"
    /\ tickers' \in SUBSET Ticker
    /\ poll' = IF tickers' = {} THEN "sleep" ELSE "fetch"
    /\ UNCHANGED <<sockets, it, heartbeat, churned>>

\* _fetch_live_prices returned the tickers that did not fail, if any.
PollFetches ==
    /\ poll = "fetch"
    /\ \/ /\ poll' = "latest"
          /\ UNCHANGED <<registry, subs, tickers, it, churned>>
       \/ \E T \in SUBSET tickers \ {{}} : StartBroadcast(T, "prices", T)
    /\ UNCHANGED <<conn, peer, heartbeat>>

\* duckdb_reader.batch_latest returned what the store has, if anything.
PollReadsLatest ==
    /\ poll = "latest"
    /\ \/ EndRound
       \/ \E T \in SUBSET tickers \ {{}} : StartBroadcast(T, "prices", T)
    /\ UNCHANGED <<conn, peer, heartbeat>>

\* The awaited send is over: one that raised marks its socket dead.
PollSends ==
    /\ Broadcasting
    /\ peer[it.sending] # "stalled"
    /\ Iterate([it EXCEPT !.sending = NoSocket, !.dead = @ \cup Failed(it.sending)],
               poll, tickers)
    /\ UNCHANGED <<conn, peer, heartbeat>>

\* load_alerts and evaluate_alerts returned: alerts on the tickers F fired.
PollEvaluates ==
    /\ poll = "evaluate"
    /\ \/ EndRound
       \/ \E F \in SUBSET tickers \ {{}} : StartBroadcast(F, "alerts", {})
    /\ UNCHANGED <<conn, peer, heartbeat>>

\* dispatch returned: the channels catch what their sends raise.
PollNotifies ==
    /\ poll = "notify"
    /\ EndRound
    /\ UNCHANGED <<conn, peer, heartbeat>>

\* A store call raises (a row the price schema rejects, alerts that cannot be
\* written): nothing in the loop catches it.
PollRaises ==
    /\ Faults
    /\ poll \in {"list", "latest", "evaluate"}
    /\ poll' = "raised" /\ tickers' = {}
    /\ UNCHANGED <<sockets, it, heartbeat, churned>>

PollStep ==
    \/ PollWakes \/ PollLists \/ PollFetches \/ PollReadsLatest
    \/ PollEvaluates \/ PollNotifies

-----------------------------------------------------------------------------
(* The heartbeat.                                                          *)

\* for ws in list(_ws_subscriptions)
HeartbeatWakes ==
    /\ ping = <<>>
    /\ registry # <<>>
    /\ ping' = registry
    /\ pingDead' = {}
    /\ UNCHANGED <<sockets, poller, churned>>

\* The ping in flight is over; after the last one the dead are dropped.
HeartbeatPings ==
    /\ ping # <<>>
    /\ peer[Head(ping)] # "stalled"
    /\ ping' = Tail(ping)
    /\ \/ /\ ping' # <<>>
          /\ pingDead' = pingDead \cup Failed(Head(ping))
          /\ UNCHANGED <<registry, subs>>
       \/ /\ ping' = <<>>
          /\ pingDead' = {}
          /\ Pop(pingDead \cup Failed(Head(ping)))
    /\ ObserveChurn
    /\ UNCHANGED <<conn, peer, poller>>

-----------------------------------------------------------------------------

SocketStep(s) ==
    \/ Connect(s) \/ Receive(s) \/ AckDone(s) \/ Disconnect(s)
    \/ PeerStalls(s) \/ PeerResumes(s) \/ PeerBreaks(s)

Next ==
    \/ \E s \in Socket : SocketStep(s)
    \/ PollStep \/ PollSends \/ PollRaises
    \/ HeartbeatWakes \/ HeartbeatPings

Spec == Init /\ [][Next]_vars

(***************************************************************************)
(* The event loop runs every task that is ready.  A send whose buffer has  *)
(* drained once is resumed even if the peer stalls again, hence SF.  A     *)
(* peer that never resumes is broken by uvicorn's ping timeout.  Clients   *)
(* owe the server nothing.                                                 *)
(***************************************************************************)
Fairness ==
    /\ WF_vars(PollStep)
    /\ SF_vars(PollSends)
    /\ WF_vars(HeartbeatWakes)
    /\ SF_vars(HeartbeatPings)
    /\ \A s \in Socket : WF_vars(peer[s] = "stalled" /\ PeerBreaks(s))

FairSpec == Spec /\ Fairness

-----------------------------------------------------------------------------
(* Properties.                                                             *)

\* The state is well typed, and a broadcast has a send in flight exactly while
\* the poller waits in one.
TypeOK ==
    /\ conn \in [Socket -> {"new", "receiving", "acking", "closed"}]
    /\ peer \in [Socket -> {"up", "stalled", "down"}]
    /\ registry \in Seq(Socket)
    /\ subs \in [Socket -> SUBSET Ticker]
    /\ poll \in {"sleep", "list", "fetch", "latest", "prices", "evaluate",
                 "alerts", "notify", "dead", "raised"}
    /\ tickers \subseteq Ticker
    /\ it \in [filter : SUBSET Ticker, size : Nat, left : Nat, visited : SUBSET Socket,
               sending : Socket \cup {NoSocket}, dead : SUBSET Socket]
    /\ (it.sending # NoSocket) <=> Broadcasting
    /\ ping \in Seq(Socket) /\ pingDead \subseteq Socket
    /\ churned \in BOOLEAN

\* Whatever the three kinds of task do to the registry, it never holds a
\* socket whose handler has ended, and never loses one that can be reached:
\* a socket is dropped by a task only after a send to it failed.
RegistryExact ==
    /\ \A s \in Socket : Registered(s) => Running(s)
    /\ \A s \in Socket : Running(s) /\ peer[s] # "down" => Registered(s)
    /\ \A i, j \in 1 .. Len(registry) : registry[i] = registry[j] => i = j

\* In an undisturbed registry a broadcast never fails, whatever it drops itself:
\* the iterator raises only after another task changed the dict under it.
DiesOfChurnOnly == poll = "dead" => churned

\* A connection that broke without a word leaves the registry, even when the
\* poller is dead: the heartbeat alone sees to it.
BrokenLeaves ==
    \A s \in Socket : (Registered(s) /\ peer[s] = "down") ~> ~Registered(s)

\* While rounds with a price of a ticker keep coming, a socket subscribed to it is
\* addressed again and again: no other socket, stalled, broken or skipped by
\* its filter, starves it.
SubscriberServed ==
    \A s \in Socket, t \in Ticker :
        []<>(poll \in {"prices", "evaluate"} /\ t \in tickers) =>
            []<>(it.sending = s \/ ~Registered(s) \/ t \notin subs[s])

\* The price updates never stop being pushed because clients come and go.
PollerAlive == poll \notin {"dead", "raised"}
=============================================================================
