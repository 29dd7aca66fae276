---------------------------- MODULE AlertEngine ----------------------------
(***************************************************************************)
(* Price alerts: alerts.py, its use by a round of _poll_prices, and the    *)
(* alert endpoints of server.py, in one server process that may crash and  *)
(* restart.  alerts.json is only touched under _alerts_lock and replaced   *)
(* by os.replace, so each access to it is one step.  The poller loads the  *)
(* alerts in one step and saves its copy in a later one.  The clients its  *)
(* broadcasts go to are PriceHub's subject: here they only come and go.    *)
(***************************************************************************)
EXTENDS Integers, FiniteSets

CONSTANTS
    Alert,      \* alert ids: a uuid each, so an id is added at most once
    Def,        \* Def[a]: ticker, condition, threshold, cooldown, channels of a
    Ticker,
    Quote,      \* the [open, close] pairs prices are drawn from
    MaxTime,    \* bound on the clock
    MaxCrashes  \* bound on the restarts

Conditions == {"above", "below", "percent_change_above", "percent_change_below"}

ASSUME AlertAssumption ==
    /\ Def \in [Alert -> [ticker : Ticker, condition : Conditions, threshold : Int,
                          cooldown : Nat, channels : SUBSET {"telegram", "email"}]]
    /\ Quote \subseteq [open : Nat, close : Nat]
    /\ MaxTime \in Nat /\ MaxCrashes \in Nat

Never == -1
Time == 0 .. MaxTime

VARIABLES
    now,        \* datetime.now(), in ticks
    file,       \* alerts.json: last_triggered of each alert it lists
    poll,       \* where the alert part of _poll_prices stands
    prices,     \* update_map: the quotes of the round
    store,      \* the poller's alert_store, mutated by evaluate_alerts
    triggered,  \* alerts that fired in this round
    stamp,      \* now of evaluate_alerts
    acked,      \* observed: alerts whose creation was answered 200
    gone,       \* observed: alerts whose deletion was answered 200
    crashes,    \* observed: restarts so far
    exposed,    \* observed: alerts created or deleted while a round held a copy
    announced,  \* observed: stamp of the latest broadcast of each alert
    notified,   \* observed: stamp of its latest notification
    churned     \* observed: _ws_subscriptions changed under the alert broadcast

vars == <<now, file, poll, prices, store, triggered, stamp, acked, gone, exposed,
          announced, notified, churned, crashes>>
round == <<poll, prices, store, triggered, stamp>>
edits == <<acked, gone, exposed>>
told == <<announced, notified>>

NoAlerts == [a \in {} |-> Never]
NoPrices == [t \in {} |-> [open |-> 0, close |-> 0]]

Init ==
    /\ now = 0
    /\ file = NoAlerts
    /\ poll = "idle" /\ prices = NoPrices /\ store = NoAlerts
    /\ triggered = {} /\ stamp = Never
    /\ crashes = 0
    /\ acked = {} /\ gone = {} /\ exposed = {}
    /\ announced = [a \in Alert |-> Never]
    /\ notified = [a \in Alert |-> Never]
    /\ churned = FALSE

\* The round holds a copy of the alerts that it may yet save.
HoldsCopy == poll \in {"loaded", "evaluated"}

-----------------------------------------------------------------------------
(* What evaluate_alerts decides.                                           *)

\* Mutant: the comparison lets an alert fire one tick early.
CooldownShort(last, cooldown, at) == last # Never /\ at - last < cooldown - 1

\* _is_in_cooldown
InCooldown(last, cooldown, at) == last # Never /\ at - last < cooldown

\* The daily change exceeds p percent; prices are positive, open may be zero.
ChangeAbove(q, p) == q.open # 0 /\ (q.close - q.open) * 100 > p * q.open
ChangeBelow(q, p) == q.open # 0 /\ (q.close - q.open) * 100 < p * q.open

\* The threshold of a fall is given as a positive number and negated here.
Holds(d, q) ==
    \/ d.condition = "above" /\ q.close > d.threshold
    \/ d.condition = "below" /\ q.close < d.threshold
    \/ d.condition = "percent_change_above" /\ ChangeAbove(q, d.threshold)
    \/ d.condition = "percent_change_below" /\ ChangeBelow(q, -d.threshold)

\* The alerts of the copy that fire on these quotes at this time.
Due(alerts, quotes, at) ==
    {a \in DOMAIN alerts :
        /\ Def[a].ticker \in DOMAIN quotes
        /\ ~InCooldown(alerts[a], Def[a].cooldown, at)
        /\ Holds(Def[a], quotes[Def[a].ticker])}

-----------------------------------------------------------------------------
(* The endpoints.                                                          *)

Observe(a) == exposed' = IF HoldsCopy THEN exposed \cup {a} ELSE exposed

\* Mutant: what the file listed is dropped.
AddedFresh(f, a) == [b \in {a} |-> Never]

\* f with the new alert a, which has not fired.
Added(f, a) == [b \in DOMAIN f \cup {a} |-> IF b = a THEN Never ELSE f[b]]

\* POST /alerts: add_alert appends to what the file lists.
Create(a) ==
    /\ a \notin acked
    /\ file' = Added(file, a)
    /\ acked' = acked \cup {a}
    /\ Observe(a)
    /\ UNCHANGED <<now, round, gone, told, churned, crashes>>

\* DELETE /alerts/{id}: remove_alert rewrites the file without it.
Delete(a) ==
    /\ a \in acked
    /\ file' = [b \in DOMAIN file \ {a} |-> file[b]]
    /\ gone' = gone \cup {a}
    /\ Observe(a)
    /\ UNCHANGED <<now, round, acked, told, churned, crashes>>

-----------------------------------------------------------------------------
(* The alert part of a poller round.                                       *)

\* load_alerts, after the quotes of the round were broadcast.
Load ==
    /\ poll = "idle"
    /\ \E T \in SUBSET Ticker \ {{}} : prices' \in [T -> Quote]
    /\ poll' = "loaded"
    /\ store' = file
    /\ UNCHANGED <<now, file, triggered, stamp, edits, told, churned, crashes>>

\* Mutant: the list of fired alerts outlives its round.
EndRoundKeepsFired ==
    /\ poll' = "idle" /\ prices' = NoPrices /\ store' = NoAlerts
    /\ stamp' = Never /\ UNCHANGED triggered

Cleared == prices' = NoPrices /\ store' = NoAlerts /\ triggered' = {} /\ stamp' = Never

EndRound == poll' = "idle" /\ Cleared

\* evaluate_alerts up to its save: without a firing there is none.
Evaluate ==
    /\ poll = "loaded"
    /\ LET due == Due(store, prices, now)
       IN  \/ /\ due = {}
              /\ EndRound
           \/ /\ due # {}
              /\ poll' = "evaluated"
              /\ triggered' = due
              /\ stamp' = now
              /\ store' = [a \in DOMAIN store |-> IF a \in due THEN now ELSE store[a]]
              /\ UNCHANGED prices
    /\ UNCHANGED <<now, file, edits, told, churned, crashes>>

\* Mutant: the firing is not written down.
SaveForgotten == UNCHANGED file

\* save_alerts writes the copy over whatever the file lists by now.
WriteCopy == file' = store

Save ==
    /\ poll = "evaluated"
    /\ WriteCopy
    /\ poll' = "saved"
    /\ store' = NoAlerts
    /\ UNCHANGED <<now, prices, triggered, stamp, edits, told, churned, crashes>>

\* save_alerts raises before the replace: nothing catches it.
SaveRaises ==
    /\ poll = "evaluated"
    /\ poll' = "unsaved" /\ Cleared
    /\ UNCHANGED <<now, file, edits, told, churned, crashes>>

\* Before the alerts are looked at, the broadcast of the quotes meets a registry
\* that changed, or a call into the stores raises: nothing catches it either.
RoundRaises ==
    /\ poll = "idle"
    /\ poll' = "dead" /\ Cleared
    /\ UNCHANGED <<now, file, edits, told, churned, crashes>>

\* Mutant: only one fired alert makes it into the message.
OneInMessage == {CHOOSE a \in triggered : TRUE}

\* The alerts the alert_triggered message lists.
InMessage == triggered

\* _broadcast_alerts hands the message to its first send: from here on a
\* dashboard may have it.
BroadcastStarts ==
    /\ poll = "saved"
    /\ announced' = [a \in Alert |-> IF a \in InMessage THEN stamp ELSE announced[a]]
    /\ poll' = "announcing"
    /\ UNCHANGED <<now, file, prices, store, triggered, stamp, edits, notified, churned,
                   crashes>>

\* A handler or the heartbeat changes _ws_subscriptions between two sends.
ClientsChange ==
    /\ poll = "announcing" /\ ~churned
    /\ churned' = TRUE
    /\ UNCHANGED <<now, file, round, edits, told, crashes>>

\* The loop is through.  The dict's iterator may miss a change, as when one
\* client left and one came.
BroadcastEnds ==
    /\ poll = "announcing"
    /\ poll' = "notifying"
    /\ churned' = FALSE
    /\ UNCHANGED <<now, file, prices, store, triggered, stamp, edits, told, crashes>>

\* The iterator raises RuntimeError, which ends _poll_prices: the clients left
\* to visit are not told, and no notification is sent.
BroadcastRaises ==
    /\ poll = "announcing" /\ churned
    /\ poll' = "dead" /\ Cleared
    /\ UNCHANGED <<now, file, edits, told, churned, crashes>>

\* dispatch for one fired alert: a channel that fails returns False and the
\* result is not looked at.
Notify ==
    /\ poll = "notifying"
    /\ \/ \E a \in triggered, ok \in BOOLEAN :
             /\ notified' = IF ok /\ Def[a].channels # {}
                            THEN [notified EXCEPT ![a] = stamp] ELSE notified
             /\ triggered' = triggered \ {a}
             /\ UNCHANGED <<poll, prices, store, stamp>>
       \/ /\ triggered = {}
          /\ EndRound
          /\ UNCHANGED notified
    /\ UNCHANGED <<now, file, edits, announced, churned, crashes>>

PollStep ==
    \/ Load \/ Evaluate \/ Save \/ BroadcastStarts \/ BroadcastEnds \/ BroadcastRaises
    \/ Notify

-----------------------------------------------------------------------------

\* The server is killed, with the poller anywhere, and started again.
Restart ==
    /\ crashes < MaxCrashes
    /\ crashes' = crashes + 1
    /\ EndRound
    /\ churned' = FALSE
    /\ UNCHANGED <<now, file, edits, told>>

Tick ==
    /\ now < MaxTime
    /\ now' = now + 1
    /\ UNCHANGED <<file, round, edits, told, churned, crashes>>

Next ==
    \/ \E a \in Alert : Create(a) \/ Delete(a)
    \/ PollStep \/ SaveRaises \/ RoundRaises \/ ClientsChange
    \/ Restart
    \/ Tick

Spec == Init /\ [][Next]_vars

\* The poller loops on the server's event loop until something it does raises;
\* everything else happens or not.  A send does not wait for ever: uvicorn's
\* keepalive breaks a connection whose peer stays stalled.
FairSpec == Spec /\ WF_vars(PollStep)

-----------------------------------------------------------------------------
(* Properties.                                                             *)

\* The state is well typed: no time in the file lies in the future, and nothing
\* of a round outlives it.
TypeOK ==
    /\ now \in Time
    /\ DOMAIN file \subseteq Alert /\ DOMAIN store \subseteq Alert
    /\ \A a \in DOMAIN file : file[a] \in Never .. now
    /\ \A a \in DOMAIN store : store[a] \in Never .. now
    /\ poll \in {"idle", "loaded", "evaluated", "saved", "announcing", "notifying",
                "unsaved", "dead"}
    /\ DOMAIN prices \subseteq Ticker /\ \A t \in DOMAIN prices : prices[t] \in Quote
    /\ triggered \subseteq Alert /\ stamp \in Never .. now
    /\ poll \in {"idle", "unsaved", "dead"} => store = NoAlerts /\ triggered = {} /\ stamp = Never
    /\ crashes \in 0 .. MaxCrashes
    /\ acked \subseteq Alert /\ gone \subseteq acked /\ exposed \subseteq acked
    /\ announced \in [Alert -> Never .. now]
    /\ notified \in [Alert -> Never .. now]
    /\ churned \in BOOLEAN /\ (churned => poll \in {"announcing", "dead"})

\* An alert is not announced twice within its cooldown, whatever crashes,
\* restarts, creations and deletions come between the two announcements.  The
\* times are those of the evaluations: a client that stalled the first broadcast
\* may receive its messages closer together.
CooldownRespected ==
    [][\A a \in Alert :
          /\ announced[a] # Never /\ announced'[a] # announced[a]
                => announced'[a] - announced[a] >= Def[a].cooldown
          /\ notified[a] # Never /\ notified'[a] # notified[a]
                => notified'[a] - notified[a] >= Def[a].cooldown]_vars

\* Nobody is told of a firing that a restart would forget: what was announced
\* or sent is in the file, or the alert is no longer there.
ToldIsPersisted ==
    \A a \in DOMAIN file :
        a \notin gone => announced[a] <= file[a] /\ notified[a] <= file[a]

\* Outside a round's load-to-save span creations and deletions take effect
\* for good: only those made within one can be undone by its save.
UnexposedEditsKept ==
    \A a \in acked \ exposed : a \in DOMAIN file <=> a \notin gone

\* An alert that fired is announced by a broadcast that runs to its end and is
\* handed to its channels, whatever else fires with it.  Three things excuse it:
\* the write fails, a client connects or leaves during the broadcast, or the
\* server is restarted first.
FiredIsAnnounced ==
    \A a \in Alert, k \in 0 .. MaxCrashes :
        (poll = "evaluated" /\ a \in triggered /\ crashes = k)
            ~> \/ poll = "notifying" /\ announced[a] = stamp /\ a \notin triggered
               \/ poll = "unsaved"
               \/ poll = "dead" /\ churned
               \/ crashes > k

\* The creation of an alert that was answered 200 lasts until it is deleted.
CreatedAlertListed == acked \ gone \subseteq DOMAIN file

\* An alert set up as percent_change_below -p fires on a fall by p percent.
FallAlertMeansFall ==
    \A a \in triggered :
        Def[a].condition = "percent_change_below" /\ Def[a].threshold < 0
            => ChangeBelow(prices[Def[a].ticker], Def[a].threshold)
=============================================================================
