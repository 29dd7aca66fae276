----------------------------- MODULE AlertToast -----------------------------
(***************************************************************************)
(* The toast of a triggered alert: AlertToast.tsx, over the alerts of      *)
(* LivePrices.  Its effect runs after a render, so several messages may    *)
(* have been merged into alerts before it sees them, and it looks at the   *)
(* newest alert only.                                                      *)
(***************************************************************************)
EXTENDS LivePrices

CONSTANT NoAlert

VARIABLES
    toastOpen,
    toastAlert,     \* currentAlert
    shownIds,       \* shownIdsRef: alerts that have had their toast
    seenAlerts      \* the alerts of the last run of the effect

toastVars == <<toastOpen, toastAlert, shownIds, seenAlerts>>

ToastInit ==
    /\ toastOpen = FALSE /\ toastAlert = NoAlert
    /\ shownIds = {} /\ seenAlerts = <<>>

\* Mutant: no alert is shown while one is on screen.
OneAtATime(a) == a \notin shownIds /\ ~toastOpen

Unseen(a) == a \notin shownIds

\* The effect on alerts.
ToastEffect ==
    /\ alerts # seenAlerts
    /\ seenAlerts' = alerts
    /\ IF Unseen(Head(alerts))
       THEN /\ shownIds' = shownIds \cup {Head(alerts)}
            /\ toastAlert' = Head(alerts) /\ toastOpen' = TRUE
       ELSE UNCHANGED <<shownIds, toastAlert, toastOpen>>
    /\ UNCHANGED liveVars

\* handleClose: its button, or five seconds; a click elsewhere is ignored.
ToastCloses ==
    /\ toastOpen /\ toastOpen' = FALSE
    /\ UNCHANGED <<toastAlert, shownIds, seenAlerts, liveVars>>

\* What is on screen.
Toast == IF toastAlert # NoAlert /\ toastOpen THEN toastAlert ELSE NoAlert

ToastNext == ToastEffect \/ ToastCloses

ToastTypeOK ==
    /\ toastOpen \in BOOLEAN /\ toastAlert \in AlertId \cup {NoAlert}
    /\ shownIds \subseteq AlertId /\ seenAlerts \in Seq(AlertId)
=============================================================================
