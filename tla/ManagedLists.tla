---------------------------- MODULE ManagedLists ----------------------------
(***************************************************************************)
(* The panels that change what they list: the price alerts, the portfolio  *)
(* and the stored data.  A write is a call and a list is another, so that  *)
(* the server runs them, and their answers arrive, in orders of their own; *)
(* any of them may fail before the server ran it or after.  In view are,   *)
(* besides the panel's flags, the server's list and how often it changed.  *)
(***************************************************************************)
EXTENDS PanelFetch

CONSTANTS
    Item,           \* alerts, holdings or tickers with data
    MaxWrites       \* bound: changes of the server's list

\* An item is absent, there in full, or cleaned of its old rows.
Kept == {"absent", "cleaned", "full"}
AllFull == [item \in Item |-> "full"]

\* A call, why it is made, and once the server ran it, the list it answers with and that
\* list's version.
Sent(op, item, for) ==
    [op |-> op, item |-> item, for |-> for, state |-> "sent", rows |-> None, version |-> 0]

ListFor(for) == Sent("list", None, for)

Start ==
    /\ query = "all" /\ data = None /\ loading = TRUE /\ error = FALSE
    /\ calls = <<ListFor("mount")>> /\ overtaken = FALSE /\ overlapped = FALSE /\ drawn = None
    /\ view = [server |-> AllFull, version |-> 1, seen |-> 0, busy |-> FALSE, deleting |-> None]

ManagedPanels == panel \in {"alerts", "portfolio", "storage"}

ManagedInit == ManagedPanels /\ Start

-----------------------------------------------------------------------------
(* The server, and what becomes of its answers on the way.                 *)

Change(c) ==
    CASE c.op = "list"   -> view.server
      [] c.op = "add"    -> [view.server EXCEPT ![c.item] = "full"]
      [] c.op = "delete" -> [view.server EXCEPT ![c.item] = "absent"]
      [] c.op = "clean"  -> [item \in Item |-> IF view.server[item] = "full" THEN "cleaned"
                                                                             ELSE view.server[item]]

\* Deleting the data of a ticker that has none is an error, elsewhere it is not.
Refused(c) == panel = "storage" /\ c.op = "delete" /\ view.server[c.item] = "absent"

ServerRuns(i) ==
    /\ calls[i].state = "sent" /\ ~Refused(calls[i])
    /\ LET list == Change(calls[i])
           version == view.version + IF list = view.server THEN 0 ELSE 1
       IN  /\ version <= MaxWrites
           /\ view' = [view EXCEPT !.server = list, !.version = version]
           /\ calls' = [calls EXCEPT ![i].state = "answered", ![i].rows = list,
                                     ![i].version = version]
    /\ UNCHANGED <<panel, query, data, loading, error, overtaken, overlapped, drawn>>

\* The call fails: the server refuses it, never sees it, or its answer is lost.
CallFails(i) ==
    /\ calls[i].state \in {"sent", "answered"}
    /\ calls' = [calls EXCEPT ![i].state = "failed"]
    /\ UNCHANGED <<panel, query, data, loading, error, overtaken, overlapped, view, drawn>>

-----------------------------------------------------------------------------
(* What the panels make of an answer.                                      *)

IsAnswer(i, op) == calls[i].op = op /\ calls[i].state = "answered"
IsFailure(i, op) == calls[i].op = op /\ calls[i].state = "failed"

\* The rows of a call are shown, be they older than the ones before.
Show(c) ==
    /\ data' = c.rows
    /\ overtaken' = (c.version < view.seen)
    /\ view' = [view EXCEPT !.seen = IF c.version > @ THEN c.version ELSE @,
                            !.busy = @ /\ c.for # "busy",
                            !.deleting = IF c.op = "delete" THEN None ELSE @]

\* A failure is told of; a flag that waited for the call is cleared.
Tell(c) ==
    /\ error' = TRUE
    /\ view' = [view EXCEPT !.busy = @ /\ c.for # "busy",
                            !.deleting = IF c.op = "delete" THEN None ELSE @]
    /\ UNCHANGED <<data, overtaken>>

\* Mutant: the list is not loaded again after a write.
NoReload(i) == calls' = Remaining(i)

\* await load() after await of the write.
Reload(i) == calls' = Append(Remaining(i), ListFor(calls[i].for))

Send(c) == Len(calls) < MaxCalls /\ calls' = Append(calls, c)

-----------------------------------------------------------------------------
(* AlertManager.tsx.  Only the first load counts as loading.  A failure is *)
(* told by a snack bar; error observes it until the list is up to date.    *)

Listed(item) == data # None /\ data[item] # "absent"

\* handleCreate: a new alert has an id of its own.
CreateAlert(item) ==
    /\ panel = "alerts" /\ ~view.busy
    /\ view.server[item] = "absent" /\ \A i \in DOMAIN calls : calls[i].item # item
    /\ Send(Sent("add", item, "busy")) /\ view' = [view EXCEPT !.busy = TRUE]
    /\ UNCHANGED <<panel, query, data, loading, error, overtaken, overlapped, drawn>>

\* handleDelete: the button of the alert that is being deleted is disabled, of one only.
DeleteAlert(item) ==
    /\ panel = "alerts" /\ ~loading /\ Listed(item) /\ view.deleting # item
    /\ Send(Sent("delete", item, "row")) /\ view' = [view EXCEPT !.deleting = item]
    /\ UNCHANGED <<panel, query, data, loading, error, overtaken, overlapped, drawn>>

\* A list is shown, as is the one that answers a delete; a creation is followed by
\* loadAlerts.
AlertsArrive ==
    /\ panel = "alerts"
    /\ \E i \in DOMAIN calls :
          \/ /\ IsAnswer(i, "list") \/ IsAnswer(i, "delete")
             /\ calls' = Remaining(i) /\ Show(calls[i])
             /\ error' = (error /\ calls[i].version # view.version)
             /\ loading' = (loading /\ calls[i].for # "mount")
          \/ /\ IsAnswer(i, "add")
             /\ Reload(i)
             /\ UNCHANGED <<data, loading, error, overtaken, view>>
          \/ /\ calls[i].state = "failed"
             /\ calls' = Remaining(i) /\ Tell(calls[i])
             /\ loading' = (loading /\ calls[i].for # "mount")
    /\ UNCHANGED <<panel, query, overlapped, drawn>>

-----------------------------------------------------------------------------
(* PortfolioDashboard.tsx.                                                 *)

\* handleAdd: the holding of the ticker, or more of it.
AddHolding(item) ==
    /\ panel = "portfolio" /\ ~view.busy
    /\ Send(Sent("add", item, "busy")) /\ view' = [view EXCEPT !.busy = TRUE]
    /\ UNCHANGED <<panel, query, data, loading, error, overtaken, overlapped, drawn>>

\* handleDelete: the rows are there while nothing is loading.
DeleteHolding(item) ==
    /\ panel = "portfolio" /\ ~loading /\ Listed(item)
    /\ Send(Sent("delete", item, "row"))
    /\ UNCHANGED <<panel, query, data, loading, error, overtaken, overlapped, view, drawn>>

-----------------------------------------------------------------------------
(* DataManagement.tsx.                                                     *)

\* The refresh button.
RefreshStorage ==
    /\ panel = "storage" /\ ~loading
    /\ Send(ListFor("refresh"))
    /\ loading' = TRUE /\ error' = FALSE
    /\ UNCHANGED <<panel, query, data, overtaken, overlapped, view, drawn>>

\* handleClean, once confirmed.
CleanStorage ==
    /\ panel = "storage" /\ ~view.busy /\ ~loading
    /\ Send(Sent("clean", None, "busy")) /\ view' = [view EXCEPT !.busy = TRUE]
    /\ UNCHANGED <<panel, query, data, loading, error, overtaken, overlapped, drawn>>

\* handleDeleteTicker, once confirmed.
DeleteStored(item) ==
    /\ panel = "storage" /\ ~loading /\ Listed(item)
    /\ Send(Sent("delete", item, "row"))
    /\ UNCHANGED <<panel, query, data, loading, error, overtaken, overlapped, view, drawn>>

\* In both: load() after a write, which clears the error; its answer ends the loading.
ListArrives(i) ==
    /\ calls' = Remaining(i) /\ loading' = FALSE
    /\ \/ IsAnswer(i, "list") /\ Show(calls[i]) /\ UNCHANGED error
       \/ IsFailure(i, "list") /\ Tell(calls[i])

WriteArrives(i) ==
    /\ calls[i].op # "list"
    /\ \/ /\ calls[i].state = "answered"
          /\ Reload(i) /\ loading' = TRUE /\ error' = FALSE
          /\ UNCHANGED <<data, overtaken, view>>
       \/ /\ calls[i].state = "failed"
          /\ calls' = Remaining(i) /\ Tell(calls[i]) /\ UNCHANGED loading

HoldingsArrive ==
    /\ panel = "portfolio"
    /\ \E i \in DOMAIN calls : ListArrives(i) \/ WriteArrives(i)
    /\ UNCHANGED <<panel, query, overlapped, drawn>>

\* The list is the quality report: the storage summary that Promise.all fetches with
\* it comes in the same step, or fails it.
StorageArrives ==
    /\ panel = "storage"
    /\ \E i \in DOMAIN calls : ListArrives(i) \/ WriteArrives(i)
    /\ UNCHANGED <<panel, query, overlapped, drawn>>

-----------------------------------------------------------------------------

\* The user leaves for another page and comes back: a new mount.  Only explored once
\* nothing is under way.
Reopen ==
    /\ ManagedPanels /\ calls = <<>>
    /\ data' = None /\ loading' = TRUE /\ error' = FALSE /\ overtaken' = FALSE
    /\ calls' = <<ListFor("mount")>>
    /\ view' = [view EXCEPT !.seen = 0]
    /\ UNCHANGED <<panel, query, overlapped, drawn>>

ServerStep ==
    ManagedPanels /\ \E i \in DOMAIN calls : ServerRuns(i) \/ CallFails(i)

ManagedAnswer == AlertsArrive \/ HoldingsArrive \/ StorageArrives

ManagedNext ==
    \/ ServerStep \/ ManagedAnswer
    \/ RefreshStorage \/ CleanStorage \/ Reopen
    \/ \E item \in Item :
          CreateAlert(item) \/ DeleteAlert(item) \/ AddHolding(item) \/ DeleteHolding(item)
              \/ DeleteStored(item)

\* The button that made a write waits for it.
Busy == IF ManagedPanels THEN view.busy ELSE FALSE

\* After its own writes, and nothing told to have failed, a panel has shown the list as
\* it is on the server, and shows it still unless an answer that was written earlier
\* came later.
ListMatchesServer ==
    ManagedPanels /\ calls = <<>> /\ ~error =>
        /\ view.seen = view.version
        /\ ~overtaken => data = view.server
=============================================================================
