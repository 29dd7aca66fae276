----------------------------- MODULE AtomicMap -----------------------------
(***************************************************************************)
(* What watchlist.py, portfolio.py and alerts.py promise of their JSON     *)
(* files: a map that every operation changes in one step and answers with. *)
(* The promise is void once operations of two processes have overlapped.   *)
(***************************************************************************)
CONSTANTS Key, Value, Missing

VARIABLES
    items,      \* the map
    answer,     \* what the latest operation returned
    calm        \* no two processes have overlapped so far

vars == <<items, answer, calm>>

Map == [Key -> Value \cup {Missing}]
Empty == [k \in Key |-> Missing]

Init == items = Empty /\ answer = Empty /\ calm = TRUE

\* add_ticker, add_holding, add_alert; remove_*; update_holding of a key that
\* is there.  The whole map is returned.
Put(k, v) == items' = [items EXCEPT ![k] = v]
Remove(k) == items' = [items EXCEPT ![k] = Missing]
Update(k, v) == items[k] # Missing /\ items' = [items EXCEPT ![k] = v]

Change ==
    /\ \E k \in Key : Remove(k) \/ \E v \in Value : Put(k, v) \/ Update(k, v)
    /\ answer' = items'

\* load_*, list_*
Read == answer' = items /\ UNCHANGED items

Disturbed == items' \in Map /\ answer' \in Map

Next ==
    \/ calm /\ (Change \/ Read) /\ calm' = TRUE
    \/ Disturbed /\ calm' = FALSE

Spec == Init /\ [][Next]_vars
=============================================================================
