------------------------- MODULE AlertEngineProofs -------------------------
(***************************************************************************)
(* No alert is told twice within its cooldown and nothing is told that the *)
(* file would forget, for any alerts, quotes, crashes and edits.           *)
(***************************************************************************)
EXTENDS AlertEngine, TLAPS

(***************************************************************************)
(* The poller alone writes last_triggered, so what it was told of never    *)
(* runs ahead of the file (FileAhead), nor of the copy it may write back   *)
(* (StoreAhead), even when that copy brings a deleted alert back.  An id   *)
(* that was never created has no history (Known), so creating it cannot    *)
(* break FileAhead.                                                        *)
(***************************************************************************)
Known ==
    /\ DOMAIN file \subseteq acked /\ DOMAIN store \subseteq acked
    /\ triggered \subseteq acked
    /\ \A a \in Alert \ acked : announced[a] = Never /\ notified[a] = Never

FileAhead == \A a \in DOMAIN file : announced[a] <= file[a] /\ notified[a] <= file[a]

StoreAhead == \A a \in DOMAIN store : announced[a] <= store[a] /\ notified[a] <= store[a]

\* The round's locals are empty when they are not in use.
Scoped ==
    /\ ~HoldsCopy => DOMAIN store = {}
    /\ poll \in {"idle", "loaded", "unsaved", "dead"} => triggered = {}

Spaced(t, a) == t = Never \/ stamp - t >= Def[a].cooldown

\* What a fired alert is about to be told keeps its distance to what it was
\* told before, and is in the file by the time it is told.
FiredOK ==
    \A a \in triggered :
        /\ poll = "evaluated" => a \in DOMAIN store /\ store[a] = stamp
        /\ poll \in {"saved", "announcing", "notifying"} /\ a \in DOMAIN file
              => file[a] = stamp
        /\ poll \in {"evaluated", "saved"} => Spaced(announced[a], a)
        /\ Spaced(notified[a], a)

AlertInv == TypeOK /\ Known /\ FileAhead /\ StoreAhead /\ Scoped /\ FiredOK

-----------------------------------------------------------------------------
(* One lemma per action.                                                   *)

LEMMA AlertInit == Init => AlertInv
<1> SUFFICES ASSUME Init PROVE AlertInv
  OBVIOUS
<1> USE AlertAssumption DEF Init, NoAlerts, NoPrices
<1>1. TypeOK
  <2>1. ~churned /\ churned \in BOOLEAN
    OBVIOUS
  <2>2. /\ now \in Time /\ stamp \in Never .. now
        /\ Never \in Never .. now /\ 0 \in 0 .. MaxCrashes
    BY DEF Time, Never
  <2> QED BY <2>1, <2>2 DEF TypeOK
<1>2. Known /\ FileAhead /\ StoreAhead /\ Scoped /\ FiredOK
  BY DEF Known, FileAhead, StoreAhead, Scoped, FiredOK, HoldsCopy
<1> QED BY <1>1, <1>2 DEF AlertInv

LEMMA AlertCreate == ASSUME AlertInv, NEW a \in Alert, Create(a) PROVE AlertInv'
<1> USE DEF AlertInv, Create, Added, round, told
<1>1. TypeOK'
  BY DEF TypeOK, Known, Observe, Never
<1>2. Known'
  BY DEF Known
<1>3. FileAhead'
  BY DEF FileAhead, Known, Never
<1>4. StoreAhead' /\ Scoped'
  BY DEF StoreAhead, Scoped, HoldsCopy
<1>5. FiredOK'
  BY DEF FiredOK, Known, Spaced
<1> QED BY <1>1, <1>2, <1>3, <1>4, <1>5

LEMMA AlertDelete == ASSUME AlertInv, NEW a \in Alert, Delete(a) PROVE AlertInv'
<1> USE DEF AlertInv, Delete, round, told
<1>1. TypeOK'
  BY DEF TypeOK, Observe
<1>2. Known'
  BY DEF Known
<1>3. FileAhead' /\ StoreAhead' /\ Scoped'
  BY DEF FileAhead, StoreAhead, Scoped, HoldsCopy
<1>4. FiredOK'
  BY DEF FiredOK, Spaced
<1> QED BY <1>1, <1>2, <1>3, <1>4

LEMMA AlertLoad == ASSUME AlertInv, Load PROVE AlertInv'
<1> USE DEF AlertInv, Load, edits, told
<1>1. TypeOK'
  BY DEF TypeOK
<1>2. Known' /\ FileAhead' /\ StoreAhead'
  BY DEF Known, FileAhead, StoreAhead
<1>3. triggered' = {}
  BY DEF Scoped
<1>4. Scoped' /\ FiredOK'
  BY <1>3 DEF Scoped, FiredOK, HoldsCopy
<1> QED BY <1>1, <1>2, <1>4

\* A round that ends or dies takes nothing with it.
LEMMA AlertCleared ==
    ASSUME AlertInv, poll' \in {"idle", "unsaved", "dead"}, Cleared,
           UNCHANGED <<now, file, edits, announced, notified>>,
           crashes' \in 0 .. MaxCrashes, churned' \in BOOLEAN, churned' => poll' = "dead"
    PROVE  AlertInv'
<1> USE DEF AlertInv, Cleared, edits, NoAlerts, NoPrices
<1>1. TypeOK'
  BY AlertAssumption DEF TypeOK, Never, Time
<1>2. Known' /\ FileAhead' /\ StoreAhead'
  BY DEF Known, FileAhead, StoreAhead
<1>3. Scoped' /\ FiredOK'
  BY DEF Scoped, FiredOK
<1> QED BY <1>1, <1>2, <1>3

LEMMA AlertEvaluate == ASSUME AlertInv, Evaluate PROVE AlertInv'
<1> DEFINE due == Due(store, prices, now)
<1>1. CASE due = {}
  <2>1. /\ poll = "loaded" /\ poll' = "idle" /\ Cleared
        /\ UNCHANGED <<now, file, edits, announced, notified, churned>>
    BY <1>1 DEF Evaluate, EndRound, told
  <2>2. crashes' \in 0 .. MaxCrashes /\ churned' = FALSE
    BY <2>1 DEF Evaluate, AlertInv, TypeOK
  <2> QED BY <2>1, <2>2, AlertCleared
<1>2. CASE due # {}
  <2>1. /\ poll = "loaded" /\ poll' = "evaluated"
        /\ triggered' = due /\ stamp' = now
        /\ store' = [a \in DOMAIN store |-> IF a \in due THEN now ELSE store[a]]
        /\ UNCHANGED <<prices, now, file, edits, announced, notified, churned, crashes>>
    BY <1>2 DEF Evaluate, told
  <2>2. /\ due \subseteq DOMAIN store
        /\ \A a \in due : ~InCooldown(store[a], Def[a].cooldown, now)
    BY DEF Due
  <2>3. now \in Nat /\ Never = -1
    BY AlertAssumption DEF AlertInv, TypeOK, Time, Never
  <2> HIDE DEF due
  <2>4. TypeOK'
    BY <2>1, <2>2, <2>3 DEF AlertInv, TypeOK, edits
  <2>5. Known'
    BY <2>1, <2>2 DEF AlertInv, Known, edits
  <2>6. FileAhead' /\ Scoped'
    BY <2>1 DEF AlertInv, FileAhead, Scoped, HoldsCopy
  <2>7. StoreAhead'
    <3>1. \A a \in DOMAIN store : announced[a] <= now /\ notified[a] <= now
      BY <2>3 DEF AlertInv, TypeOK
    <3> QED BY <2>1, <3>1 DEF AlertInv, StoreAhead
  <2>8. FiredOK'
    <3> SUFFICES ASSUME NEW a \in due
                 PROVE  /\ a \in DOMAIN store' /\ store'[a] = now
                        /\ announced[a] = Never \/ now - announced[a] >= Def[a].cooldown
                        /\ notified[a] = Never \/ now - notified[a] >= Def[a].cooldown
      BY <2>1 DEF FiredOK, Spaced
    <3>1. a \in DOMAIN store /\ a \in Alert
      BY <2>2 DEF AlertInv, TypeOK
    <3>2. store[a] = Never \/ now - store[a] >= Def[a].cooldown
      <4>1. store[a] \in Int /\ Def[a].cooldown \in Int
        BY <3>1, <2>3, AlertAssumption DEF AlertInv, TypeOK
      <4> QED BY <4>1, <2>2, <2>3 DEF InCooldown
    <3>3. /\ announced[a] \in Int /\ notified[a] \in Int /\ store[a] \in Int
          /\ announced[a] >= Never /\ notified[a] >= Never /\ Def[a].cooldown \in Nat
      BY <3>1, <2>3, AlertAssumption DEF AlertInv, TypeOK
    <3>4. announced[a] <= store[a] /\ notified[a] <= store[a]
      BY <3>1 DEF AlertInv, StoreAhead
    <3>5. a \in DOMAIN store' /\ store'[a] = now
      BY <3>1, <2>1
    <3> QED BY <3>2, <3>3, <3>4, <3>5, <2>3
  <2> QED BY <2>4, <2>5, <2>6, <2>7, <2>8 DEF AlertInv
<1> QED BY <1>1, <1>2

LEMMA AlertSave == ASSUME AlertInv, Save PROVE AlertInv'
<1> USE DEF AlertInv, Save, WriteCopy, edits, told, NoAlerts
<1>1. TypeOK'
  BY DEF TypeOK
<1>2. Known' /\ FileAhead' /\ StoreAhead'
  BY DEF Known, FileAhead, StoreAhead
<1>3. Scoped' /\ FiredOK'
  BY DEF Scoped, FiredOK, HoldsCopy, Spaced
<1> QED BY <1>1, <1>2, <1>3

LEMMA AlertRaises ==
    ASSUME AlertInv, SaveRaises \/ RoundRaises \/ BroadcastRaises
    PROVE  AlertInv'
<1>1. /\ poll' \in {"unsaved", "dead"} /\ Cleared
      /\ UNCHANGED <<now, file, edits, announced, notified, churned, crashes>>
  BY DEF SaveRaises, RoundRaises, BroadcastRaises, told
<1>2. churned' => poll' = "dead"
  BY <1>1 DEF SaveRaises, RoundRaises, BroadcastRaises, AlertInv, TypeOK
<1>3. crashes' \in 0 .. MaxCrashes /\ churned' \in BOOLEAN
  BY <1>1 DEF AlertInv, TypeOK
<1> QED BY <1>1, <1>2, <1>3, AlertCleared

LEMMA AlertBroadcastStarts == ASSUME AlertInv, BroadcastStarts PROVE AlertInv'
<1> USE DEF AlertInv, BroadcastStarts, InMessage, edits
<1>1. TypeOK'
  BY DEF TypeOK
<1>2. Known'
  BY DEF Known
<1>3. FileAhead'
  <2> SUFFICES ASSUME NEW a \in DOMAIN file
               PROVE  announced'[a] <= file[a] /\ notified[a] <= file[a]
    BY DEF FileAhead
  <2>1. a \in Alert /\ file[a] \in Int /\ (a \in triggered => file[a] = stamp)
    BY DEF TypeOK, FiredOK, Never, Time
  <2> QED BY <2>1 DEF FileAhead
<1>4. StoreAhead' /\ Scoped'
  BY DEF StoreAhead, Scoped, HoldsCopy
<1>5. FiredOK'
  BY DEF FiredOK, Spaced
<1> QED BY <1>1, <1>2, <1>3, <1>4, <1>5

\* Between its first send and its end the broadcast leaves the alerts alone.
LEMMA AlertBroadcastGoesOn ==
    ASSUME AlertInv, ClientsChange \/ BroadcastEnds
    PROVE  AlertInv'
<1> USE DEF AlertInv, ClientsChange, BroadcastEnds, round, edits, told
<1>1. TypeOK'
  BY DEF TypeOK
<1>2. Known' /\ FileAhead' /\ StoreAhead'
  BY DEF Known, FileAhead, StoreAhead
<1>3. Scoped' /\ FiredOK'
  BY DEF Scoped, FiredOK, HoldsCopy, Spaced
<1> QED BY <1>1, <1>2, <1>3

LEMMA AlertNotify == ASSUME AlertInv, Notify PROVE AlertInv'
<1>1. CASE triggered = {} /\ EndRound /\ UNCHANGED notified
  <2>1. /\ UNCHANGED <<now, file, edits, announced>> /\ crashes' \in 0 .. MaxCrashes
        /\ churned' = FALSE
    BY DEF Notify, AlertInv, TypeOK
  <2> QED BY <1>1, <2>1, AlertCleared DEF EndRound
<1>2. ASSUME NEW a \in triggered,
             notified' = notified \/ notified' = [notified EXCEPT ![a] = stamp],
             triggered' = triggered \ {a}, UNCHANGED <<poll, prices, store, stamp>>
      PROVE  AlertInv'
  <2>1. /\ poll = "notifying"
        /\ UNCHANGED <<now, file, edits, announced, churned, crashes>>
    BY DEF Notify
  <2>2. a \in Alert /\ a \in acked /\ DOMAIN store = {}
        /\ (a \in DOMAIN file => file[a] = stamp)
    BY <2>1 DEF AlertInv, TypeOK, Known, Scoped, FiredOK, HoldsCopy
  <2>3. \A b \in Alert : notified'[b] = notified[b] \/ (b = a /\ notified'[b] = stamp)
    BY <1>2 DEF AlertInv, TypeOK
  <2>4. TypeOK'
    BY <1>2, <2>1, <2>2 DEF AlertInv, TypeOK, edits
  <2>5. Known'
    BY <1>2, <2>1, <2>2, <2>3 DEF AlertInv, Known, edits
  <2>6. FileAhead'
    <3> SUFFICES ASSUME NEW b \in DOMAIN file
                 PROVE  announced[b] <= file[b] /\ notified'[b] <= file[b]
      BY <2>1 DEF FileAhead
    <3>1. b \in Alert /\ file[b] \in Int
      BY DEF AlertInv, TypeOK, Never, Time
    <3> QED BY <3>1, <2>2, <2>3 DEF AlertInv, FileAhead
  <2>7. StoreAhead' /\ Scoped'
    BY <1>2, <2>1, <2>2 DEF AlertInv, StoreAhead, Scoped, HoldsCopy
  <2>8. FiredOK'
    <3> SUFFICES ASSUME NEW b \in triggered, b # a
                 PROVE  /\ b \in DOMAIN file => file[b] = stamp
                        /\ Spaced(notified'[b], b)
      BY <1>2, <2>1 DEF FiredOK, Spaced
    <3>1. b \in Alert
      BY DEF AlertInv, TypeOK
    <3> QED BY <3>1, <2>1, <2>3 DEF AlertInv, FiredOK, Spaced
  <2> QED BY <2>4, <2>5, <2>6, <2>7, <2>8 DEF AlertInv
<1> QED BY <1>1, <1>2 DEF Notify

LEMMA AlertRestart == ASSUME AlertInv, Restart PROVE AlertInv'
<1>1. UNCHANGED <<now, file, edits, announced, notified>> /\ poll' = "idle" /\ Cleared
  BY DEF Restart, EndRound, told
<1>2. crashes' \in 0 .. MaxCrashes /\ churned' = FALSE
  BY AlertAssumption DEF Restart, AlertInv, TypeOK
<1> QED BY <1>1, <1>2, AlertCleared

LEMMA AlertTick == ASSUME AlertInv, Tick PROVE AlertInv'
<1> USE DEF AlertInv, Tick, round, edits, told
<1>1. TypeOK'
  <2>1. now \in Nat /\ now' = now + 1 /\ now' \in Time
    BY AlertAssumption DEF TypeOK, Time
  <2>2. \A t : t \in Never .. now => t \in Never .. now'
    BY <2>1 DEF Never
  <2> QED BY <2>1, <2>2 DEF TypeOK
<1>2. Known' /\ FileAhead' /\ StoreAhead'
  BY DEF Known, FileAhead, StoreAhead
<1>3. Scoped' /\ FiredOK'
  BY DEF Scoped, FiredOK, HoldsCopy, Spaced
<1> QED BY <1>1, <1>2, <1>3

LEMMA AlertStep == AlertInv /\ [Next]_vars => AlertInv'
<1> SUFFICES ASSUME AlertInv, [Next]_vars PROVE AlertInv'
  OBVIOUS
<1>1. ASSUME NEW a \in Alert, Create(a) \/ Delete(a) PROVE AlertInv'
  BY <1>1, AlertCreate, AlertDelete
<1>2. CASE PollStep
  BY <1>2, AlertLoad, AlertEvaluate, AlertSave, AlertBroadcastStarts, AlertBroadcastGoesOn,
     AlertRaises, AlertNotify DEF PollStep
<1>3. CASE SaveRaises \/ RoundRaises \/ ClientsChange
  BY <1>3, AlertRaises, AlertBroadcastGoesOn
<1>4. CASE Restart
  BY <1>4, AlertRestart
<1>5. CASE Tick
  BY <1>5, AlertTick
<1>6. CASE UNCHANGED vars
  BY <1>6 DEF vars, AlertInv, TypeOK, Known, FileAhead, StoreAhead, Scoped, FiredOK,
              HoldsCopy, Spaced
<1> QED BY <1>1, <1>2, <1>3, <1>4, <1>5, <1>6 DEF Next

LEMMA AlertInvariant == Spec => []AlertInv
  BY AlertInit, AlertStep, PTL DEF Spec

-----------------------------------------------------------------------------
(* What follows from the invariant.                                        *)

\* The state of the alert engine is well typed, no stored firing lies in the
\* future, and no round leaves its locals behind.
THEOREM AlertTypeOK == Spec => []TypeOK
<1>1. AlertInv => TypeOK
  BY DEF AlertInv
<1> QED BY <1>1, AlertInvariant, PTL

\* Whatever was told of an alert that the file still lists is in the file, so a
\* restart of the server counts it against the cooldown.
THEOREM AlertToldIsPersisted == Spec => []ToldIsPersisted
<1>1. AlertInv => ToldIsPersisted
  BY DEF AlertInv, FileAhead, ToldIsPersisted
<1> QED BY <1>1, AlertInvariant, PTL

\* evaluate_alerts keeps every alert's cooldown between two messages about it,
\* across restarts and concurrent edits.
THEOREM AlertCooldown == Spec => CooldownRespected
<1>1. AlertInv /\ [Next]_vars =>
        [\A a \in Alert :
            /\ announced[a] # Never /\ announced'[a] # announced[a]
                  => announced'[a] - announced[a] >= Def[a].cooldown
            /\ notified[a] # Never /\ notified'[a] # notified[a]
                  => notified'[a] - notified[a] >= Def[a].cooldown]_vars
  <2> SUFFICES ASSUME AlertInv, Next, NEW a \in Alert
               PROVE  /\ \/ announced'[a] = announced[a]
                         \/ Spaced(announced[a], a) /\ announced'[a] = stamp
                      /\ \/ notified'[a] = notified[a]
                         \/ Spaced(notified[a], a) /\ notified'[a] = stamp
    BY DEF Spaced, vars
  <2>1. CASE BroadcastStarts
    BY <2>1 DEF BroadcastStarts, InMessage, AlertInv, TypeOK, FiredOK
  <2>2. CASE Notify
    <3>1. announced' = announced
      BY <2>2 DEF Notify
    <3>2. notified' = notified \/ \E b \in triggered : notified' = [notified EXCEPT ![b] = stamp]
      BY <2>2 DEF Notify
    <3> QED BY <3>1, <3>2 DEF AlertInv, TypeOK, FiredOK
  <2>3. CASE ~BroadcastStarts /\ ~Notify
    <3>1. UNCHANGED told
      BY <2>3 DEF Next, PollStep, Create, Delete, Load, Evaluate, Save, SaveRaises,
                  RoundRaises, ClientsChange, BroadcastEnds, BroadcastRaises, Restart, Tick
    <3> QED BY <3>1 DEF told
  <2> QED BY <2>1, <2>2, <2>3
<1> QED BY <1>1, AlertInvariant, PTL DEF Spec, CooldownRespected

-----------------------------------------------------------------------------
(***************************************************************************)
(* Edits.  The copy a round holds was true to them when it was loaded, and *)
(* an edit made since exposes its alert: so the copy still is, for the     *)
(* others, when Save writes it back.                                       *)
(***************************************************************************)
CopyKept == HoldsCopy => \A a \in acked \ exposed : a \in DOMAIN store <=> a \notin gone

EditsInv == UnexposedEditsKept /\ CopyKept

LEMMA EditsInit == Init => EditsInv
BY DEF Init, EditsInv, UnexposedEditsKept, CopyKept, HoldsCopy

\* An edit outside a round is in the file; one inside is counted as exposed.
LEMMA EditsEdit ==
    ASSUME AlertInv, EditsInv, NEW a \in Alert, Create(a) \/ Delete(a)
    PROVE  EditsInv'
<1>1. /\ UNCHANGED round /\ (HoldsCopy' <=> HoldsCopy)
      /\ IF HoldsCopy THEN exposed' = exposed \cup {a} ELSE exposed' = exposed
  BY DEF Create, Delete, Observe, round, HoldsCopy
<1>2. CopyKept'
  <2>1. CASE HoldsCopy
    <3>1. \A b : b # a => (b \in acked' <=> b \in acked) /\ (b \in gone' <=> b \in gone)
      BY DEF Create, Delete
    <3> QED BY <1>1, <2>1, <3>1 DEF EditsInv, CopyKept, round
  <2>2. CASE ~HoldsCopy
    BY <1>1, <2>2 DEF CopyKept
  <2> QED BY <2>1, <2>2
<1>3. CASE Create(a)
  <2>1. /\ a \notin acked /\ acked' = acked \cup {a} /\ gone' = gone
        /\ DOMAIN file' = DOMAIN file \cup {a}
    BY <1>3 DEF Create, Added
  <2>2. gone \subseteq acked
    BY DEF AlertInv, TypeOK
  <2>3. UnexposedEditsKept'
    BY <1>1, <2>1, <2>2 DEF EditsInv, UnexposedEditsKept
  <2> QED BY <1>2, <2>3 DEF EditsInv
<1>4. CASE Delete(a)
  <2>1. acked' = acked /\ gone' = gone \cup {a} /\ DOMAIN file' = DOMAIN file \ {a}
    BY <1>4 DEF Delete
  <2>2. UnexposedEditsKept'
    BY <1>1, <2>1 DEF EditsInv, UnexposedEditsKept
  <2> QED BY <1>2, <2>2 DEF EditsInv
<1> QED BY <1>3, <1>4

\* The poller loads the file, marks what fired in its copy, and writes it back.
LEMMA EditsPoll ==
    ASSUME AlertInv, EditsInv, Load \/ Evaluate \/ Save
    PROVE  EditsInv'
<1>1. UNCHANGED <<acked, gone, exposed>>
  BY DEF Load, Evaluate, Save, edits
<1>2. CASE Load
  <2>1. file' = file /\ store' = file
    BY <1>2 DEF Load
  <2> QED BY <1>1, <2>1 DEF EditsInv, UnexposedEditsKept, CopyKept
<1>3. CASE Evaluate
  <2>1. file' = file /\ HoldsCopy /\ (HoldsCopy' => DOMAIN store' = DOMAIN store)
    BY <1>3 DEF Evaluate, EndRound, HoldsCopy
  <2> QED BY <1>1, <2>1 DEF EditsInv, UnexposedEditsKept, CopyKept
<1>4. CASE Save
  <2>1. HoldsCopy /\ ~HoldsCopy' /\ file' = store
    BY <1>4 DEF Save, WriteCopy, HoldsCopy
  <2> QED BY <1>1, <2>1 DEF EditsInv, UnexposedEditsKept, CopyKept
<1> QED BY <1>2, <1>3, <1>4

\* Everything else leaves the file and the edits alone, and loads no copy.
LEMMA EditsStep == AlertInv /\ EditsInv /\ [Next]_vars => EditsInv'
<1> SUFFICES ASSUME AlertInv, EditsInv, [Next]_vars PROVE EditsInv'
  OBVIOUS
<1>1. CASE \E a \in Alert : Create(a) \/ Delete(a)
  BY <1>1, EditsEdit
<1>2. CASE Load \/ Evaluate \/ Save
  BY <1>2, EditsPoll
<1>3. CASE \/ BroadcastStarts \/ ClientsChange \/ BroadcastEnds \/ BroadcastRaises
           \/ Notify \/ SaveRaises \/ RoundRaises \/ Restart
  <2> USE DEF BroadcastStarts, ClientsChange, BroadcastEnds, BroadcastRaises, Notify,
              SaveRaises, RoundRaises, Restart
  <2>1. UNCHANGED <<file, acked, gone, exposed>>
    BY <1>3 DEF edits
  <2>2. ~HoldsCopy'
    BY <1>3 DEF EndRound, HoldsCopy, round
  <2> QED BY <2>1, <2>2 DEF EditsInv, UnexposedEditsKept, CopyKept
<1>4. CASE Tick \/ UNCHANGED vars
  <2>1. UNCHANGED <<file, poll, store, acked, gone, exposed>>
    BY <1>4 DEF Tick, vars, round, edits
  <2> QED BY <2>1 DEF EditsInv, UnexposedEditsKept, CopyKept, HoldsCopy
<1> QED BY <1>1, <1>2, <1>3, <1>4 DEF Next, PollStep

\* A creation or deletion that no round's load-to-save span overlaps stays in
\* effect, whatever rounds, crashes and other edits follow.
THEOREM AlertEditsKept == Spec => []UnexposedEditsKept
<1>1. EditsInv => UnexposedEditsKept
  BY DEF EditsInv
<1> QED BY <1>1, AlertInvariant, EditsInit, EditsStep, PTL DEF Spec
=============================================================================
