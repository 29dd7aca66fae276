--------------------------- MODULE PriceHubProofs ---------------------------
(***************************************************************************)
(* The registry of the live-price hub, for every set of sockets.           *)
(***************************************************************************)
EXTENDS PriceHub, DataLemmas

-----------------------------------------------------------------------------
(* The entries that a removal keeps.                                       *)

\* Without keeps exactly the elements outside S, and brings in no duplicate.
LEMMA WithoutProperties ==
    ASSUME NEW X, NEW seq \in Seq(X), NEW S
    PROVE  /\ Without(seq, S) \in Seq(X)
           /\ ToSet(Without(seq, S)) = ToSet(seq) \ S
           /\ (\A i, j \in 1 .. Len(seq) : seq[i] = seq[j] => i = j) =>
                 \A i, j \in 1 .. Len(Without(seq, S)) :
                    Without(seq, S)[i] = Without(seq, S)[j] => i = j
<1> DEFINE kept == {i \in DOMAIN seq : seq[i] \notin S}
           nth(k) == CHOOSE i \in kept : Cardinality({j \in kept : j <= i}) = k
           n == Cardinality(kept)
           w == [k \in 1 .. n |-> seq[nth(k)]]
<1>1. /\ kept \in SUBSET Nat /\ IsFiniteSet(kept) /\ n \in Nat
    <2>1. kept \subseteq 1 .. Len(seq) /\ Len(seq) \in Nat
        OBVIOUS
    <2>2. IsFiniteSet(1 .. Len(seq))
        BY <2>1, FS_Interval
    <2>3. IsFiniteSet(kept)
        BY <2>1, <2>2, FS_Subset
    <2>4. QED
        BY <2>1, <2>3, FS_CardinalityType
<1>2. ASSUME NEW k \in 1 .. n
      PROVE  nth(k) \in kept /\ Rank(kept, nth(k)) = k
    <2> HIDE DEF kept
    <2>1. \E i \in kept : Cardinality({j \in kept : j <= i}) = k
        BY <1>1, RankOnto DEF Rank
    <2>2. QED
        BY <2>1 DEF Rank
<1>3. ASSUME NEW i \in kept
      PROVE  \E k \in 1 .. n : nth(k) = i
    <2>1. Rank(kept, i) \in 1 .. n
        BY <1>1, RankProperties
    <2>2. nth(Rank(kept, i)) \in kept /\ Rank(kept, nth(Rank(kept, i))) = Rank(kept, i)
        BY <1>2, <2>1
    <2>3. nth(Rank(kept, i)) = i
        <3> HIDE DEF kept, nth
        <3>1. \A a, b \in kept : Rank(kept, a) = Rank(kept, b) => a = b
            BY <1>1, RankProperties
        <3>2. QED
            BY <2>2, <3>1
    <2>4. QED
        BY <2>1, <2>3
<1>4. Without(seq, S) = w
    BY DEF Without, Selected
<1>5. \A i \in kept : i \in DOMAIN seq /\ seq[i] \in X /\ seq[i] \notin S
    OBVIOUS
<1>6. \A i \in DOMAIN seq : seq[i] \notin S => i \in kept
    OBVIOUS
<1> HIDE DEF kept, nth, n
<1>7. w \in Seq(X) /\ Len(w) = n /\ DOMAIN w = 1 .. n
    <2>1. \A k \in 1 .. n : seq[nth(k)] \in X
        BY <1>2, <1>5
    <2>2. w \in [1 .. n -> X]
        BY <2>1
    <2>3. QED
        BY <2>2, <1>1
<1>8. ToSet(w) = ToSet(seq) \ S
    <2>1. ASSUME NEW x \in ToSet(w)
          PROVE  x \in ToSet(seq) \ S
        <3>1. PICK k \in 1 .. n : x = seq[nth(k)]
            BY <2>1, <1>7 DEF ToSet
        <3>2. QED
            BY <3>1, <1>2, <1>5 DEF ToSet
    <2>2. ASSUME NEW x \in ToSet(seq) \ S
          PROVE  x \in ToSet(w)
        <3>1. PICK i \in DOMAIN seq : x = seq[i]
            BY <2>2 DEF ToSet
        <3>2. PICK k \in 1 .. n : nth(k) = i
            BY <3>1, <2>2, <1>3, <1>6
        <3>3. k \in DOMAIN w /\ w[k] = x
            BY <3>1, <3>2
        <3>4. QED
            BY <3>3 DEF ToSet
    <2>3. QED
        BY <2>1, <2>2
<1>9. ASSUME \A i, j \in 1 .. Len(seq) : seq[i] = seq[j] => i = j,
             NEW k \in 1 .. n, NEW l \in 1 .. n, w[k] = w[l]
      PROVE  k = l
    <2>1. nth(k) \in 1 .. Len(seq) /\ nth(l) \in 1 .. Len(seq)
        BY <1>2, <1>5
    <2>2. nth(k) = nth(l)
        BY <1>9, <2>1
    <2>3. QED
        BY <2>2, <1>2
<1>10. QED
    BY <1>4, <1>7, <1>8, <1>9

-----------------------------------------------------------------------------
(* The inductive invariant.                                                *)

\* The fields of an iterator over the dict.
Iterator == [filter : SUBSET Ticker, size : Nat, left : Nat, visited : SUBSET Socket,
             sending : Socket \cup {NoSocket}, dead : SUBSET Socket]

\* The registry's entries that an iterator has not passed.
Unvisited(i) == {k \in DOMAIN registry : registry[k] \notin i.visited}

\* What the iterator counts is what the dict holds.
InStep(i) == i.size = Len(registry) /\ i.left = Cardinality(Unvisited(i))

\* A task drops only sockets that are down, and no peer comes back from that.
DropsTheDown == \A s \in it.dead \cup pingDead : peer[s] = "down"

\* Until another task changes the registry, the iterator is in step with it.
UndisturbedInStep == Broadcasting /\ ~churned => InStep(it)

\* Outside a broadcast nothing is observed: each starts undisturbed.
ChurnIsOfBroadcast == churned => Broadcasting \/ poll = "dead"

\* RegistryExact needs DropsTheDown, DiesOfChurnOnly needs the other two.
HubInv ==
    /\ TypeOK
    /\ RegistryExact
    /\ DropsTheDown
    /\ UndisturbedInStep
    /\ ChurnIsOfBroadcast
    /\ DiesOfChurnOnly

\* Initially nobody is connected.
LEMMA HubInit == Init => HubInv
<1> SUFFICES ASSUME Init PROVE HubInv
    OBVIOUS
<1>1. registry = <<>> /\ registry \in Seq(Socket) /\ ToSet(registry) = {} /\ Len(registry) = 0
    BY DEF Init, ToSet
<1>2. it \in Iterator /\ it.sending = NoSocket /\ it.dead = {}
    BY DEF Init, Idle, Iterator
<1>3. TypeOK
    BY <1>1, <1>2 DEF Init, TypeOK, Iterator, Broadcasting
<1>4. RegistryExact
    BY <1>1 DEF Init, RegistryExact, Registered, Running
<1>5. QED
    BY <1>2, <1>3, <1>4 DEF Init, HubInv, DropsTheDown, UndisturbedInStep,
        ChurnIsOfBroadcast, DiesOfChurnOnly, Broadcasting

\* Popping a set of sockets: they leave the registry, nothing else does.
LEMMA PopStep ==
    ASSUME TypeOK, RegistryExact, NEW S \in SUBSET Socket, Pop(S)
    PROVE  /\ registry' \in Seq(Socket)
           /\ subs' \in [Socket -> SUBSET Ticker]
           /\ \A s \in Socket : Registered(s)' <=> (Registered(s) /\ s \notin S)
           /\ \A i, j \in 1 .. Len(registry') : registry'[i] = registry'[j] => i = j
<1>1. registry \in Seq(Socket) /\ subs \in [Socket -> SUBSET Ticker]
    BY DEF TypeOK
<1>2. registry' = Without(registry, S)
    BY DEF Pop
<1>3. /\ registry' \in Seq(Socket)
      /\ ToSet(registry') = ToSet(registry) \ S
      /\ \A i, j \in 1 .. Len(registry') : registry'[i] = registry'[j] => i = j
    BY <1>1, <1>2, WithoutProperties DEF RegistryExact
<1>4. subs' \in [Socket -> SUBSET Ticker]
    BY <1>1 DEF Pop
<1>5. QED
    BY <1>3, <1>4 DEF Registered

\* The broadcast loop from one await to the next, whichever iterator it resumes.
LEMMA IterateStep ==
    ASSUME HubInv,
           NEW i \in Iterator, NEW kind \in {"prices", "alerts"}, NEW T \in SUBSET Ticker,
           \A s \in i.dead : peer[s] = "down",
           ~churned => InStep(i),
           Iterate(i, kind, T), UNCHANGED <<conn, peer, heartbeat>>
    PROVE  HubInv'
<1> DEFINE unvisited == {k \in DOMAIN registry : registry[k] \notin i.visited}
           n == NextAddressee(unvisited, i.filter)
           passed == IF n = 0 THEN unvisited ELSE {k \in unvisited : k <= n}
           steps == Cardinality(passed)
<1>1. /\ registry \in Seq(Socket) /\ Len(registry) \in Nat /\ DOMAIN registry = 1 .. Len(registry)
      /\ i.filter \in SUBSET Ticker /\ i.size \in Nat /\ i.left \in Nat
      /\ i.visited \in SUBSET Socket /\ i.dead \in SUBSET Socket
    BY DEF HubInv, TypeOK, Iterator
<1>2. unvisited \in SUBSET Nat /\ IsFiniteSet(unvisited) /\ Cardinality(unvisited) \in Nat
    <2>1. unvisited \subseteq 1 .. Len(registry)
        BY <1>1
    <2>2. IsFiniteSet(1 .. Len(registry))
        BY <1>1, FS_Interval
    <2>3. QED
        BY <1>1, <2>1, <2>2, FS_Subset, FS_CardinalityType
<1>3. passed \in SUBSET unvisited
    OBVIOUS
<1>4. n # 0 => n \in unvisited
    BY <1>2, MinLeast DEF NextAddressee
<1>5. \/ /\ IteratorRaises(i, steps)
         /\ poll' = "dead" /\ tickers' = {} /\ it' = Idle
         /\ UNCHANGED <<registry, subs, churned>>
      \/ /\ ~IteratorRaises(i, steps) /\ n # 0
         /\ poll' = kind /\ tickers' = T
         /\ it' = [i EXCEPT !.left = @ - steps,
                            !.visited = @ \cup {registry[k] : k \in passed},
                            !.sending = registry[n]]
         /\ UNCHANGED <<registry, subs, churned>>
      \/ /\ poll' = (IF kind = "alerts" THEN "notify" ELSE "evaluate")
         /\ tickers' = T /\ it' = Idle
         /\ Pop(i.dead)
         /\ churned' = FALSE
    BY DEF Iterate
<1> HIDE DEF n
<1>6. steps \in Nat /\ steps <= Cardinality(unvisited) /\ IsFiniteSet(passed)
    <2> HIDE DEF unvisited, passed
    <2>1. QED
        BY <1>2, <1>3, FS_Subset, FS_CardinalityType
<1> HIDE DEF unvisited, passed, steps
<1>7. /\ conn' = conn /\ peer' = peer /\ ping' = ping /\ pingDead' = pingDead
      /\ conn \in [Socket -> {"new", "receiving", "acking", "closed"}]
      /\ peer \in [Socket -> {"up", "stalled", "down"}]
      /\ subs \in [Socket -> SUBSET Ticker]
      /\ ping \in Seq(Socket) /\ pingDead \in SUBSET Socket /\ churned \in BOOLEAN
    BY DEF HubInv, TypeOK, heartbeat
<1>8. Idle \in Iterator /\ Idle.sending = NoSocket /\ Idle.dead = {}
    BY DEF Idle, Iterator
<1>9. CASE /\ IteratorRaises(i, steps)
           /\ poll' = "dead" /\ tickers' = {} /\ it' = Idle
           /\ UNCHANGED <<registry, subs, churned>>
    <2>1. churned
        <3>1. SUFFICES ASSUME ~churned PROVE FALSE
            OBVIOUS
        <3>2. i.size = Len(registry) /\ i.left = Cardinality(unvisited)
            BY <3>1 DEF InStep, Unvisited, unvisited
        <3>3. QED
            BY <3>2, <1>6, <1>9, <1>1, <1>2 DEF IteratorRaises
    <2>2. TypeOK'
        BY <1>1, <1>7, <1>8, <1>9 DEF TypeOK, Iterator, Broadcasting
    <2>3. RegistryExact'
        BY <1>7, <1>9 DEF HubInv, RegistryExact, Registered, Running
    <2>4. QED
        BY <2>1, <2>2, <2>3, <1>7, <1>8, <1>9
        DEF HubInv, DropsTheDown, UndisturbedInStep, ChurnIsOfBroadcast, DiesOfChurnOnly, Broadcasting
<1>10. CASE /\ ~IteratorRaises(i, steps) /\ n # 0
            /\ poll' = kind /\ tickers' = T
            /\ it' = [i EXCEPT !.left = @ - steps,
                               !.visited = @ \cup {registry[k] : k \in passed},
                               !.sending = registry[n]]
            /\ UNCHANGED <<registry, subs, churned>>
    <2>1. registry[n] \in Socket /\ registry[n] # NoSocket
        BY <1>1, <1>4, <1>10, HubAssumption DEF unvisited
    <2>2. {registry[k] : k \in passed} \in SUBSET Socket
        BY <1>1, <1>3 DEF unvisited
    <2>3. i.left - steps \in Nat
        BY <1>10, <1>6, <1>1 DEF IteratorRaises
    <2>4. /\ it' \in Iterator
          /\ it'.sending = registry[n] /\ it'.dead = i.dead /\ it'.size = i.size
          /\ it'.left = i.left - steps
          /\ it'.visited = i.visited \cup {registry[k] : k \in passed}
        BY <1>10, <1>1, <2>1, <2>2, <2>3 DEF Iterator
    <2>5. TypeOK'
        <3>1. (it'.sending # NoSocket) <=> Broadcasting'
            BY <1>10, <2>1, <2>4 DEF Broadcasting
        <3>2. poll' \in {"prices", "alerts"} /\ tickers' \in SUBSET Ticker
            BY <1>10
        <3>3. QED
            BY <1>1, <1>7, <1>10, <2>4, <3>1, <3>2 DEF TypeOK, Iterator
    <2>6. RegistryExact'
        BY <1>7, <1>10 DEF HubInv, RegistryExact, Registered, Running
    <2>7. ~churned => InStep(it)'
        <3>1. SUFFICES ASSUME ~churned PROVE InStep(it)'
            OBVIOUS
        <3>2. i.size = Len(registry) /\ i.left = Cardinality(unvisited)
            BY <3>1 DEF InStep, Unvisited, unvisited
        <3>3. Unvisited(it)' = unvisited \ passed
            <4>1. \A k, j \in DOMAIN registry : registry[k] = registry[j] => k = j
                BY <1>1 DEF HubInv, RegistryExact
            <4>2. \A k \in passed : k \in DOMAIN registry
                BY <1>3 DEF unvisited
            <4>3. Unvisited(it)' = {k \in DOMAIN registry :
                                       registry[k] \notin i.visited \cup {registry[j] : j \in passed}}
                BY <1>10, <2>4 DEF Unvisited
            <4>4. QED
                BY <4>1, <4>2, <4>3 DEF unvisited
        <3>4. Cardinality(unvisited \ passed) = Cardinality(unvisited) - steps
            <4>1. unvisited \cap passed = passed
                BY <1>3
            <4>2. QED
                BY <1>2, <4>1, FS_Difference DEF steps
        <3>5. QED
            BY <1>10, <2>4, <3>2, <3>3, <3>4 DEF InStep
    <2>8. DropsTheDown'
        BY <1>7, <2>4 DEF HubInv, DropsTheDown
    <2>9. Broadcasting' /\ churned' = churned
        BY <1>10 DEF Broadcasting
    <2>10. QED
        BY <2>5, <2>6, <2>7, <2>8, <2>9, <1>10
        DEF HubInv, UndisturbedInStep, ChurnIsOfBroadcast, DiesOfChurnOnly
<1>11. CASE /\ poll' = (IF kind = "alerts" THEN "notify" ELSE "evaluate")
            /\ tickers' = T /\ it' = Idle
            /\ Pop(i.dead)
            /\ churned' = FALSE
    <2>1. /\ registry' \in Seq(Socket)
          /\ subs' \in [Socket -> SUBSET Ticker]
          /\ \A s \in Socket : Registered(s)' <=> (Registered(s) /\ s \notin i.dead)
          /\ \A k, j \in 1 .. Len(registry') : registry'[k] = registry'[j] => k = j
        BY <1>1, <1>11, PopStep DEF HubInv
    <2>2. poll' \in {"notify", "evaluate"} /\ churned' = FALSE /\ it' = Idle /\ tickers' \in SUBSET Ticker
        BY <1>11
    <2>3. TypeOK'
        BY <1>7, <1>8, <2>1, <2>2 DEF TypeOK, Iterator, Broadcasting
    <2>4. RegistryExact'
        BY <2>1, <1>7 DEF HubInv, RegistryExact, Running
    <2>5. QED
        BY <2>2, <2>3, <2>4, <1>7, <1>8
        DEF HubInv, DropsTheDown, UndisturbedInStep, ChurnIsOfBroadcast, DiesOfChurnOnly, Broadcasting
<1>12. QED
    BY <1>5, <1>9, <1>10, <1>11

\* A step of another task: the iterator stays in step, or the churn is observed.
LEMMA ObservedStep ==
    ASSUME HubInv, ObserveChurn, UNCHANGED poller
    PROVE  /\ UndisturbedInStep' /\ ChurnIsOfBroadcast' /\ DiesOfChurnOnly'
           /\ churned' \in BOOLEAN
<1>1. poll' = poll /\ it' = it
    BY DEF poller
<1>2. churned' <=> (churned \/ (Broadcasting /\ registry' # registry))
    BY DEF ObserveChurn
<1>3. churned' \in BOOLEAN
    BY DEF ObserveChurn
<1>4. ASSUME Broadcasting', ~churned'
      PROVE  InStep(it)'
    <2>1. Broadcasting /\ ~churned /\ registry' = registry
        BY <1>1, <1>2, <1>4 DEF Broadcasting
    <2>2. InStep(it)
        BY <2>1 DEF HubInv, UndisturbedInStep
    <2>3. QED
        BY <2>1, <2>2, <1>1 DEF InStep, Unvisited
<1>5. QED
    BY <1>1, <1>2, <1>3, <1>4
    DEF HubInv, UndisturbedInStep, ChurnIsOfBroadcast, DiesOfChurnOnly, Broadcasting

\* The end of a handler takes its socket along.
LEMMA EndHandlerStep ==
    ASSUME HubInv, NEW s \in Socket, EndHandler(s), ObserveChurn, UNCHANGED <<poller, heartbeat>>
    PROVE  HubInv'
<1>1. /\ conn' = [conn EXCEPT ![s] = "closed"] /\ peer' = [peer EXCEPT ![s] = "down"]
      /\ Pop({s})
    BY DEF EndHandler
<1>2. TypeOK /\ RegistryExact /\ DropsTheDown
    BY DEF HubInv
<1>3. /\ registry' \in Seq(Socket)
      /\ subs' \in [Socket -> SUBSET Ticker]
      /\ \A t \in Socket : Registered(t)' <=> (Registered(t) /\ t \notin {s})
      /\ \A i, j \in 1 .. Len(registry') : registry'[i] = registry'[j] => i = j
    BY <1>1, <1>2, PopStep
<1>4. /\ poll' = poll /\ tickers' = tickers /\ it' = it /\ ping' = ping /\ pingDead' = pingDead
    BY DEF poller, heartbeat
<1>5. /\ UndisturbedInStep' /\ ChurnIsOfBroadcast' /\ DiesOfChurnOnly' /\ churned' \in BOOLEAN
    BY ObservedStep
<1>6. TypeOK'
    BY <1>1, <1>2, <1>3, <1>4, <1>5 DEF TypeOK, Broadcasting
<1>7. RegistryExact'
    BY <1>1, <1>2, <1>3 DEF RegistryExact, Running, TypeOK
<1>8. DropsTheDown'
    BY <1>1, <1>2, <1>4 DEF DropsTheDown, TypeOK
<1>9. QED
    BY <1>5, <1>6, <1>7, <1>8 DEF HubInv

\* Handlers and network: the registry as it was, no peer back from down.
LEMMA SocketsStep ==
    ASSUME HubInv, NEW s \in Socket, Running(s),
           conn' = [conn EXCEPT ![s] = conn'[s]], conn'[s] \in {"receiving", "acking"},
           peer' = [peer EXCEPT ![s] = peer'[s]], peer'[s] \in {"up", "stalled", "down"},
           peer[s] = "down" => peer'[s] = "down",
           subs' \in [Socket -> SUBSET Ticker],
           registry' = registry, ObserveChurn, UNCHANGED <<poller, heartbeat>>
    PROVE  HubInv'
<1>1. TypeOK /\ RegistryExact /\ DropsTheDown
    BY DEF HubInv
<1>2. /\ poll' = poll /\ tickers' = tickers /\ it' = it /\ ping' = ping /\ pingDead' = pingDead
    BY DEF poller, heartbeat
<1>3. /\ UndisturbedInStep' /\ ChurnIsOfBroadcast' /\ DiesOfChurnOnly' /\ churned' \in BOOLEAN
    BY ObservedStep
<1>4. /\ conn' \in [Socket -> {"new", "receiving", "acking", "closed"}]
      /\ peer' \in [Socket -> {"up", "stalled", "down"}]
    BY <1>1 DEF TypeOK
<1>5. \A t \in Socket : /\ Running(t)' <=> Running(t)
                        /\ peer[t] = "down" => peer'[t] = "down"
    BY <1>1 DEF TypeOK, Running
<1>6. TypeOK'
    BY <1>1, <1>2, <1>3, <1>4 DEF TypeOK, Broadcasting
<1>7. RegistryExact'
    BY <1>1, <1>5 DEF RegistryExact, Registered
<1>8. DropsTheDown'
    BY <1>1, <1>2, <1>5 DEF DropsTheDown, TypeOK
<1>9. QED
    BY <1>3, <1>6, <1>7, <1>8 DEF HubInv

\* A new socket is not in the registry yet, so that it enters once.
LEMMA ConnectStep ==
    ASSUME HubInv, NEW s \in Socket, Connect(s)
    PROVE  HubInv'
<1>1. TypeOK /\ RegistryExact /\ DropsTheDown
    BY DEF HubInv
<1>2. /\ conn[s] = "new" /\ conn' = [conn EXCEPT ![s] = "receiving"]
      /\ registry' = Append(registry, s) /\ peer' = peer /\ subs' = subs
      /\ poll' = poll /\ tickers' = tickers /\ it' = it /\ ping' = ping /\ pingDead' = pingDead
    BY DEF Connect, poller, heartbeat
<1>3. /\ UndisturbedInStep' /\ ChurnIsOfBroadcast' /\ DiesOfChurnOnly' /\ churned' \in BOOLEAN
    BY ObservedStep DEF Connect
<1>4. ~Registered(s)
    BY <1>1, <1>2 DEF RegistryExact, Running
<1>5. /\ registry \in Seq(Socket) /\ registry' \in Seq(Socket)
      /\ Len(registry) \in Nat /\ Len(registry') = Len(registry) + 1
      /\ \A i \in 1 .. Len(registry) : registry'[i] = registry[i] /\ registry[i] # s
      /\ registry'[Len(registry) + 1] = s
      /\ DOMAIN registry = 1 .. Len(registry) /\ DOMAIN registry' = 1 .. Len(registry) + 1
    BY <1>1, <1>2, <1>4 DEF TypeOK, Registered, ToSet
<1>6. \A t \in Socket : Registered(t)' <=> (Registered(t) \/ t = s)
    BY <1>5 DEF Registered, ToSet
<1>7. \A i, j \in 1 .. Len(registry') : registry'[i] = registry'[j] => i = j
    <2> SUFFICES ASSUME NEW i \in 1 .. Len(registry) + 1, NEW j \in 1 .. Len(registry) + 1,
                        registry'[i] = registry'[j]
                 PROVE  i = j
        BY <1>5
    <2>1. CASE i \in 1 .. Len(registry) /\ j \in 1 .. Len(registry)
        BY <2>1, <1>1, <1>5 DEF RegistryExact
    <2>2. CASE i \in 1 .. Len(registry) /\ j = Len(registry) + 1
        BY <2>2, <1>5
    <2>3. CASE i = Len(registry) + 1 /\ j \in 1 .. Len(registry)
        BY <2>3, <1>5
    <2>4. QED
        BY <2>1, <2>2, <2>3, <1>5
<1>8. TypeOK'
    BY <1>1, <1>2, <1>3, <1>5 DEF TypeOK, Broadcasting
<1>9. RegistryExact'
    BY <1>1, <1>2, <1>6, <1>7 DEF RegistryExact, Running, TypeOK
<1>10. DropsTheDown'
    BY <1>1, <1>2 DEF DropsTheDown
<1>11. QED
    BY <1>3, <1>8, <1>9, <1>10 DEF HubInv

\* Whatever a client sends, and whatever becomes of its acknowledgement.
LEMMA HandlerStep ==
    ASSUME HubInv, NEW s \in Socket, Receive(s) \/ AckDone(s) \/ Disconnect(s)
    PROVE  HubInv'
<1>1. /\ conn \in [Socket -> {"new", "receiving", "acking", "closed"}]
      /\ peer \in [Socket -> {"up", "stalled", "down"}]
      /\ subs \in [Socket -> SUBSET Ticker]
    BY DEF HubInv, TypeOK
<1>2. CASE Receive(s)
    <2>1. conn[s] = "receiving" /\ ObserveChurn /\ UNCHANGED <<poller, heartbeat>>
        BY <1>2 DEF Receive
    <2>2. CASE /\ \E t \in Interest[s] :
                     subs' \in {[subs EXCEPT ![s] = @ \cup {t}], [subs EXCEPT ![s] = @ \ {t}]}
               /\ conn' = [conn EXCEPT ![s] = "acking"]
               /\ UNCHANGED <<peer, registry>>
        <3>1. subs' \in [Socket -> SUBSET Ticker]
            BY <2>2, <1>1, HubAssumption
        <3>2. Running(s)
            BY <2>1 DEF Running
        <3>3. conn' = [conn EXCEPT ![s] = conn'[s]] /\ conn'[s] = "acking"
            BY <2>2, <1>1
        <3>4. peer' = [peer EXCEPT ![s] = peer'[s]] /\ peer'[s] = peer[s]
            BY <2>2, <1>1
        <3>5. QED
            BY <2>1, <2>2, <3>1, <3>2, <3>3, <3>4, <1>1, SocketsStep
    <2>3. CASE EndHandler(s)
        BY <2>1, <2>3, EndHandlerStep
    <2>4. QED
        BY <1>2, <2>2, <2>3 DEF Receive
<1>3. CASE AckDone(s)
    <2>1. conn[s] = "acking" /\ ObserveChurn /\ UNCHANGED <<poller, heartbeat>>
        BY <1>3 DEF AckDone
    <2>2. CASE /\ conn' = [conn EXCEPT ![s] = "receiving"]
               /\ UNCHANGED <<peer, registry, subs>>
        <3>1. Running(s)
            BY <2>1 DEF Running
        <3>2. conn' = [conn EXCEPT ![s] = conn'[s]] /\ conn'[s] = "receiving"
            BY <2>2, <1>1
        <3>3. peer' = [peer EXCEPT ![s] = peer'[s]] /\ peer'[s] = peer[s]
            BY <2>2, <1>1
        <3>4. QED
            BY <2>1, <2>2, <3>1, <3>2, <3>3, <1>1, SocketsStep
    <2>3. CASE EndHandler(s)
        BY <2>1, <2>3, EndHandlerStep
    <2>4. QED
        BY <1>3, <2>2, <2>3 DEF AckDone
<1>4. CASE Disconnect(s)
    BY <1>4, EndHandlerStep DEF Disconnect
<1>5. QED
    BY <1>2, <1>3, <1>4

\* A peer stalls, resumes or breaks.
LEMMA NetworkStep ==
    ASSUME HubInv, NEW s \in Socket, PeerStalls(s) \/ PeerResumes(s) \/ PeerBreaks(s)
    PROVE  HubInv'
<1>1. /\ conn \in [Socket -> {"new", "receiving", "acking", "closed"}]
      /\ peer \in [Socket -> {"up", "stalled", "down"}]
      /\ subs \in [Socket -> SUBSET Ticker]
      /\ churned \in BOOLEAN
    BY DEF HubInv, TypeOK
<1>2. /\ Running(s) /\ peer[s] # "down"
      /\ \/ peer' = [peer EXCEPT ![s] = "stalled"]
         \/ peer' = [peer EXCEPT ![s] = "up"]
         \/ peer' = [peer EXCEPT ![s] = "down"]
      /\ UNCHANGED <<conn, registry, subs, poller, heartbeat, churned>>
    BY DEF PeerStalls, PeerResumes, PeerBreaks
<1>3. ObserveChurn
    BY <1>1, <1>2 DEF ObserveChurn
<1>4. peer' = [peer EXCEPT ![s] = peer'[s]] /\ peer'[s] \in {"up", "stalled", "down"}
    BY <1>1, <1>2
<1>5. conn' = [conn EXCEPT ![s] = conn'[s]] /\ conn'[s] \in {"receiving", "acking"}
    BY <1>1, <1>2 DEF Running
<1>6. QED
    BY <1>1, <1>2, <1>3, <1>4, <1>5, SocketsStep

\* The poller moves on outside a broadcast.
LEMMA QuietStep ==
    ASSUME HubInv, ~Broadcasting, poll # "dead",
           poll' \in {"sleep", "list", "fetch", "latest", "raised"}, tickers' \in SUBSET Ticker,
           UNCHANGED <<sockets, it, heartbeat, churned>>
    PROVE  HubInv'
<1>1. TypeOK /\ RegistryExact /\ DropsTheDown /\ ~churned
    BY DEF HubInv, ChurnIsOfBroadcast
<1>2. /\ conn' = conn /\ peer' = peer /\ registry' = registry /\ subs' = subs /\ it' = it
      /\ ping' = ping /\ pingDead' = pingDead /\ churned' = churned
    BY DEF sockets, heartbeat
<1>3. ~Broadcasting'
    BY DEF Broadcasting
<1>4. TypeOK'
    BY <1>1, <1>2, <1>3 DEF TypeOK
<1>5. RegistryExact' /\ DropsTheDown'
    BY <1>1, <1>2 DEF RegistryExact, Registered, Running, DropsTheDown
<1>6. QED
    BY <1>1, <1>2, <1>3, <1>4, <1>5
    DEF HubInv, UndisturbedInStep, ChurnIsOfBroadcast, DiesOfChurnOnly

\* A broadcast starts with an iterator in step with the dict.
LEMMA StartBroadcastStep ==
    ASSUME HubInv, NEW F \in SUBSET Ticker, NEW kind \in {"prices", "alerts"},
           NEW T \in SUBSET Ticker, StartBroadcast(F, kind, T),
           UNCHANGED <<conn, peer, heartbeat>>
    PROVE  HubInv'
<1> DEFINE size == Len(registry)
           i == [Idle EXCEPT !.filter = F, !.size = size, !.left = size]
<1>1. registry \in Seq(Socket) /\ size \in Nat /\ DOMAIN registry = 1 .. size
    BY DEF HubInv, TypeOK
<1>2. /\ i \in Iterator /\ i.dead = {} /\ i.visited = {} /\ i.size = size /\ i.left = size
    BY <1>1 DEF Idle, Iterator
<1>3. Iterate(i, kind, T)
    BY DEF StartBroadcast
<1> HIDE DEF i
<1>4. Unvisited(i) = 1 .. size
    BY <1>1, <1>2 DEF Unvisited
<1>5. InStep(i)
    <2>1. Cardinality(1 .. size) = size
        <3> HIDE DEF size
        <3>1. Cardinality(1 .. size) = IF 1 > size THEN 0 ELSE size - 1 + 1
            BY <1>1, FS_Interval
        <3>2. QED
            BY <1>1, <3>1
    <2>2. QED
        BY <1>2, <1>4, <2>1 DEF InStep
<1>6. QED
    BY <1>2, <1>3, <1>5, IterateStep

\* The steps of the poller between broadcasts, and those that start one.
LEMMA PollerStep ==
    ASSUME HubInv, PollStep \/ PollRaises
    PROVE  HubInv'
<1>1. tickers \in SUBSET Ticker /\ subs \in [Socket -> SUBSET Ticker] /\ registry \in Seq(Socket)
    BY DEF HubInv, TypeOK
<1>2. \A T \in SUBSET tickers \ {{}} : T \in SUBSET Ticker
    BY <1>1
<1>3. CASE PollWakes
    <2>1. Subscribed \in SUBSET Ticker
        BY <1>1 DEF Subscribed, ToSet
    <2>2. ~Broadcasting /\ poll # "dead" /\ poll' \in {"fetch", "list"}
        BY <1>3 DEF PollWakes, Broadcasting
    <2>3. QED
        BY <1>3, <2>1, <2>2, QuietStep DEF PollWakes
<1>4. CASE PollLists
    <2>1. ~Broadcasting /\ poll # "dead" /\ poll' \in {"sleep", "fetch"}
        BY <1>4 DEF PollLists, Broadcasting
    <2>2. QED
        BY <1>4, <2>1, QuietStep DEF PollLists
<1>5. ASSUME EndRound, UNCHANGED <<conn, peer, heartbeat>>, ~Broadcasting, poll # "dead"
      PROVE  HubInv'
    <2>1. UNCHANGED <<sockets, it, heartbeat, churned>> /\ poll' = "sleep" /\ tickers' = {}
        BY <1>5 DEF EndRound, sockets
    <2>2. QED
        BY <1>5, <2>1, QuietStep
<1>6. CASE PollFetches
    <2>1. CASE /\ poll = "fetch" /\ poll' = "latest"
               /\ UNCHANGED <<registry, subs, tickers, it, churned>> /\ UNCHANGED <<conn, peer, heartbeat>>
        <3>1. UNCHANGED <<sockets, it, heartbeat, churned>> /\ ~Broadcasting
            BY <2>1 DEF sockets, Broadcasting
        <3>2. QED
            BY <2>1, <3>1, <1>1, QuietStep
    <2>2. CASE \E T \in SUBSET tickers \ {{}} : StartBroadcast(T, "prices", T)
        <3>1. PICK T \in SUBSET tickers \ {{}} : StartBroadcast(T, "prices", T)
            BY <2>2
        <3>2. QED
            BY <3>1, <1>2, <1>6, StartBroadcastStep DEF PollFetches
    <2>3. QED
        BY <1>6, <2>1, <2>2 DEF PollFetches
<1>7. CASE PollReadsLatest
    <2>1. UNCHANGED <<conn, peer, heartbeat>> /\ ~Broadcasting /\ poll # "dead"
        BY <1>7 DEF PollReadsLatest, Broadcasting
    <2>2. CASE \E T \in SUBSET tickers \ {{}} : StartBroadcast(T, "prices", T)
        <3>1. PICK T \in SUBSET tickers \ {{}} : StartBroadcast(T, "prices", T)
            BY <2>2
        <3>2. QED
            BY <3>1, <1>2, <2>1, StartBroadcastStep
    <2>3. QED
        BY <1>5, <1>7, <2>1, <2>2 DEF PollReadsLatest
<1>8. CASE PollEvaluates
    <2>1. UNCHANGED <<conn, peer, heartbeat>> /\ ~Broadcasting /\ poll # "dead"
        BY <1>8 DEF PollEvaluates, Broadcasting
    <2>2. CASE \E F \in SUBSET tickers \ {{}} : StartBroadcast(F, "alerts", {})
        <3>1. PICK F \in SUBSET tickers \ {{}} : StartBroadcast(F, "alerts", {})
            BY <2>2
        <3>2. QED
            BY <3>1, <1>2, <2>1, StartBroadcastStep
    <2>3. QED
        BY <1>5, <1>8, <2>1, <2>2 DEF PollEvaluates
<1>9. CASE PollNotifies
    <2>1. EndRound /\ UNCHANGED <<conn, peer, heartbeat>> /\ ~Broadcasting /\ poll # "dead"
        BY <1>9 DEF PollNotifies, Broadcasting
    <2>2. QED
        BY <2>1, <1>5
<1>10. CASE PollRaises
    <2>1. ~Broadcasting /\ poll # "dead" /\ poll' = "raised" /\ tickers' = {}
        BY <1>10 DEF PollRaises, Broadcasting
    <2>2. QED
        BY <1>10, <2>1, QuietStep DEF PollRaises
<1>11. QED
    BY <1>3, <1>4, <1>6, <1>7, <1>8, <1>9, <1>10 DEF PollStep

\* A broadcast resumes after its send.
LEMMA PollSendsStep ==
    ASSUME HubInv, PollSends
    PROVE  HubInv'
<1> DEFINE i == [it EXCEPT !.sending = NoSocket, !.dead = @ \cup Failed(it.sending)]
<1>1. it \in Iterator /\ it.sending # NoSocket /\ Broadcasting /\ tickers \in SUBSET Ticker
    BY DEF HubInv, TypeOK, Iterator, PollSends
<1>2. it.sending \in Socket /\ Failed(it.sending) \in SUBSET Socket
    BY <1>1 DEF Iterator, Failed
<1>3. /\ i \in Iterator /\ i.dead = it.dead \cup Failed(it.sending)
      /\ i.size = it.size /\ i.left = it.left /\ i.visited = it.visited
    BY <1>1, <1>2 DEF Iterator
<1>4. Iterate(i, poll, tickers) /\ UNCHANGED <<conn, peer, heartbeat>>
    BY DEF PollSends
<1> HIDE DEF i
<1>5. \A s \in i.dead : peer[s] = "down"
    BY <1>3 DEF HubInv, DropsTheDown, Failed
<1>6. ~churned => InStep(i)
    BY <1>1, <1>3 DEF HubInv, UndisturbedInStep, InStep, Unvisited
<1>7. poll \in {"prices", "alerts"}
    BY <1>1 DEF Broadcasting
<1>8. QED
    BY <1>1, <1>3, <1>4, <1>5, <1>6, <1>7, IterateStep

\* The heartbeat copies the keys, and drops those whose ping failed.
LEMMA HeartbeatStep ==
    ASSUME HubInv, HeartbeatWakes \/ HeartbeatPings
    PROVE  HubInv'
<1>1. TypeOK /\ RegistryExact /\ DropsTheDown
    BY DEF HubInv
<1>2. CASE HeartbeatWakes
    <2>1. /\ ping' = registry /\ pingDead' = {}
          /\ UNCHANGED <<sockets, poller, churned>>
        BY <1>2 DEF HeartbeatWakes
    <2>2. /\ conn' = conn /\ peer' = peer /\ registry' = registry /\ subs' = subs
          /\ poll' = poll /\ tickers' = tickers /\ it' = it
        BY <2>1 DEF sockets, poller
    <2>3. ObserveChurn
        BY <1>1, <2>1, <2>2 DEF ObserveChurn, TypeOK
    <2>4. /\ UndisturbedInStep' /\ ChurnIsOfBroadcast' /\ DiesOfChurnOnly' /\ churned' \in BOOLEAN
        BY <2>1, <2>3, ObservedStep
    <2>5. TypeOK'
        BY <1>1, <2>1, <2>2, <2>4 DEF TypeOK, Broadcasting
    <2>6. RegistryExact' /\ DropsTheDown'
        BY <1>1, <2>1, <2>2 DEF RegistryExact, Registered, Running, DropsTheDown
    <2>7. QED
        BY <2>4, <2>5, <2>6 DEF HubInv
<1>3. CASE HeartbeatPings
    <2>1. /\ ping # <<>> /\ ping' = Tail(ping) /\ ObserveChurn
          /\ conn' = conn /\ peer' = peer
          /\ poll' = poll /\ tickers' = tickers /\ it' = it
        BY <1>3 DEF HeartbeatPings, poller
    <2>2. Head(ping) \in Socket /\ ping' \in Seq(Socket)
        BY <1>1, <2>1 DEF TypeOK
    <2>3. /\ Failed(Head(ping)) \in SUBSET Socket
          /\ \A s \in Failed(Head(ping)) : peer[s] = "down"
        BY <2>2 DEF Failed
    <2>4. /\ UndisturbedInStep' /\ ChurnIsOfBroadcast' /\ DiesOfChurnOnly' /\ churned' \in BOOLEAN
        BY <1>3, <2>1, ObservedStep DEF HeartbeatPings
    <2>5. CASE /\ pingDead' = pingDead \cup Failed(Head(ping))
               /\ UNCHANGED <<registry, subs>>
        <3>1. TypeOK'
            BY <1>1, <2>1, <2>2, <2>3, <2>4, <2>5 DEF TypeOK, Broadcasting
        <3>2. RegistryExact'
            BY <1>1, <2>1, <2>5 DEF RegistryExact, Registered, Running
        <3>3. DropsTheDown'
            BY <1>1, <2>1, <2>3, <2>5 DEF DropsTheDown
        <3>4. QED
            BY <2>4, <3>1, <3>2, <3>3 DEF HubInv
    <2>6. CASE pingDead' = {} /\ Pop(pingDead \cup Failed(Head(ping)))
        <3>1. pingDead \cup Failed(Head(ping)) \in SUBSET Socket
            BY <1>1, <2>3 DEF TypeOK
        <3>2. /\ registry' \in Seq(Socket)
              /\ subs' \in [Socket -> SUBSET Ticker]
              /\ \A s \in Socket : Registered(s)' <=>
                    (Registered(s) /\ s \notin pingDead \cup Failed(Head(ping)))
              /\ \A k, j \in 1 .. Len(registry') : registry'[k] = registry'[j] => k = j
            BY <1>1, <2>6, <3>1, PopStep
        <3>3. TypeOK'
            BY <1>1, <2>1, <2>2, <2>4, <2>6, <3>2 DEF TypeOK, Broadcasting
        <3>4. RegistryExact'
            BY <1>1, <2>1, <2>3, <3>2 DEF RegistryExact, Running, DropsTheDown
        <3>5. DropsTheDown'
            BY <1>1, <2>1, <2>6 DEF DropsTheDown
        <3>6. QED
            BY <2>4, <3>3, <3>4, <3>5 DEF HubInv
    <2>7. QED
        BY <1>3, <2>5, <2>6 DEF HeartbeatPings
<1>4. QED
    BY <1>2, <1>3

\* Every step keeps the invariant.
LEMMA HubStep == HubInv /\ [Next]_vars => HubInv'
<1> SUFFICES ASSUME HubInv, [Next]_vars PROVE HubInv'
    OBVIOUS
<1>1. CASE \E s \in Socket : SocketStep(s)
    <2>1. PICK s \in Socket : SocketStep(s)
        BY <1>1
    <2>2. QED
        BY <2>1, ConnectStep, HandlerStep, NetworkStep DEF SocketStep
<1>2. CASE PollStep \/ PollRaises
    BY <1>2, PollerStep
<1>3. CASE PollSends
    BY <1>3, PollSendsStep
<1>4. CASE HeartbeatWakes \/ HeartbeatPings
    BY <1>4, HeartbeatStep
<1>5. CASE UNCHANGED vars
    <2>1. /\ conn' = conn /\ peer' = peer /\ registry' = registry /\ subs' = subs
          /\ poll' = poll /\ tickers' = tickers /\ it' = it
          /\ ping' = ping /\ pingDead' = pingDead /\ churned' = churned
        BY <1>5 DEF vars
    <2>2. TypeOK' /\ RegistryExact' /\ DropsTheDown'
        BY <2>1 DEF HubInv, TypeOK, RegistryExact, DropsTheDown, Registered, Running, Broadcasting
    <2>3. UndisturbedInStep' /\ ChurnIsOfBroadcast' /\ DiesOfChurnOnly'
        BY <2>1 DEF HubInv, UndisturbedInStep, ChurnIsOfBroadcast, DiesOfChurnOnly, Broadcasting,
            InStep, Unvisited
    <2>4. QED
        BY <2>2, <2>3 DEF HubInv
<1>6. QED
    BY <1>1, <1>2, <1>3, <1>4, <1>5 DEF Next

LEMMA HubInvariant == Spec => []HubInv
BY HubInit, HubStep, PTL DEF Spec

-----------------------------------------------------------------------------
(* What the hub keeps, for any number of sockets and tickers.              *)

\* The state of the handlers, the poller and the heartbeat is well typed, and
\* a send is in flight exactly while the poller waits in a broadcast.
THEOREM HubTypes == Spec => []TypeOK
<1>1. HubInv => TypeOK
    BY DEF HubInv
<1>2. QED
    BY <1>1, HubInvariant, PTL

\* The registry holds running handlers only, each once, and every one of them
\* that can still be reached, though three kinds of task take entries out.
THEOREM RegistryIsExact == Spec => []RegistryExact
<1>1. HubInv => RegistryExact
    BY DEF HubInv
<1>2. QED
    BY <1>1, HubInvariant, PTL

\* The iterator over the dict raises only after another task changed the dict:
\* what the broadcast drops itself, it drops when the iteration is over.
THEOREM BroadcastDiesOfChurnOnly == Spec => []DiesOfChurnOnly
<1>1. HubInv => DiesOfChurnOnly
    BY DEF HubInv
<1>2. QED
    BY <1>1, HubInvariant, PTL
=============================================================================
