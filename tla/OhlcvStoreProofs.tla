-------------------------- MODULE OhlcvStoreProofs --------------------------
(***************************************************************************)
(* How stale an answer of load can be, which entries of the caches may     *)
(* differ from their files, and what the writers keep, for any processes,  *)
(* threads, tickers and intervals, any life time and capacity of the       *)
(* caches, whatever crashes in between.                                    *)
(***************************************************************************)
EXTENDS OhlcvStore, TLAPS

(***************************************************************************)
(* The bound on answers is not inductive.  It follows from what the caches *)
(* and the readers hold: an entry that differs from its file was stored at *)
(* most MaxIO after the file changed (EntryOK), because its reader had     *)
(* read before the change and is never held up for longer (ReaderOK).      *)
(***************************************************************************)
Clocked == \A k \in Key : changedAt[k] <= now

\* What a file that cannot be read would give.
Blank == \A k \in Key : file[k].state # "ok" => file[k].rows = NoRows

EntryOK ==
    \A p \in Proc, k \in Key :
        cache[p][k].held =>
            /\ cache[p][k].ts <= now
            /\ cache[p][k].val = file[k].rows \/ cache[p][k].ts <= changedAt[k] + MaxIO

ReaderOK ==
    \A t \in Thread :
        At(t, "load_set") =>
            /\ th[t].at <= now /\ now <= th[t].at + MaxIO
            /\ th[t].rows = file[th[t].key].rows \/ th[t].at <= changedAt[th[t].key]

Bounds == Clocked /\ Blank /\ EntryOK /\ ReaderOK /\ StaleBound

StoreInv == TypeOK /\ Bounds

Entry == [held : BOOLEAN, val : Rows, ts : Nat, late : BOOLEAN]
Op == {"save", "clean", "delete", "failed_delete"}

\* A call that has read nothing it is going to store or answer.
Harmless(call) == call.pc \notin {"load_set", "answered"}

\* Entries may have been dropped, but none was stored.
OnlyDrops == \A p \in Proc, k \in Key : cache'[p][k].held => cache'[p][k] = cache[p][k]

-----------------------------------------------------------------------------
(* Types of what the actions build.                                        *)

LEMMA RowFacts ==
    /\ NoRows \in Rows
    /\ \A a, b \in Rows : Merge(a, b) \in Rows
    /\ \A a \in Rows, c \in Int : Retain(a, c) \in Rows
    /\ \A a, b \in Rows : [d \in Day |-> Latest(a[d], b[d])] \in Rows
    /\ \A D \in SUBSET Day, v \in Nat : Batch(D, v) \in Rows
  BY DEF Rows, NoRows, Merge, Retain, Latest, Batch

LEMMA KeyFacts == AnyKey \in Key /\ \A tk \in Ticker : (CHOOSE k \in KeysOf(tk) : TRUE) \in Key
<1>1. AnyKey \in Key
  BY StoreAssumption DEF AnyKey
<1>2. ASSUME NEW tk \in Ticker PROVE (CHOOSE k \in KeysOf(tk) : TRUE) \in Key
  <2>1. PICK i : i \in Interval
    BY StoreAssumption DEF Key
  <2>2. <<tk, i>> \in KeysOf(tk)
    BY <2>1 DEF KeysOf, Key
  <2> QED BY <2>2 DEF KeysOf
<1> QED BY <1>1, <1>2

LEMMA IdleType == Idle \in Call /\ Harmless(Idle)
  BY RowFacts, KeyFacts DEF Idle, Call, PCs, Harmless

LEMMA FileFacts ==
    /\ Absent \in FileState /\ Torn \in FileState
    /\ \A r \in Rows : Complete(r) \in FileState
  BY RowFacts DEF Absent, Torn, Complete, FileState

LEMMA GotoFacts ==
    ASSUME th \in [Thread -> Call], NEW t \in Thread, NEW call \in Call, Goto(t, call)
    PROVE  /\ th' \in [Thread -> Call]
           /\ th'[t] = call
           /\ \A u \in Thread \ {t} : th'[u] = th[u]
  BY DEF Goto

LEMMA ReturnFacts ==
    ASSUME th \in [Thread -> Call], NEW t \in Thread, Return(t)
    PROVE  /\ th' \in [Thread -> Call]
           /\ th'[t] = Idle
           /\ \A u \in Thread \ {t} : th'[u] = th[u]
  BY IdleType, GotoFacts DEF Return

\* Deletions from a dictionary.
LEMMA WithoutFacts ==
    ASSUME NEW c \in [Key -> Entry], NEW K
    PROVE  /\ WithoutKeys(c, K, NoRows) \in [Key -> Entry]
           /\ \A k \in Key : WithoutKeys(c, K, NoRows)[k].held
                                => WithoutKeys(c, K, NoRows)[k] = c[k]
  BY RowFacts DEF WithoutKeys, Missing, Entry

LEMMA DropFacts ==
    ASSUME cache \in [Proc -> [Key -> Entry]], NEW p \in Proc, NEW K,
           cache' = [cache EXCEPT ![p] = WithoutKeys(@, K, NoRows)]
    PROVE  cache' \in [Proc -> [Key -> Entry]] /\ OnlyDrops
<1>1. cache'[p] = WithoutKeys(cache[p], K, NoRows) /\ \A q \in Proc \ {p} : cache'[q] = cache[q]
  OBVIOUS
<1>2. cache'[p] \in [Key -> Entry] /\ \A k \in Key : cache'[p][k].held => cache'[p][k] = cache[p][k]
  BY <1>1, WithoutFacts
<1> QED BY <1>1, <1>2 DEF OnlyDrops

LEMMA CommitFacts ==
    ASSUME TypeOK, NEW t \in Thread, NEW k \in Key, NEW f \in FileState, NEW op \in Op,
           NEW call \in Call, Commit(t, k, f, op, call)
    PROVE  /\ file' \in [Key -> FileState] /\ th' \in [Thread -> Call]
           /\ changedAt' \in [Key -> Nat] /\ changedBy' \in [Key -> Proc \X Op]
           /\ file'[k] = f /\ changedAt'[k] = now
           /\ \A j \in Key \ {k} : file'[j] = file[j] /\ changedAt'[j] = changedAt[j]
           /\ th'[t] = call
           /\ \A u \in Thread \ {t} : /\ th'[u].pc = th[u].pc /\ th'[u].key = th[u].key
                                      /\ th'[u].rows = th[u].rows /\ th'[u].at = th[u].at
<1>1. file' \in [Key -> FileState] /\ changedAt' \in [Key -> Nat]
  BY DEF Commit, TypeOK
<1>2. changedBy' \in [Key -> Proc \X Op]
  BY StoreAssumption DEF Commit, TypeOK, Op
<1>3. \A u \in Thread : th'[u] = IF u = t THEN call
                                 ELSE IF Holding(th[u]) /\ th[u].key = k
                                      THEN [th[u] EXCEPT !.stale = TRUE]
                                      ELSE th[u]
  BY DEF Commit
<1>4. \A u \in Thread : [th[u] EXCEPT !.stale = TRUE] \in Call
  BY DEF TypeOK, Call
<1>5. th' \in [Thread -> Call]
  BY <1>3, <1>4 DEF Commit, TypeOK
<1>6. /\ file'[k] = f /\ changedAt'[k] = now
      /\ \A j \in Key \ {k} : file'[j] = file[j] /\ changedAt'[j] = changedAt[j]
  BY DEF Commit, TypeOK
<1>7. \A u \in Thread \ {t} : /\ th'[u].pc = th[u].pc /\ th'[u].key = th[u].key
                              /\ th'[u].rows = th[u].rows /\ th'[u].at = th[u].at
  <2> SUFFICES ASSUME NEW u \in Thread \ {t}
               PROVE  /\ th'[u].pc = th[u].pc /\ th'[u].key = th[u].key
                      /\ th'[u].rows = th[u].rows /\ th'[u].at = th[u].at
    OBVIOUS
  <2>1. th'[u] = th[u] \/ th'[u] = [th[u] EXCEPT !.stale = TRUE]
    BY <1>3
  <2>2. th[u] \in Call
    BY DEF TypeOK
  <2> QED BY <2>1, <2>2 DEF Call
<1> QED BY <1>1, <1>2, <1>3, <1>5, <1>6, <1>7

-----------------------------------------------------------------------------
(* Steps that cannot disturb the bounds.                                   *)

\* Nothing was stored, no file changed, and the thread neither answers nor is
\* about to store.
LEMMA QuietStep ==
    ASSUME Bounds, NEW t \in Thread, UNCHANGED <<now, file, changedAt>>, OnlyDrops,
           Harmless(th'[t]), \A u \in Thread \ {t} : th'[u] = th[u]
    PROVE  Bounds'
<1>1. Clocked' /\ Blank'
  BY DEF Bounds, Clocked, Blank
<1>2. EntryOK'
  BY DEF Bounds, EntryOK, OnlyDrops
<1>3. ReaderOK'
  BY DEF Bounds, ReaderOK, At, Harmless
<1>4. StaleBound'
  BY DEF Bounds, StaleBound, At, Harmless
<1> QED BY <1>1, <1>2, <1>3, <1>4 DEF Bounds

\* A file changes now: whatever differs from it from now on is new.
LEMMA ChangeStep ==
    ASSUME StoreInv, NEW t \in Thread, NEW k \in Key, NEW f \in FileState, NEW op \in Op,
           NEW call \in Call, Commit(t, k, f, op, call), Harmless(call),
           f.state # "ok" => f.rows = NoRows, UNCHANGED <<now, cache>>
    PROVE  Bounds'
<1> USE DEF StoreInv, Bounds
<1>1. /\ file'[k] = f /\ changedAt'[k] = now
      /\ \A j \in Key \ {k} : file'[j] = file[j] /\ changedAt'[j] = changedAt[j]
      /\ th'[t] = call
      /\ \A u \in Thread \ {t} : /\ th'[u].pc = th[u].pc /\ th'[u].key = th[u].key
                                 /\ th'[u].rows = th[u].rows /\ th'[u].at = th[u].at
  BY CommitFacts
<1>2. now \in Nat /\ MaxIO \in Nat /\ TTL \in Nat
  BY StoreAssumption, CacheAssumption DEF TypeOK
<1>3. Clocked' /\ Blank'
  BY <1>1, <1>2 DEF Clocked, Blank
<1>4. EntryOK'
  <2> SUFFICES ASSUME NEW p \in Proc, NEW j \in Key, cache[p][j].held
               PROVE  /\ cache[p][j].ts <= now
                      /\ cache[p][j].val = file'[j].rows \/ cache[p][j].ts <= changedAt'[j] + MaxIO
    BY DEF EntryOK
  <2>1. cache[p][j].ts \in Nat /\ cache[p][j].ts <= now
    BY DEF EntryOK, TypeOK
  <2>2. CASE j = k
    BY <2>1, <2>2, <1>1, <1>2
  <2>3. CASE j # k
    BY <2>1, <2>3, <1>1 DEF EntryOK
  <2> QED BY <2>2, <2>3
<1>5. \A u \in Thread : th[u].key \in Key /\ th[u].at \in Nat
  BY DEF TypeOK, Call
<1>6. ReaderOK'
  <2> SUFFICES ASSUME NEW u \in Thread, th'[u].pc = "load_set"
               PROVE  /\ th'[u].at <= now /\ now <= th'[u].at + MaxIO
                      /\ \/ th'[u].rows = file'[th'[u].key].rows
                         \/ th'[u].at <= changedAt'[th'[u].key]
    BY DEF ReaderOK, At
  <2>1. u # t
    BY <1>1 DEF Harmless
  <2>2. /\ th[u].at <= now /\ now <= th[u].at + MaxIO
        /\ th[u].rows = file[th[u].key].rows \/ th[u].at <= changedAt[th[u].key]
    BY <2>1, <1>1 DEF ReaderOK, At
  <2>3. CASE th[u].key = k
    BY <2>1, <2>2, <2>3, <1>1
  <2>4. CASE th[u].key # k
    BY <2>1, <2>2, <2>4, <1>1, <1>5
  <2> QED BY <2>3, <2>4
<1>7. StaleBound'
  <2> SUFFICES ASSUME NEW u \in Thread, th'[u].pc = "answered"
               PROVE  \/ th'[u].rows = file'[th'[u].key].rows
                      \/ changedAt'[th'[u].key] >= now - MaxIO
                      \/ changedAt'[th'[u].key] > now - (TTL + MaxIO)
    BY DEF StaleBound, At
  <2>1. u # t
    BY <1>1 DEF Harmless
  <2>2. CASE th[u].key = k
    BY <2>1, <2>2, <1>1, <1>2
  <2>3. CASE th[u].key # k
    BY <2>1, <2>3, <1>1, <1>5 DEF StaleBound, At
  <2> QED BY <2>2, <2>3
<1> QED BY <1>3, <1>4, <1>6, <1>7
-----------------------------------------------------------------------------
(* load                                                                    *)

LEMMA StoreInit == Init => StoreInv
<1> SUFFICES ASSUME Init PROVE StoreInv
  OBVIOUS
<1>1. \A k \in Key : file[k] \in {Absent, Complete([d \in Day |-> 1])}
  BY DEF Init
<1>2. [d \in Day |-> 1] \in Rows
  BY DEF Rows
<1>3. file \in [Key -> FileState]
  BY <1>2, FileFacts DEF Init
<1>4. cache \in [Proc -> [Key -> Entry]] /\ \A p \in Proc, k \in Key : ~cache[p][k].held
  BY RowFacts DEF Init, EmptyCache, Missing, Entry
<1>5. TypeOK
  <2>1. want \in [Key -> Rows]
    BY <1>3 DEF Init, FileState
  <2>2. changedBy \in [Key -> Proc \X Op]
    BY StoreAssumption DEF Init, Op
  <2>3. th \in [Thread -> Call]
    BY IdleType DEF Init
  <2> QED BY <1>3, <1>4, <2>1, <2>2, <2>3 DEF Init, TypeOK, Entry, Op
<1>6. Clocked /\ Blank
  BY <1>1 DEF Init, Clocked, Blank, Absent, Complete
<1>7. EntryOK
  BY <1>4 DEF EntryOK
<1>8. ReaderOK /\ StaleBound
  BY DEF Init, ReaderOK, StaleBound, At, Idle
<1> QED BY <1>5, <1>6, <1>7, <1>8 DEF StoreInv, Bounds

\* The type of the state when only a thread and perhaps a cache change.
LEMMA ThreadStepType ==
    ASSUME TypeOK, th' \in [Thread -> Call], cache' \in [Proc -> [Key -> Entry]],
           UNCHANGED <<now, saves, file, obs>>
    PROVE  TypeOK'
  BY DEF TypeOK, obs, Entry

\* A thread moves on without a word to anybody.
LEMMA SilentStep ==
    ASSUME StoreInv, NEW t \in Thread, NEW call \in Call, Goto(t, call), Harmless(call),
           UNCHANGED <<now, saves, file, cache, obs>>
    PROVE  StoreInv'
<1>1. /\ th' \in [Thread -> Call] /\ th'[t] = call
      /\ \A u \in Thread \ {t} : th'[u] = th[u]
  BY GotoFacts DEF StoreInv, TypeOK
<1>2. TypeOK'
  BY <1>1, ThreadStepType DEF StoreInv, TypeOK, Entry
<1>3. Bounds'
  BY <1>1, QuietStep DEF StoreInv, OnlyDrops, obs
<1> QED BY <1>2, <1>3 DEF StoreInv

\* A thread comes to its answer, and nothing else changes but entries dropped.
LEMMA AnswerStep ==
    ASSUME StoreInv, NEW t \in Thread, NEW call \in Call, Goto(t, call), call.pc = "answered",
           \/ call.rows = file[call.key].rows
           \/ changedAt[call.key] >= now - MaxIO
           \/ changedAt[call.key] > now - (TTL + MaxIO),
           UNCHANGED <<now, file, changedAt>>, EntryOK'
    PROVE  Bounds'
<1>1. /\ th'[t] = call
      /\ \A u \in Thread \ {t} : th'[u] = th[u]
  BY GotoFacts DEF StoreInv, TypeOK
<1>2. Clocked' /\ Blank'
  BY DEF StoreInv, Bounds, Clocked, Blank
<1>3. ReaderOK'
  BY <1>1 DEF StoreInv, Bounds, ReaderOK, At
<1>4. StaleBound'
  BY <1>1 DEF StoreInv, Bounds, StaleBound, At
<1> QED BY <1>2, <1>3, <1>4 DEF Bounds

LEMMA StoreLoadBegin ==
    ASSUME StoreInv, NEW t \in Thread, NEW k \in Key, LoadBegin(t, k)
    PROVE  StoreInv'
<1> DEFINE call == [Idle EXCEPT !.pc = IF file[k].state = "absent"
                                       THEN "answered" ELSE "load_get", !.key = k]
<1>1. Goto(t, call) /\ UNCHANGED <<now, saves, file, cache, obs>>
  BY DEF LoadBegin
<1>2. /\ call \in Call /\ call.key = k /\ call.rows = NoRows
      /\ call.pc = IF file[k].state = "absent" THEN "answered" ELSE "load_get"
  BY IdleType DEF Call, PCs, Idle
<1>3. CASE file[k].state # "absent"
  <2>1. Harmless(call)
    BY <1>2, <1>3 DEF Harmless
  <2> QED BY <1>1, <1>2, <2>1, SilentStep
<1>4. CASE file[k].state = "absent"
  <2>1. call.rows = file[call.key].rows
    BY <1>2, <1>4 DEF StoreInv, Bounds, Blank
  <2>2. EntryOK'
    BY <1>1 DEF StoreInv, Bounds, EntryOK, obs
  <2>3. Bounds'
    BY <1>1, <1>2, <1>4, <2>1, <2>2, AnswerStep DEF obs
  <2>4. TypeOK'
    BY <1>1, <1>2, GotoFacts, ThreadStepType DEF StoreInv, TypeOK, Entry
  <2> QED BY <2>3, <2>4 DEF StoreInv
<1> QED BY <1>3, <1>4

\* _cache.get drops at most the entry it was asked for.
LEMMA GetFacts ==
    ASSUME StoreInv, NEW t \in Thread, LoadGet(t)
    PROVE  cache' \in [Proc -> [Key -> Entry]] /\ OnlyDrops
<1> DEFINE p == ProcOf[t]
           k == th[t].key
<1>1. p \in Proc /\ k \in Key
  BY StoreAssumption DEF StoreInv, TypeOK, Call
<1>2. cache' = [cache EXCEPT ![p] = AfterGet(@, k, now, NoRows)]
  BY DEF LoadGet
<1>3. CASE cache[p][k].held /\ ~IsFresh(cache[p][k], now)
  <2>1. cache' = [cache EXCEPT ![p] = WithoutKeys(@, {k}, NoRows)]
    BY <1>2, <1>3 DEF AfterGet
  <2> QED BY <1>1, <2>1, DropFacts DEF StoreInv, TypeOK, Entry
<1>4. CASE ~(cache[p][k].held /\ ~IsFresh(cache[p][k], now))
  <2>1. cache' = cache
    BY <1>2, <1>4 DEF AfterGet, StoreInv, TypeOK
  <2> QED BY <2>1 DEF StoreInv, TypeOK, Entry, OnlyDrops
<1> QED BY <1>3, <1>4

\* _cache.set stores its entry and may evict others.
LEMMA SetFacts ==
    ASSUME NEW store \in [Key -> Entry], NEW k \in Key, NEW val \in Rows, NEW at \in Nat,
           NEW late \in BOOLEAN, NEW c \in AfterSet(store, k, val, at, late, NoRows)
    PROVE  /\ c \in [Key -> Entry]
           /\ c[k].held =>
                 c[k] = [held |-> TRUE, val |-> val, ts |-> at, late |-> late]
           /\ \A j \in Key \ {k} : c[j].held => c[j] = store[j]
<1> DEFINE new == [held |-> TRUE, val |-> val, ts |-> at, late |-> late]
           inserted == [store EXCEPT ![k] = new]
<1>1. /\ inserted \in [Key -> Entry]
      /\ inserted[k] = new /\ \A j \in Key \ {k} : inserted[j] = store[j]
  BY DEF Entry
<1>2. \/ c = inserted
      \/ \E old \in Oldest(inserted, k) : c = WithoutKeys(inserted, {old}, NoRows)
  BY DEF AfterSet
<1> HIDE DEF inserted
<1>3. CASE c = inserted
  BY <1>1, <1>3
<1>4. CASE \E old \in Oldest(inserted, k) : c = WithoutKeys(inserted, {old}, NoRows)
  <2>1. PICK old \in Oldest(inserted, k) : c = WithoutKeys(inserted, {old}, NoRows)
    BY <1>4
  <2>2. c \in [Key -> Entry] /\ \A j \in Key : c[j].held => c[j] = inserted[j]
    BY <1>1, <2>1, WithoutFacts
  <2> QED BY <1>1, <2>2
<1> QED BY <1>2, <1>3, <1>4

LEMMA StoreLoadGet ==
    ASSUME StoreInv, NEW t \in Thread, LoadGet(t)
    PROVE  StoreInv'
<1> DEFINE p == ProcOf[t]
           k == th[t].key
           hit == IsFresh(cache[p][k], now)
           call == IF hit THEN [th[t] EXCEPT !.pc = "answered", !.rows = cache[p][k].val]
                   ELSE [th[t] EXCEPT !.pc = "load_read"]
<1>1. Goto(t, call) /\ UNCHANGED <<now, saves, file, obs>> /\ p \in Proc /\ k \in Key
  BY StoreAssumption DEF LoadGet, StoreInv, TypeOK, Call
<1>2. cache[p] \in [Key -> Entry] /\ th[t] \in Call
  BY <1>1 DEF StoreInv, TypeOK, Entry
<1>3. call \in Call /\ call.key = k /\ call.pc = IF hit THEN "answered" ELSE "load_read"
  BY <1>1, <1>2 DEF Call, PCs, Entry
<1>4. cache' \in [Proc -> [Key -> Entry]] /\ OnlyDrops
  BY GetFacts
<1>5. TypeOK'
  BY <1>1, <1>3, <1>4, GotoFacts, ThreadStepType DEF StoreInv, TypeOK
<1>6. Bounds'
  <2>1. CASE ~hit
    <3>1. Harmless(call)
      BY <1>3, <2>1 DEF Harmless
    <3>2. th'[t] = call /\ \A u \in Thread \ {t} : th'[u] = th[u]
      BY <1>1, <1>3, GotoFacts DEF StoreInv, TypeOK
    <3> QED BY <1>1, <1>4, <3>1, <3>2, QuietStep DEF StoreInv, obs
  <2>2. CASE hit
    <3>1. call.rows = cache[p][k].val /\ call.pc = "answered"
      BY <1>2, <1>3, <2>2 DEF Call
    <3>2. cache[p][k].held /\ now - cache[p][k].ts < TTL
      BY <2>2 DEF IsFresh
    <3>3. call.rows = file[k].rows \/ cache[p][k].ts <= changedAt[k] + MaxIO
      BY <1>1, <3>1, <3>2 DEF StoreInv, Bounds, EntryOK
    <3>4. /\ now \in Nat /\ MaxIO \in Nat /\ TTL \in Nat
          /\ cache[p][k].ts \in Nat /\ changedAt[k] \in Nat
      BY <1>1, <1>2, StoreAssumption, CacheAssumption DEF StoreInv, TypeOK, Entry
    <3>5. call.rows = file[k].rows \/ changedAt[k] > now - (TTL + MaxIO)
      <4> HIDE DEF p, k, call
      <4> QED BY <3>2, <3>3, <3>4
    <3>6. EntryOK'
      BY <1>1, <1>4 DEF StoreInv, Bounds, EntryOK, OnlyDrops, obs
    <3> QED BY <1>1, <1>3, <3>1, <3>5, <3>6, AnswerStep DEF obs
  <2> QED BY <2>1, <2>2
<1> QED BY <1>5, <1>6 DEF StoreInv

LEMMA StoreLoadRead ==
    ASSUME StoreInv, NEW t \in Thread, LoadRead(t)
    PROVE  StoreInv'
<1> DEFINE f == file[th[t].key]
           call == [th[t] EXCEPT !.pc = "load_set", !.rows = f.rows,
                                 !.at = now, !.stale = FALSE]
<1>1. Goto(t, IF f.state = "ok" THEN call ELSE Idle) /\ UNCHANGED <<now, saves, file, cache, obs>>
  BY DEF LoadRead
<1>2. th[t] \in Call /\ f \in FileState /\ now \in Nat /\ MaxIO \in Nat
  BY StoreAssumption DEF StoreInv, TypeOK, Call
<1>3. CASE f.state # "ok"
  BY <1>1, <1>3, IdleType, SilentStep
<1>4. CASE f.state = "ok"
  <2>1. /\ call \in Call /\ call.pc = "load_set" /\ call.rows = f.rows
        /\ call.at = now /\ call.key = th[t].key
    BY <1>2 DEF Call, PCs, FileState
  <2>2. /\ th' \in [Thread -> Call] /\ th'[t] = call
        /\ \A u \in Thread \ {t} : th'[u] = th[u]
    BY <1>1, <1>4, <2>1, GotoFacts DEF StoreInv, TypeOK
  <2>3. TypeOK'
    BY <1>1, <2>2, ThreadStepType DEF StoreInv, TypeOK, Entry
  <2>4. Clocked' /\ Blank' /\ EntryOK'
    BY <1>1 DEF StoreInv, Bounds, Clocked, Blank, EntryOK, obs
  <2>5. now <= now /\ now <= now + MaxIO
    BY <1>2
  <2>6. ReaderOK'
    BY <1>1, <2>1, <2>2, <2>5 DEF StoreInv, Bounds, ReaderOK, At, obs
  <2>7. StaleBound'
    BY <1>1, <2>1, <2>2 DEF StoreInv, Bounds, StaleBound, At, obs
  <2> QED BY <2>3, <2>4, <2>6, <2>7 DEF StoreInv, Bounds
<1> QED BY <1>3, <1>4

LEMMA StoreLoadSet ==
    ASSUME StoreInv, NEW t \in Thread, LoadSet(t)
    PROVE  StoreInv'
<1> DEFINE p == ProcOf[t]
           k == th[t].key
           new == [held |-> TRUE, val |-> th[t].rows, ts |-> now, late |-> th[t].stale]
           call == [th[t] EXCEPT !.pc = "answered", !.at = 0, !.stale = FALSE]
<1>1. /\ At(t, "load_set") /\ Goto(t, call)
      /\ UNCHANGED <<now, saves, file, obs>> /\ p \in Proc /\ k \in Key
  BY StoreAssumption DEF LoadSet, StoreInv, TypeOK, Call
<1>2. PICK c \in AfterSet(cache[p], k, th[t].rows, now, th[t].stale, NoRows) :
          cache' = [cache EXCEPT ![p] = c]
  BY DEF LoadSet
<1>3. /\ cache[p] \in [Key -> Entry] /\ th[t] \in Call
      /\ now \in Nat /\ MaxIO \in Nat /\ TTL \in Nat
      /\ \A j \in Key : changedAt[j] \in Nat
  BY <1>1, StoreAssumption, CacheAssumption DEF StoreInv, TypeOK, Entry
<1>4. th[t].rows \in Rows /\ th[t].stale \in BOOLEAN
  BY <1>3 DEF Call
<1>5. /\ c \in [Key -> Entry] /\ (c[k].held => c[k] = new)
      /\ \A j \in Key \ {k} : c[j].held => c[j] = cache[p][j]
  BY <1>1, <1>2, <1>3, <1>4, SetFacts
<1>6. /\ cache' \in [Proc -> [Key -> Entry]] /\ cache'[p] = c
      /\ \A q \in Proc \ {p} : cache'[q] = cache[q]
  BY <1>1, <1>2, <1>5 DEF StoreInv, TypeOK, Entry
<1>7. call \in Call /\ call.pc = "answered" /\ call.key = k /\ call.rows = th[t].rows
  BY <1>3 DEF Call, PCs
<1>8. TypeOK'
  BY <1>1, <1>6, <1>7, GotoFacts, ThreadStepType DEF StoreInv, TypeOK
<1>9. th[t].rows = file[k].rows \/ now <= changedAt[k] + MaxIO
  <2>1. /\ now <= th[t].at + MaxIO /\ th[t].at \in Nat
        /\ th[t].rows = file[k].rows \/ th[t].at <= changedAt[k]
    BY <1>1, <1>3 DEF StoreInv, Bounds, ReaderOK, Call
  <2>2. changedAt[k] \in Nat
    BY <1>1, <1>3
  <2> HIDE DEF k
  <2> QED BY <2>1, <2>2, <1>3
<1>10. EntryOK'
  <2> SUFFICES ASSUME NEW q \in Proc, NEW j \in Key, cache'[q][j].held
               PROVE  /\ cache'[q][j].ts <= now
                      /\ \/ cache'[q][j].val = file[j].rows
                         \/ cache'[q][j].ts <= changedAt[j] + MaxIO
    BY <1>1 DEF EntryOK, obs
  <2>1. CASE q = p /\ j = k
    <3>1. cache'[q][j] = new
      BY <2>1, <1>1, <1>3, <1>5, <1>6
    <3> QED BY <2>1, <3>1, <1>3, <1>9
  <2>2. CASE q # p \/ j # k
    <3>1. cache'[q][j] = cache[q][j]
      BY <2>2, <1>1, <1>3, <1>5, <1>6
    <3> QED BY <3>1 DEF StoreInv, Bounds, EntryOK
  <2> QED BY <2>1, <2>2
<1>11. call.rows = file[call.key].rows \/ changedAt[call.key] >= now - MaxIO
  <2>1. changedAt[k] \in Nat
    BY <1>1, <1>3
  <2>2. now <= changedAt[k] + MaxIO => changedAt[k] >= now - MaxIO
    BY <2>1, <1>3
  <2> QED BY <1>7, <1>9, <2>2
<1>12. Bounds'
  BY <1>1, <1>7, <1>10, <1>11, AnswerStep DEF obs
<1> QED BY <1>8, <1>12 DEF StoreInv

LEMMA StoreReturn ==
    ASSUME StoreInv, NEW t \in Thread, Return(t), UNCHANGED <<now, saves, file, cache, obs>>
    PROVE  StoreInv'
  BY IdleType, SilentStep DEF Return

-----------------------------------------------------------------------------
(* save                                                                    *)

LEMMA StoreSaveBegin ==
    ASSUME StoreInv, NEW t \in Thread, NEW k \in Key, NEW D \in SUBSET Day, SaveBegin(t, k, D)
    PROVE  StoreInv'
<1> DEFINE df == Batch(D, saves + 1)
           call == [Idle EXCEPT !.pc = IF file[k].state = "absent"
                                       THEN "save_put" ELSE "save_read",
                                !.key = k, !.batch = df, !.rows = df]
<1>1. Goto(t, call) /\ saves' = saves + 1 /\ UNCHANGED <<now, file, cache, obs>>
  BY DEF SaveBegin
<1>2. saves' \in Nat /\ df \in Rows
  <2>1. saves \in Nat
    BY DEF StoreInv, TypeOK
  <2>2. saves + 1 \in Nat
    BY <2>1
  <2> QED BY <1>1, <2>2, RowFacts
<1>3. call \in Call /\ Harmless(call)
  BY <1>2, IdleType DEF Idle, Call, PCs, Harmless
<1>4. /\ th' \in [Thread -> Call] /\ th'[t] = call
      /\ \A u \in Thread \ {t} : th'[u] = th[u]
  BY <1>1, <1>3, GotoFacts DEF StoreInv, TypeOK
<1>5. TypeOK'
  BY <1>1, <1>2, <1>4 DEF StoreInv, TypeOK, obs
<1>6. Bounds'
  BY <1>1, <1>3, <1>4, QuietStep DEF StoreInv, OnlyDrops, obs
<1> QED BY <1>5, <1>6 DEF StoreInv

LEMMA StoreSaveRead ==
    ASSUME StoreInv, NEW t \in Thread, SaveRead(t)
    PROVE  StoreInv'
<1> DEFINE f == file[th[t].key]
           call == [th[t] EXCEPT !.pc = "save_put", !.stale = FALSE,
                                 !.rows = Merge(f.rows, th[t].batch)]
<1>1. Goto(t, IF f.state = "ok" THEN call ELSE Idle) /\ UNCHANGED <<now, saves, file, cache, obs>>
  BY DEF SaveRead
<1>2. th[t] \in Call /\ f \in FileState
  BY DEF StoreInv, TypeOK, Call
<1>3. Merge(f.rows, th[t].batch) \in Rows
  BY <1>2, RowFacts DEF Call, FileState
<1>4. call \in Call /\ Harmless(call)
  BY <1>2, <1>3 DEF Call, PCs, Harmless
<1> QED BY <1>1, <1>4, IdleType, SilentStep

LEMMA StoreSavePut ==
    ASSUME StoreInv, NEW t \in Thread, SavePut(t)
    PROVE  StoreInv'
<1> DEFINE k == th[t].key
           f == Complete(th[t].rows)
           call == [Idle EXCEPT !.pc = "save_invalidate", !.key = k]
<1>1. /\ Commit(t, k, f, "save", call) /\ UNCHANGED <<now, saves, cache>>
      /\ want' = [want EXCEPT ![k] = [d \in Day |-> Latest(want[k][d], th[t].batch[d])]]
      /\ raced' = [raced EXCEPT ![k] = raced[k] \/ th[t].stale]
  BY DEF SavePut
<1>2. th[t] \in Call /\ k \in Key /\ "save" \in Op
  BY DEF StoreInv, TypeOK, Call, Op
<1>3. f \in FileState /\ f.state = "ok"
  BY <1>2, FileFacts DEF Call, Complete
<1>4. call \in Call /\ Harmless(call)
  BY <1>2, IdleType DEF Idle, Call, PCs, Harmless
<1>5. want' \in [Key -> Rows]
  <2>1. want[k] \in Rows /\ th[t].batch \in Rows
    BY <1>2 DEF StoreInv, TypeOK, Call
  <2>2. [d \in Day |-> Latest(want[k][d], th[t].batch[d])] \in Rows
    BY <2>1, RowFacts
  <2> QED BY <1>1, <2>2 DEF StoreInv, TypeOK
<1>6. raced' \in [Key -> BOOLEAN]
  BY <1>1, <1>2 DEF StoreInv, TypeOK, Call
<1>7. TypeOK'
  BY <1>1, <1>2, <1>3, <1>4, <1>5, <1>6, CommitFacts DEF StoreInv, TypeOK, Op
<1>8. Bounds'
  BY <1>1, <1>2, <1>3, <1>4, ChangeStep
<1> QED BY <1>7, <1>8 DEF StoreInv

LEMMA StoreInvalidate ==
    ASSUME StoreInv, NEW t \in Thread, InvalidateTicker(ProcOf[t], th[t].key[1]),
           Return(t), UNCHANGED <<now, saves, file, obs>>
    PROVE  StoreInv'
<1>1. ProcOf[t] \in Proc
  BY StoreAssumption
<1>2. cache' \in [Proc -> [Key -> Entry]] /\ OnlyDrops
  BY <1>1, DropFacts DEF InvalidateTicker, StoreInv, TypeOK, Entry
<1>3. th' \in [Thread -> Call] /\ th'[t] = Idle /\ \A u \in Thread \ {t} : th'[u] = th[u]
  BY ReturnFacts DEF StoreInv, TypeOK
<1>4. TypeOK'
  BY <1>2, <1>3, ThreadStepType DEF StoreInv
<1>5. Bounds'
  BY <1>2, <1>3, IdleType, QuietStep DEF StoreInv, obs
<1> QED BY <1>4, <1>5 DEF StoreInv

-----------------------------------------------------------------------------
(* clean                                                                   *)

LEMMA StoreCleanBegin ==
    ASSUME StoreInv, NEW t \in Thread, NEW c \in Cutoff, CleanBegin(t, c)
    PROVE  StoreInv'
<1> DEFINE files == {k \in Key : file[k].state # "absent"}
           found == {k \in files : HasRowBefore(file[k], c)}
           call(scanned) == [Idle EXCEPT !.pc = "clean_next", !.cutoff = c, !.scanned = scanned,
                                         !.todo = IF scanned THEN found ELSE files]
<1>1. PICK scanned \in BOOLEAN : Goto(t, call(scanned))
  BY DEF CleanBegin
<1>2. UNCHANGED <<now, saves, file, cache, obs>>
  BY DEF CleanBegin
<1>3. (IF scanned THEN found ELSE files) \in SUBSET Key /\ c \in Int
  BY StoreAssumption
<1>4. call(scanned) \in Call /\ Harmless(call(scanned))
  <2> HIDE DEF files, found
  <2> QED BY <1>3, IdleType DEF Idle, Call, PCs, Harmless
<1> QED BY <1>1, <1>2, <1>4, SilentStep

LEMMA StoreCleanNext ==
    ASSUME StoreInv, NEW t \in Thread, NEW k \in Key, CleanNext(t, k)
    PROVE  StoreInv'
<1> DEFINE kept == Retain(file[k].rows, th[t].cutoff)
           done == [th[t] EXCEPT !.todo = @ \ {k}]
           call == [done EXCEPT !.pc = "clean_open", !.key = k, !.rows = kept,
                                !.stale = FALSE]
<1>1. /\ Goto(t, Idle) \/ Goto(t, done) \/ Goto(t, call)
      /\ At(t, "clean_next") /\ UNCHANGED <<now, saves, file, cache, obs>>
  BY DEF CleanNext
<1>2. th[t] \in Call /\ file[k] \in FileState
  BY DEF StoreInv, TypeOK
<1>3. kept \in Rows
  BY <1>2, RowFacts DEF Call, FileState
<1>4. done \in Call /\ Harmless(done)
  BY <1>1, <1>2 DEF Call, Harmless, At
<1>5. call \in Call /\ Harmless(call)
  <2> HIDE DEF kept
  <2> QED BY <1>2, <1>3 DEF Call, PCs, Harmless
<1> QED BY <1>1, <1>4, <1>5, IdleType, SilentStep

LEMMA StoreCleanOpen ==
    ASSUME StoreInv, NEW t \in Thread, CleanOpen(t)
    PROVE  StoreInv'
<1> DEFINE k == th[t].key
           call == [th[t] EXCEPT !.pc = "clean_write", !.stale = FALSE]
<1>1. /\ Commit(t, k, Torn, "clean", call) /\ UNCHANGED <<now, saves, cache>>
      /\ want' = [want EXCEPT ![k] = Retain(want[k], th[t].cutoff)]
      /\ raced' = [raced EXCEPT ![k] = raced[k] \/ th[t].stale]
  BY DEF CleanOpen
<1>2. th[t] \in Call /\ k \in Key /\ "clean" \in Op
  BY DEF StoreInv, TypeOK, Call, Op
<1>3. Torn \in FileState /\ Torn.rows = NoRows
  BY FileFacts DEF Torn
<1>4. call \in Call /\ Harmless(call)
  BY <1>2 DEF Call, PCs, Harmless
<1>5. want' \in [Key -> Rows]
  <2>1. Retain(want[k], th[t].cutoff) \in Rows
    BY <1>2, RowFacts DEF StoreInv, TypeOK, Call
  <2> QED BY <1>1, <2>1 DEF StoreInv, TypeOK
<1>6. raced' \in [Key -> BOOLEAN]
  BY <1>1, <1>2 DEF StoreInv, TypeOK, Call
<1>7. TypeOK'
  BY <1>1, <1>2, <1>3, <1>4, <1>5, <1>6, CommitFacts DEF StoreInv, TypeOK, Op
<1>8. Bounds'
  BY <1>1, <1>2, <1>3, <1>4, ChangeStep
<1> QED BY <1>7, <1>8 DEF StoreInv

LEMMA StoreCleanWrite ==
    ASSUME StoreInv, NEW t \in Thread, CleanWrite(t)
    PROVE  StoreInv'
<1> DEFINE next == [th[t] EXCEPT !.pc = "clean_next", !.key = AnyKey, !.rows = NoRows,
                                 !.stale = FALSE]
           k == th[t].key
           f == Complete(th[t].rows)
<1>1. /\ UNCHANGED <<now, saves, cache, want, raced>>
      /\ IF th[t].stale
         THEN Goto(t, next) /\ UNCHANGED <<file, changedAt, changedBy>>
         ELSE Commit(t, k, f, "clean", next)
  BY DEF CleanWrite
<1>2. th[t] \in Call /\ k \in Key /\ "clean" \in Op
  BY DEF StoreInv, TypeOK, Call, Op
<1>3. next \in Call /\ Harmless(next)
  BY <1>2, RowFacts, KeyFacts DEF Call, PCs, Harmless
<1>4. CASE th[t].stale
  BY <1>1, <1>3, <1>4, SilentStep DEF obs
<1>5. CASE ~th[t].stale
  <2>1. f \in FileState /\ f.state = "ok"
    BY <1>2, FileFacts DEF Call, Complete
  <2>2. TypeOK'
    BY <1>1, <1>2, <1>3, <1>5, <2>1, CommitFacts DEF StoreInv, TypeOK, Op
  <2>3. Bounds'
    BY <1>1, <1>2, <1>3, <1>5, <2>1, ChangeStep
  <2> QED BY <2>2, <2>3 DEF StoreInv
<1> QED BY <1>4, <1>5

-----------------------------------------------------------------------------
(* delete_ticker                                                           *)

LEMMA StoreDeleteBegin ==
    ASSUME StoreInv, NEW t \in Thread, NEW tk \in Ticker, DeleteBegin(t, tk)
    PROVE  StoreInv'
<1> DEFINE any == CHOOSE k \in KeysOf(tk) : TRUE
           todo == {k \in KeysOf(tk) : file[k].state # "absent"}
           call == [Idle EXCEPT !.pc = "delete_next", !.key = any, !.todo = todo]
<1>1. Goto(t, call) /\ UNCHANGED <<now, saves, file, cache, obs>>
  BY DEF DeleteBegin
<1>2. any \in Key /\ todo \in SUBSET Key
  BY KeyFacts DEF KeysOf
<1>3. call \in Call /\ Harmless(call)
  <2> HIDE DEF any, todo
  <2> QED BY <1>2, IdleType DEF Idle, Call, PCs, Harmless
<1> QED BY <1>1, <1>3, SilentStep

LEMMA StoreDeleteNext ==
    ASSUME StoreInv, NEW t \in Thread, DeleteNext(t)
    PROVE  StoreInv'
<1> DEFINE call(k) == [th[t] EXCEPT !.todo = @ \ {k}]
<1>1. PICK k \in th[t].todo :
          IF file[k].state = "absent"
          THEN /\ Return(t) /\ changedBy' = NotInvalidated(ProcOf[t], k[1])
               /\ UNCHANGED <<file, changedAt, want, raced>>
          ELSE /\ Commit(t, k, Absent, "delete", call(k))
               /\ want' = [want EXCEPT ![k] = NoRows]
               /\ raced' = [raced EXCEPT ![k] = FALSE]
  BY DEF DeleteNext
<1>2. UNCHANGED <<now, saves, cache>> /\ At(t, "delete_next")
  BY DEF DeleteNext
<1>3. th[t] \in Call /\ k \in Key /\ "delete" \in Op /\ ProcOf[t] \in Proc
  BY StoreAssumption DEF StoreInv, TypeOK, Call, Op
<1>4. CASE file[k].state = "absent"
  <2>1. changedBy' \in [Key -> Proc \X Op]
    <3>1. changedBy \in [Key -> Proc \X Op]
      BY DEF StoreInv, TypeOK, Op
    <3>2. <<ProcOf[t], "failed_delete">> \in Proc \X Op
      BY <1>3 DEF Op
    <3>3. NotInvalidated(ProcOf[t], k[1]) \in [Key -> Proc \X Op]
      BY <3>1, <3>2 DEF NotInvalidated
    <3> QED BY <1>1, <1>4, <3>3
  <2>2. th' \in [Thread -> Call] /\ th'[t] = Idle /\ \A u \in Thread \ {t} : th'[u] = th[u]
    BY <1>1, <1>4, ReturnFacts DEF StoreInv, TypeOK
  <2>3. TypeOK'
    BY <1>1, <1>2, <1>4, <2>1, <2>2 DEF StoreInv, TypeOK, Op
  <2>4. Bounds'
    BY <1>1, <1>2, <1>4, <2>2, IdleType, QuietStep DEF StoreInv, OnlyDrops
  <2> QED BY <2>3, <2>4 DEF StoreInv
<1>5. CASE file[k].state # "absent"
  <2>1. call(k) \in Call /\ Harmless(call(k))
    BY <1>2, <1>3 DEF Call, Harmless, At
  <2>2. Absent \in FileState /\ Absent.rows = NoRows
    BY FileFacts DEF Absent
  <2>3. want' \in [Key -> Rows] /\ raced' \in [Key -> BOOLEAN]
    BY <1>1, <1>5, RowFacts DEF StoreInv, TypeOK
  <2>4. Commit(t, k, Absent, "delete", call(k))
    BY <1>1, <1>5
  <2>5. TypeOK'
    BY <1>2, <1>3, <2>1, <2>2, <2>3, <2>4, CommitFacts DEF StoreInv, TypeOK, Op
  <2>6. Bounds'
    BY <1>2, <1>3, <2>1, <2>2, <2>4, ChangeStep
  <2> QED BY <2>5, <2>6 DEF StoreInv
<1> QED BY <1>4, <1>5

-----------------------------------------------------------------------------
(* The environment.                                                        *)

LEMMA StoreCrash ==
    ASSUME StoreInv, NEW p \in Proc, Crash(p)
    PROVE  StoreInv'
<1>1. UNCHANGED <<now, saves, file, obs>>
  BY DEF Crash
<1>2. /\ th' \in [Thread -> Call]
      /\ \A t \in Thread : th'[t] = Idle \/ th'[t] = th[t]
  BY IdleType DEF Crash, StoreInv, TypeOK
<1>3. EmptyCache(Key, NoRows) \in [Key -> Entry] /\ \A k \in Key : ~EmptyCache(Key, NoRows)[k].held
  BY RowFacts DEF EmptyCache, Missing, Entry
<1>4. cache' \in [Proc -> [Key -> Entry]] /\ OnlyDrops
  BY <1>3 DEF Crash, StoreInv, TypeOK, Entry, OnlyDrops
<1>5. TypeOK'
  BY <1>1, <1>2, <1>4, ThreadStepType DEF StoreInv
<1>6. Clocked' /\ Blank'
  BY <1>1 DEF StoreInv, Bounds, Clocked, Blank, obs
<1>7. EntryOK'
  BY <1>1, <1>4 DEF StoreInv, Bounds, EntryOK, OnlyDrops, obs
<1>8. Idle.pc = "idle"
  BY DEF Idle
<1>9. ReaderOK' /\ StaleBound'
  BY <1>1, <1>2, <1>8 DEF StoreInv, Bounds, ReaderOK, StaleBound, At, obs
<1> QED BY <1>5, <1>6, <1>7, <1>9 DEF StoreInv, Bounds

LEMMA StoreTick == ASSUME StoreInv, Tick PROVE StoreInv'
<1>1. /\ now' = now + 1 /\ UNCHANGED <<saves, file, cache, th, obs>>
      /\ \A t \in Thread : At(t, "load_set") => now < th[t].at + MaxIO
      /\ \A t \in Thread : ~At(t, "answered")
  BY DEF Tick
<1>2. now \in Nat /\ MaxIO \in Nat
  BY StoreAssumption DEF StoreInv, TypeOK
<1>3. TypeOK'
  <2>1. now + 1 \in Nat
    BY <1>2
  <2> QED BY <1>1, <2>1 DEF StoreInv, TypeOK, obs
<1>4. Clocked' /\ Blank'
  <2>1. ASSUME NEW k \in Key PROVE changedAt[k] <= now + 1
    <3>1. changedAt[k] \in Nat /\ changedAt[k] <= now
      BY DEF StoreInv, Bounds, TypeOK, Clocked
    <3> QED BY <1>2, <3>1
  <2>2. Clocked'
    BY <1>1, <2>1 DEF Clocked, obs
  <2>3. Blank'
    BY <1>1 DEF StoreInv, Bounds, Blank
  <2> QED BY <2>2, <2>3
<1>5. EntryOK'
  <2> SUFFICES ASSUME NEW p \in Proc, NEW k \in Key, cache[p][k].held
               PROVE  /\ cache[p][k].ts <= now + 1
                      /\ \/ cache[p][k].val = file[k].rows
                         \/ cache[p][k].ts <= changedAt[k] + MaxIO
    BY <1>1 DEF EntryOK, obs
  <2>1. /\ cache[p][k].ts \in Nat /\ cache[p][k].ts <= now
        /\ cache[p][k].val = file[k].rows \/ cache[p][k].ts <= changedAt[k] + MaxIO
    BY DEF StoreInv, Bounds, TypeOK, EntryOK
  <2> QED BY <1>2, <2>1
<1>6. ReaderOK'
  <2> SUFFICES ASSUME NEW t \in Thread, At(t, "load_set")
               PROVE  /\ th[t].at <= now + 1 /\ now + 1 <= th[t].at + MaxIO
                      /\ \/ th[t].rows = file[th[t].key].rows
                         \/ th[t].at <= changedAt[th[t].key]
    BY <1>1 DEF ReaderOK, At, obs
  <2>1. /\ th[t].at <= now /\ now < th[t].at + MaxIO /\ th[t].at \in Nat
        /\ th[t].rows = file[th[t].key].rows \/ th[t].at <= changedAt[th[t].key]
    BY <1>1 DEF StoreInv, Bounds, ReaderOK, TypeOK, Call
  <2> QED BY <1>2, <2>1
<1>7. StaleBound'
  BY <1>1 DEF StaleBound, At
<1> QED BY <1>3, <1>4, <1>5, <1>6, <1>7 DEF StoreInv, Bounds

-----------------------------------------------------------------------------

LEMMA StoreStep == StoreInv /\ [Next]_vars => StoreInv'
<1> SUFFICES ASSUME StoreInv, [Next]_vars PROVE StoreInv'
  OBVIOUS
<1>1. ASSUME NEW t \in Thread, NEW k \in Key, LoadBegin(t, k) PROVE StoreInv'
  BY <1>1, StoreLoadBegin
<1>2. ASSUME NEW t \in Thread, LoadGet(t) \/ LoadRead(t) \/ LoadSet(t) PROVE StoreInv'
  BY <1>2, StoreLoadGet, StoreLoadRead, StoreLoadSet
<1>3. ASSUME NEW t \in Thread, LoadReturn(t) \/ SaveFail(t) \/ CleanFail(t) \/ CleanEnd(t)
      PROVE  StoreInv'
  BY <1>3, StoreReturn DEF LoadReturn, SaveFail, CleanFail, CleanEnd
<1>4. ASSUME NEW t \in Thread, NEW k \in Key, NEW D \in SUBSET Day \ {{}}, SaveBegin(t, k, D)
      PROVE  StoreInv'
  BY <1>4, StoreSaveBegin
<1>5. ASSUME NEW t \in Thread, SaveRead(t) \/ SavePut(t) PROVE StoreInv'
  BY <1>5, StoreSaveRead, StoreSavePut
<1>6. ASSUME NEW t \in Thread, SaveInvalidate(t) \/ DeleteInvalidate(t) PROVE StoreInv'
  BY <1>6, StoreInvalidate DEF SaveInvalidate, DeleteInvalidate
<1>7. ASSUME NEW t \in Thread, NEW c \in Cutoff, CleanBegin(t, c) PROVE StoreInv'
  BY <1>7, StoreCleanBegin
<1>8. ASSUME NEW t \in Thread, NEW k \in Key, CleanNext(t, k) PROVE StoreInv'
  BY <1>8, StoreCleanNext
<1>9. ASSUME NEW t \in Thread, CleanOpen(t) \/ CleanWrite(t) PROVE StoreInv'
  BY <1>9, StoreCleanOpen, StoreCleanWrite
<1>10. ASSUME NEW t \in Thread, NEW tk \in Ticker, DeleteBegin(t, tk) PROVE StoreInv'
  BY <1>10, StoreDeleteBegin
<1>11. ASSUME NEW t \in Thread, DeleteNext(t) PROVE StoreInv'
  BY <1>11, StoreDeleteNext
<1>12. ASSUME NEW p \in Proc, Crash(p) PROVE StoreInv'
  BY <1>12, StoreCrash
<1>13. CASE Tick
  BY <1>13, StoreTick
<1>14. CASE UNCHANGED vars
  BY <1>14 DEF vars, StoreInv, TypeOK, Bounds, Clocked, Blank, EntryOK, ReaderOK, StaleBound, At
<1> QED BY <1>1, <1>2, <1>3, <1>4, <1>5, <1>6, <1>7, <1>8, <1>9, <1>10, <1>11, <1>12, <1>13,
           <1>14 DEF Next

LEMMA StoreInvariant == Spec => []StoreInv
  BY StoreInit, StoreStep, PTL DEF Spec

\* The files, caches and calls are well typed.
THEOREM StoreTypeOK == Spec => []TypeOK
<1>1. StoreInv => TypeOK
  BY DEF StoreInv
<1> QED BY <1>1, StoreInvariant, PTL

\* An answer of load that is not what the file holds is at most MaxIO old, or
\* less than TTL + MaxIO if a cache gave it.
THEOREM StoreStaleBound == Spec => []StaleBound
<1>1. StoreInv => StaleBound
  BY DEF StoreInv, Bounds
<1> QED BY <1>1, StoreInvariant, PTL

-----------------------------------------------------------------------------
(***************************************************************************)
(* The writers.  Whoever changes a file marks the calls that hold another  *)
(* content of it stale, and those that are not stale still know the file:  *)
(* the invariant says what they know (HoldersOK), what a file is worth     *)
(* (WritesOK) and which writer answers for an entry that differs from its  *)
(* file (EntriesExplained).                                                *)
(***************************************************************************)

\* A call that holds what a file gave, and was not overtaken, holds what the
\* file still gives: an answer, a merge, what is left after a clean; and while
\* clean writes in place, nobody else has touched what it truncated.
HeldOK(c) ==
    LET f == file[c.key]
    IN  ~c.stale =>
            /\ c.pc = "load_set" => c.rows = f.rows
            /\ c.pc = "save_put" =>
                  \/ f.state = "ok" /\ c.rows = Merge(f.rows, c.batch)
                  \/ f.state = "absent" /\ c.rows = c.batch
            /\ c.pc = "clean_open" => f.state = "ok" /\ c.rows = Retain(f.rows, c.cutoff)
            /\ c.pc = "clean_write" => f.state = "torn" /\ (raced[c.key] \/ c.rows = want[c.key])

HoldersOK == \A t \in Thread : HeldOK(th[t])

\* What UncontendedWritesKept says, and that a deleted file is wanted empty.
WritesOK ==
    \A k \in Key :
        /\ file[k].state = "ok" => raced[k] \/ file[k].rows = want[k]
        /\ file[k].state = "absent" => raced[k] \/ want[k] = NoRows
        /\ file[k].state = "torn" => changedBy[k][2] = "clean"

\* A delete unlinks files of one ticker, whose entries it then drops.
DeletesOneTicker ==
    \A t \in Thread : At(t, "delete_next") => \A k \in th[t].todo : k[1] = th[t].key[1]

\* A call of process p that is yet to drop the entries of ticker tk.
OnItsWay(p, pc, tk) == \E t \in Thread : ProcOf[t] = p /\ At(t, pc) /\ th[t].key[1] = tk

\* The causes of StaleEntryExplained, each writer on its way by its own name:
\* a delete that raises excuses no save.
Explained(p, k) ==
    \/ cache[p][k].late
    \/ changedBy[k][1] # p
    \/ changedBy[k][2] \in {"clean", "failed_delete"}
    \/ changedBy[k][2] = "save" /\ OnItsWay(p, "save_invalidate", k[1])
    \/ changedBy[k][2] = "delete" /\ OnItsWay(p, "delete_next", k[1])

EntriesExplained ==
    \A p \in Proc, k \in Key :
        cache[p][k].held => cache[p][k].val = file[k].rows \/ Explained(p, k)

WritersInv == HoldersOK /\ WritesOK /\ DeletesOneTicker /\ EntriesExplained

\* Neither the thread's step nor anybody's change touched what others know.
LEMMA OwnStep ==
    ASSUME HoldersOK, WritesOK, DeletesOneTicker, NEW t \in Thread,
           UNCHANGED <<file, changedBy, want, raced>>,
           \A u \in Thread \ {t} : th'[u] = th[u],
           HeldOK(th[t])',
           th'[t].pc = "delete_next" => \A k \in th'[t].todo : k[1] = th'[t].key[1]
    PROVE  HoldersOK' /\ WritesOK' /\ DeletesOneTicker'
<1>1. ASSUME NEW u \in Thread \ {t} PROVE HeldOK(th[u])'
  <2>1. HeldOK(th[u])
    BY DEF HoldersOK
  <2> QED BY <2>1 DEF HeldOK
<1>2. HoldersOK'
  BY <1>1 DEF HoldersOK
<1>3. WritesOK'
  BY DEF WritesOK
<1>4. DeletesOneTicker'
  BY DEF DeletesOneTicker, At
<1> QED BY <1>2, <1>3, <1>4

\* Entries dropped and none stored: those left have the causes they had,
\* unless thread t was on its way to drop them, and did.
LEMMA DropStep ==
    ASSUME EntriesExplained, NEW t \in Thread, OnlyDrops, UNCHANGED <<file, changedBy>>,
           \A u \in Thread \ {t} : th'[u] = th[u],
           \/ th[t].pc \notin {"save_invalidate", "delete_next"}
           \/ th'[t].pc = th[t].pc /\ th'[t].key = th[t].key
           \/ \A k \in Key : k[1] = th[t].key[1] => ~cache'[ProcOf[t]][k].held
    PROVE  EntriesExplained'
<1> SUFFICES ASSUME NEW p \in Proc, NEW k \in Key, cache'[p][k].held
             PROVE  cache'[p][k].val = file[k].rows \/ Explained(p, k)'
  BY DEF EntriesExplained
<1>1. cache'[p][k] = cache[p][k]
  BY DEF OnlyDrops
<1>2. cache[p][k].val = file[k].rows \/ Explained(p, k)
  BY <1>1 DEF EntriesExplained
<1>3. ASSUME NEW pc \in {"save_invalidate", "delete_next"}, OnItsWay(p, pc, k[1])
      PROVE  OnItsWay(p, pc, k[1])'
  <2>1. PICK u \in Thread : ProcOf[u] = p /\ At(u, pc) /\ th[u].key[1] = k[1]
    BY <1>3 DEF OnItsWay
  <2>2. ProcOf[u] = p /\ At(u, pc)' /\ th'[u].key[1] = k[1]
    BY <2>1 DEF At
  <2> QED BY <2>2 DEF OnItsWay
<1> QED BY <1>1, <1>2, <1>3 DEF Explained

\* A file changes, by a writer that is not in the middle of an invalidation:
\* it makes the other holders stale and answers for the entries.
LEMMA WriterStep ==
    ASSUME StoreInv, WritersInv, NEW t \in Thread, NEW k \in Key, NEW f \in FileState,
           NEW op \in {"save", "clean", "delete"}, NEW call \in Call, Commit(t, k, f, op, call),
           UNCHANGED cache,
           \A j \in Key \ {k} : want'[j] = want[j] /\ raced'[j] = raced[j],
           HeldOK(th[t])',
           f.state = "ok" => raced'[k] \/ f.rows = want'[k],
           f.state = "absent" => raced'[k] \/ want'[k] = NoRows,
           f.state = "torn" => op = "clean",
           th[t].pc # "save_invalidate",
           th[t].pc = "delete_next" => call.pc = "delete_next" /\ call.key = th[t].key,
           call.pc = "delete_next" => \A j \in call.todo : j[1] = call.key[1],
           op = "save" => call.pc = "save_invalidate" /\ call.key = k,
           op = "delete" => call.pc = "delete_next" /\ call.key[1] = k[1]
    PROVE  WritersInv'
<1>1. op \in Op /\ ProcOf[t] \in Proc
  BY StoreAssumption DEF Op
<1>2. /\ file'[k] = f /\ \A j \in Key \ {k} : file'[j] = file[j]
      /\ th'[t] = call
      /\ \A u \in Thread \ {t} : th'[u].pc = th[u].pc /\ th'[u].key = th[u].key
  BY <1>1, CommitFacts DEF StoreInv
<1>3. changedBy'[k] = <<ProcOf[t], op>> /\ \A j \in Key \ {k} : changedBy'[j] = changedBy[j]
  BY DEF Commit, StoreInv, TypeOK
<1>4. ASSUME NEW u \in Thread \ {t}
      PROVE  IF Holding(th[u]) /\ th[u].key = k
             THEN th'[u] = [th[u] EXCEPT !.stale = TRUE] ELSE th'[u] = th[u]
  BY DEF Commit
<1>5. ASSUME NEW u \in Thread \ {t} PROVE HeldOK(th[u])'
  <2>1. th[u] \in Call /\ HeldOK(th[u])
    BY DEF StoreInv, TypeOK, WritersInv, HoldersOK
  <2>2. CASE Holding(th[u]) /\ th[u].key = k
    <3>1. th'[u].stale
      BY <2>1, <2>2, <1>4 DEF Call
    <3> QED BY <3>1 DEF HeldOK
  <2>3. CASE Holding(th[u]) /\ th[u].key # k
    <3>1. th'[u] = th[u] /\ th[u].key \in Key \ {k}
      BY <2>1, <2>3, <1>4 DEF Call
    <3>2. /\ file'[th[u].key] = file[th[u].key] /\ want'[th[u].key] = want[th[u].key]
          /\ raced'[th[u].key] = raced[th[u].key]
      BY <3>1, <1>2
    <3> QED BY <2>1, <3>1, <3>2 DEF HeldOK
  <2>4. CASE ~Holding(th[u])
    BY <2>4, <1>2 DEF HeldOK, Holding
  <2> QED BY <2>2, <2>3, <2>4
<1>6. HoldersOK'
  BY <1>5 DEF HoldersOK
<1>7. WritesOK'
  <2> SUFFICES ASSUME NEW j \in Key
               PROVE  /\ file'[j].state = "ok" => raced'[j] \/ file'[j].rows = want'[j]
                      /\ file'[j].state = "absent" => raced'[j] \/ want'[j] = NoRows
                      /\ file'[j].state = "torn" => changedBy'[j][2] = "clean"
    BY DEF WritesOK
  <2>1. CASE j = k
    BY <2>1, <1>2, <1>3
  <2>2. CASE j # k
    BY <2>2, <1>2, <1>3 DEF WritersInv, WritesOK
  <2> QED BY <2>1, <2>2
<1>8. DeletesOneTicker'
  <2> SUFFICES ASSUME NEW u \in Thread, th'[u].pc = "delete_next", NEW j \in th'[u].todo
               PROVE  j[1] = th'[u].key[1]
    BY DEF DeletesOneTicker, At
  <2>1. CASE u = t
    BY <2>1, <1>2
  <2>2. CASE u # t
    <3>1. th'[u] = th[u]
      BY <2>2, <1>2, <1>4 DEF Holding
    <3> QED BY <3>1 DEF WritersInv, DeletesOneTicker, At
  <2> QED BY <2>1, <2>2
<1>9. ASSUME NEW p, NEW tk, NEW pc \in {"save_invalidate", "delete_next"}, OnItsWay(p, pc, tk)
      PROVE  OnItsWay(p, pc, tk)'
  <2>1. PICK u \in Thread : ProcOf[u] = p /\ At(u, pc) /\ th[u].key[1] = tk
    BY <1>9 DEF OnItsWay
  <2>2. At(u, pc)' /\ th'[u].key[1] = tk
    BY <2>1, <1>2 DEF At
  <2> QED BY <2>1, <2>2 DEF OnItsWay
<1>10. EntriesExplained'
  <2> SUFFICES ASSUME NEW p \in Proc, NEW j \in Key, cache[p][j].held
               PROVE  cache[p][j].val = file'[j].rows \/ Explained(p, j)'
    BY DEF EntriesExplained
  <2>1. CASE j = k /\ p = ProcOf[t]
    <3>1. At(t, call.pc)' /\ th'[t].key = call.key
      BY <1>2 DEF At
    <3>2. CASE op = "save"
      <4>1. OnItsWay(p, "save_invalidate", j[1])'
        BY <2>1, <3>1, <3>2 DEF OnItsWay
      <4> QED BY <4>1, <2>1, <3>2, <1>3 DEF Explained
    <3>3. CASE op = "delete"
      <4>1. OnItsWay(p, "delete_next", j[1])'
        BY <2>1, <3>1, <3>3 DEF OnItsWay
      <4> QED BY <4>1, <2>1, <3>3, <1>3 DEF Explained
    <3>4. CASE op = "clean"
      BY <2>1, <3>4, <1>3 DEF Explained
    <3> QED BY <3>2, <3>3, <3>4
  <2>2. CASE j = k /\ p # ProcOf[t]
    <3>1. changedBy'[j][1] = ProcOf[t]
      BY <2>2, <1>3
    <3> QED BY <2>2, <3>1 DEF Explained
  <2>3. CASE j # k
    <3>1. file'[j] = file[j] /\ changedBy'[j] = changedBy[j] /\ cache'[p][j] = cache[p][j]
      BY <2>3, <1>2, <1>3
    <3>2. cache[p][j].val = file[j].rows \/ Explained(p, j)
      BY DEF WritersInv, EntriesExplained
    <3> QED BY <3>1, <3>2, <1>9 DEF Explained
  <2> QED BY <2>1, <2>2, <2>3
<1> QED BY <1>6, <1>7, <1>8, <1>10 DEF WritersInv


LEMMA WritersInit == Init => WritersInv
<1> SUFFICES ASSUME Init PROVE WritersInv
  OBVIOUS
<1>1. \A t \in Thread : th[t].pc = "idle"
  BY DEF Init, Idle
<1>2. HoldersOK /\ DeletesOneTicker
  BY <1>1 DEF HoldersOK, HeldOK, DeletesOneTicker, At
<1>3. WritesOK
  <2> SUFFICES ASSUME NEW k \in Key
               PROVE  /\ file[k].state = "ok" => file[k].rows = want[k]
                      /\ file[k].state = "absent" => want[k] = NoRows
                      /\ file[k].state # "torn"
    BY DEF WritesOK
  <2>1. want[k] = file[k].rows /\ file[k] \in {Absent, Complete([d \in Day |-> 1])}
    BY DEF Init
  <2> QED BY <2>1 DEF Absent, Complete
<1>4. EntriesExplained
  BY DEF Init, EmptyCache, Missing, EntriesExplained
<1> QED BY <1>2, <1>3, <1>4 DEF WritersInv

\* A thread moves on: no file changes and no entry is stored.
LEMMA ThreadStep ==
    ASSUME StoreInv, WritersInv, NEW t \in Thread, NEW call \in Call, Goto(t, call),
           UNCHANGED <<file, obs>>, OnlyDrops,
           HeldOK(call),
           call.pc = "delete_next" => \A k \in call.todo : k[1] = call.key[1],
           th[t].pc \notin {"save_invalidate", "delete_next"}
    PROVE  WritersInv'
<1>1. th'[t] = call /\ \A u \in Thread \ {t} : th'[u] = th[u]
  BY GotoFacts DEF StoreInv, TypeOK
<1>2. HeldOK(th[t])'
  BY <1>1 DEF HeldOK, obs
<1>3. HoldersOK' /\ WritesOK' /\ DeletesOneTicker'
  BY <1>1, <1>2, OwnStep DEF WritersInv, obs
<1>4. EntriesExplained'
  BY <1>1, DropStep DEF WritersInv, obs
<1> QED BY <1>3, <1>4 DEF WritersInv

\* A call that returns, or raises, holds nothing.
LEMMA IdleHolds == HeldOK(Idle) /\ Idle.pc = "idle"
  BY DEF HeldOK, Idle

LEMMA WritersReturn ==
    ASSUME StoreInv, WritersInv, NEW t \in Thread, Return(t), UNCHANGED <<now, saves, file, cache, obs>>,
           th[t].pc \notin {"save_invalidate", "delete_next"}
    PROVE  WritersInv'
  BY IdleType, IdleHolds, ThreadStep DEF Return, OnlyDrops

-----------------------------------------------------------------------------
(* load                                                                    *)

LEMMA WritersLoadBegin ==
    ASSUME StoreInv, WritersInv, NEW t \in Thread, NEW k \in Key, LoadBegin(t, k)
    PROVE  WritersInv'
<1> DEFINE call == [Idle EXCEPT !.pc = IF file[k].state = "absent"
                                       THEN "answered" ELSE "load_get", !.key = k]
<1>1. Goto(t, call) /\ UNCHANGED <<now, saves, file, cache, obs>> /\ At(t, "idle")
  BY DEF LoadBegin
<1>2. call \in Call /\ call.pc \in {"answered", "load_get"}
  BY IdleType DEF Call, PCs, Idle
<1>3. HeldOK(call)
  BY <1>2 DEF HeldOK
<1> QED BY <1>1, <1>2, <1>3, ThreadStep DEF At, OnlyDrops

LEMMA WritersLoadGet ==
    ASSUME StoreInv, WritersInv, NEW t \in Thread, LoadGet(t)
    PROVE  WritersInv'
<1> DEFINE p == ProcOf[t]
           k == th[t].key
           call == IF IsFresh(cache[p][k], now)
                   THEN [th[t] EXCEPT !.pc = "answered", !.rows = cache[p][k].val]
                   ELSE [th[t] EXCEPT !.pc = "load_read"]
<1>1. Goto(t, call) /\ UNCHANGED <<now, saves, file, obs>> /\ At(t, "load_get") /\ OnlyDrops
  BY GetFacts DEF LoadGet
<1>2. th[t] \in Call /\ cache[p][k].val \in Rows
  BY StoreAssumption DEF StoreInv, TypeOK, Call
<1>3. call \in Call /\ call.pc \in {"answered", "load_read"}
  BY <1>2 DEF Call, PCs
<1>4. HeldOK(call)
  BY <1>3 DEF HeldOK
<1> QED BY <1>1, <1>3, <1>4, ThreadStep DEF At

LEMMA WritersLoadRead ==
    ASSUME StoreInv, WritersInv, NEW t \in Thread, LoadRead(t)
    PROVE  WritersInv'
<1> DEFINE f == file[th[t].key]
           call == [th[t] EXCEPT !.pc = "load_set", !.rows = f.rows,
                                 !.at = now, !.stale = FALSE]
<1>1. /\ Goto(t, IF f.state = "ok" THEN call ELSE Idle)
      /\ UNCHANGED <<now, saves, file, cache, obs>> /\ At(t, "load_read")
  BY DEF LoadRead
<1>2. th[t] \in Call /\ f \in FileState /\ now \in Nat
  BY DEF StoreInv, TypeOK, Call
<1>3. /\ call \in Call /\ call.pc = "load_set" /\ call.key = th[t].key /\ call.rows = f.rows
  BY <1>2 DEF Call, PCs, FileState
<1>4. HeldOK(call)
  BY <1>3 DEF HeldOK
<1>5. CASE f.state = "ok"
  BY <1>1, <1>3, <1>4, <1>5, ThreadStep DEF At, OnlyDrops
<1>6. CASE f.state # "ok"
  BY <1>1, <1>6, IdleType, IdleHolds, ThreadStep DEF At, OnlyDrops
<1> QED BY <1>5, <1>6

\* What a reader stores is what the file holds, unless it comes late.
LEMMA WritersLoadSet ==
    ASSUME StoreInv, WritersInv, NEW t \in Thread, LoadSet(t)
    PROVE  WritersInv'
<1> DEFINE p == ProcOf[t]
           k == th[t].key
           call == [th[t] EXCEPT !.pc = "answered", !.at = 0, !.stale = FALSE]
<1>1. /\ At(t, "load_set") /\ Goto(t, call)
      /\ UNCHANGED <<now, saves, file, obs>> /\ p \in Proc /\ k \in Key
  BY StoreAssumption DEF LoadSet, StoreInv, TypeOK, Call
<1>2. PICK c \in AfterSet(cache[p], k, th[t].rows, now, th[t].stale, NoRows) :
          cache' = [cache EXCEPT ![p] = c]
  BY DEF LoadSet
<1>3. /\ cache[p] \in [Key -> Entry] /\ th[t] \in Call /\ now \in Nat
      /\ th[t].rows \in Rows /\ th[t].stale \in BOOLEAN
  BY <1>1 DEF StoreInv, TypeOK, Entry, Call
<1>4. /\ c[k].held => c[k] = [held |-> TRUE, val |-> th[t].rows, ts |-> now, late |-> th[t].stale]
      /\ \A j \in Key \ {k} : c[j].held => c[j] = cache[p][j]
  BY <1>1, <1>2, <1>3, SetFacts
<1>5. cache'[p] = c /\ \A q \in Proc \ {p} : cache'[q] = cache[q]
  BY <1>1, <1>2 DEF StoreInv, TypeOK
<1>6. call \in Call /\ call.pc = "answered" /\ HeldOK(call)
  BY <1>3 DEF Call, PCs, HeldOK
<1>7. th'[t] = call /\ \A u \in Thread \ {t} : th'[u] = th[u]
  BY <1>1, <1>6, GotoFacts DEF StoreInv, TypeOK
<1>8. HeldOK(th[t])'
  BY <1>6, <1>7 DEF HeldOK
<1>9. HoldersOK' /\ WritesOK' /\ DeletesOneTicker'
  BY <1>1, <1>6, <1>7, <1>8, OwnStep DEF WritersInv, obs
<1>10. EntriesExplained'
  <2> SUFFICES ASSUME NEW q \in Proc, NEW j \in Key, cache'[q][j].held
               PROVE  cache'[q][j].val = file[j].rows \/ Explained(q, j)'
    BY <1>1 DEF EntriesExplained
  <2>1. CASE q = p /\ j = k
    <3>1. cache'[q][j].val = th[t].rows /\ cache'[q][j].late = th[t].stale
      BY <2>1, <1>4, <1>5
    <3>2. th[t].stale \/ th[t].rows = file[k].rows
      BY <1>1 DEF WritersInv, HoldersOK, HeldOK, At
    <3> QED BY <2>1, <3>1, <3>2 DEF Explained
  <2>2. CASE q # p \/ j # k
    <3>1. cache'[q][j] = cache[q][j]
      BY <2>2, <1>4, <1>5
    <3>2. cache[q][j].val = file[j].rows \/ Explained(q, j)
      BY <3>1 DEF WritersInv, EntriesExplained
    <3>3. ASSUME NEW pc \in {"save_invalidate", "delete_next"}, OnItsWay(q, pc, j[1])
          PROVE  OnItsWay(q, pc, j[1])'
      <4>1. PICK u \in Thread : ProcOf[u] = q /\ At(u, pc) /\ th[u].key[1] = j[1]
        BY <3>3 DEF OnItsWay
      <4>2. u # t /\ th'[u] = th[u]
        BY <4>1, <1>1, <1>7 DEF At
      <4> QED BY <4>1, <4>2 DEF OnItsWay, At
    <3>4. changedBy' = changedBy
      BY <1>1 DEF obs
    <3> QED BY <3>1, <3>2, <3>3, <3>4 DEF Explained
  <2> QED BY <2>1, <2>2
<1> QED BY <1>9, <1>10 DEF WritersInv

-----------------------------------------------------------------------------
(* save                                                                    *)

LEMMA WritersSaveBegin ==
    ASSUME StoreInv, WritersInv, NEW t \in Thread, NEW k \in Key, NEW D \in SUBSET Day,
           SaveBegin(t, k, D)
    PROVE  WritersInv'
<1> DEFINE df == Batch(D, saves + 1)
           call == [Idle EXCEPT !.pc = IF file[k].state = "absent"
                                       THEN "save_put" ELSE "save_read",
                                !.key = k, !.batch = df, !.rows = df]
<1>1. Goto(t, call) /\ UNCHANGED <<now, file, cache, obs>> /\ At(t, "idle")
  BY DEF SaveBegin
<1>2. df \in Rows
  <2>1. saves \in Nat
    BY DEF StoreInv, TypeOK
  <2>2. \A v \in Nat : Batch(D, v) \in Rows
    BY RowFacts
  <2> QED BY <2>1, <2>2
<1>3. /\ call \in Call /\ call.key = k /\ call.rows = df /\ call.batch = df
      /\ call.pc = IF file[k].state = "absent" THEN "save_put" ELSE "save_read"
  <2> HIDE DEF df
  <2> QED BY <1>2, IdleType DEF Idle, Call, PCs
<1>4. HeldOK(call)
  BY <1>3 DEF HeldOK
<1> HIDE DEF call
<1> QED BY <1>1, <1>3, <1>4, ThreadStep DEF At, OnlyDrops

LEMMA WritersSaveRead ==
    ASSUME StoreInv, WritersInv, NEW t \in Thread, SaveRead(t)
    PROVE  WritersInv'
<1> DEFINE f == file[th[t].key]
           call == [th[t] EXCEPT !.pc = "save_put", !.stale = FALSE,
                                 !.rows = Merge(f.rows, th[t].batch)]
<1>1. /\ Goto(t, IF f.state = "ok" THEN call ELSE Idle)
      /\ UNCHANGED <<now, saves, file, cache, obs>> /\ At(t, "save_read")
  BY DEF SaveRead
<1>2. th[t] \in Call /\ f \in FileState
  BY DEF StoreInv, TypeOK, Call
<1>3. Merge(f.rows, th[t].batch) \in Rows
  BY <1>2, RowFacts DEF Call, FileState
<1>4. /\ call \in Call /\ call.pc = "save_put" /\ call.key = th[t].key
      /\ call.batch = th[t].batch /\ call.rows = Merge(f.rows, th[t].batch)
  BY <1>2, <1>3 DEF Call, PCs
<1>5. CASE f.state = "ok"
  <2>1. HeldOK(call)
    BY <1>4, <1>5 DEF HeldOK
  <2> QED BY <1>1, <1>4, <1>5, <2>1, ThreadStep DEF At, OnlyDrops
<1>6. CASE f.state # "ok"
  BY <1>1, <1>6, IdleType, IdleHolds, ThreadStep DEF At, OnlyDrops
<1> QED BY <1>5, <1>6

\* A save that merged with what the file still holds adds its batch to it.
LEMMA WritersSavePut ==
    ASSUME StoreInv, WritersInv, NEW t \in Thread, SavePut(t)
    PROVE  WritersInv'
<1> DEFINE k == th[t].key
           f == Complete(th[t].rows)
           call == [Idle EXCEPT !.pc = "save_invalidate", !.key = k]
<1>1. /\ Commit(t, k, f, "save", call) /\ UNCHANGED cache /\ At(t, "save_put")
      /\ want' = [want EXCEPT ![k] = [d \in Day |-> Latest(want[k][d], th[t].batch[d])]]
      /\ raced' = [raced EXCEPT ![k] = raced[k] \/ th[t].stale]
  BY DEF SavePut
<1>2. /\ th[t] \in Call /\ k \in Key /\ want \in [Key -> Rows] /\ raced \in [Key -> BOOLEAN]
      /\ th[t].batch \in Rows /\ file[k] \in FileState
  BY DEF StoreInv, TypeOK, Call
<1>3. f \in FileState /\ f.state = "ok" /\ f.rows = th[t].rows
  BY <1>2, FileFacts DEF Call, Complete
<1>4. call \in Call /\ call.pc = "save_invalidate" /\ call.key = k
  BY <1>2, IdleType DEF Idle, Call, PCs
<1>5. /\ want'[k] = [d \in Day |-> Latest(want[k][d], th[t].batch[d])]
      /\ (raced'[k] <=> raced[k] \/ th[t].stale)
      /\ \A j \in Key \ {k} : want'[j] = want[j] /\ raced'[j] = raced[j]
  BY <1>1, <1>2
<1>6. raced'[k] \/ f.rows = want'[k]
  <2> SUFFICES ASSUME ~raced[k], ~th[t].stale
               PROVE  th[t].rows = [d \in Day |-> Latest(want[k][d], th[t].batch[d])]
    BY <1>3, <1>5
  <2>1. \/ file[k].state = "ok" /\ th[t].rows = Merge(file[k].rows, th[t].batch)
        \/ file[k].state = "absent" /\ th[t].rows = th[t].batch
    BY <1>1 DEF WritersInv, HoldersOK, HeldOK, At
  <2>2. /\ file[k].state = "ok" => file[k].rows = want[k]
        /\ file[k].state = "absent" => want[k] = NoRows
    BY <1>2 DEF WritersInv, WritesOK
  <2>3. ASSUME th[t].rows = Merge(want[k], th[t].batch)
        PROVE  th[t].rows = [d \in Day |-> Latest(want[k][d], th[t].batch[d])]
    <3>1. \A d \in Day : Latest(want[k][d], th[t].batch[d])
                            = IF th[t].batch[d] # 0 THEN th[t].batch[d] ELSE want[k][d]
      BY DEF Latest
    <3> QED BY <2>3, <3>1 DEF Merge
  <2>4. ASSUME th[t].rows = th[t].batch, want[k] = NoRows
        PROVE  th[t].rows = [d \in Day |-> Latest(want[k][d], th[t].batch[d])]
    <3>1. \A d \in Day : Latest(want[k][d], th[t].batch[d]) = th[t].batch[d]
      BY <2>4, <1>2 DEF Latest, NoRows, Rows
    <3>2. th[t].batch = [d \in Day |-> th[t].batch[d]]
      BY <1>2 DEF Rows
    <3> QED BY <2>4, <3>1, <3>2
  <2> QED BY <2>1, <2>2, <2>3, <2>4
<1>7. HeldOK(th[t])'
  <2>1. th'[t].pc = "save_invalidate"
    BY <1>1, <1>4 DEF Commit
  <2> QED BY <2>1 DEF HeldOK
<1> HIDE DEF k, f, call
<1> QED BY <1>1, <1>2, <1>3, <1>4, <1>5, <1>6, <1>7, WriterStep DEF At

\* The process has dropped what the writer answered for.
LEMMA WritersInvalidate ==
    ASSUME StoreInv, WritersInv, NEW t \in Thread, InvalidateTicker(ProcOf[t], th[t].key[1]),
           Return(t), UNCHANGED <<now, saves, file, obs>>
    PROVE  WritersInv'
<1>1. ProcOf[t] \in Proc
  BY StoreAssumption
<1>2. OnlyDrops
  BY <1>1, DropFacts DEF InvalidateTicker, StoreInv, TypeOK, Entry
<1>3. \A k \in Key : k[1] = th[t].key[1] => ~cache'[ProcOf[t]][k].held
  BY <1>1 DEF InvalidateTicker, WithoutKeys, KeysOf, Missing, StoreInv, TypeOK
<1>4. th'[t] = Idle /\ \A u \in Thread \ {t} : th'[u] = th[u]
  BY ReturnFacts DEF StoreInv, TypeOK
<1>5. HeldOK(th[t])' /\ th'[t].pc # "delete_next"
  <2>1. th'[t].pc = "idle"
    BY <1>4, IdleHolds
  <2> QED BY <2>1 DEF HeldOK
<1>6. HoldersOK' /\ WritesOK' /\ DeletesOneTicker'
  BY <1>4, <1>5, OwnStep DEF WritersInv, obs
<1>7. EntriesExplained'
  BY <1>2, <1>3, <1>4, DropStep DEF WritersInv, obs
<1> QED BY <1>6, <1>7 DEF WritersInv


-----------------------------------------------------------------------------
(* clean                                                                   *)

LEMMA WritersCleanBegin ==
    ASSUME StoreInv, WritersInv, NEW t \in Thread, NEW c \in Cutoff, CleanBegin(t, c)
    PROVE  WritersInv'
<1> DEFINE files == {k \in Key : file[k].state # "absent"}
           found == {k \in files : HasRowBefore(file[k], c)}
           call(scanned) == [Idle EXCEPT !.pc = "clean_next", !.cutoff = c, !.scanned = scanned,
                                         !.todo = IF scanned THEN found ELSE files]
<1>1. PICK scanned \in BOOLEAN : Goto(t, call(scanned))
  BY DEF CleanBegin
<1>2. UNCHANGED <<now, saves, file, cache, obs>> /\ At(t, "idle")
  BY DEF CleanBegin
<1>3. (IF scanned THEN found ELSE files) \in SUBSET Key /\ c \in Int
  BY StoreAssumption
<1>4. call(scanned) \in Call /\ call(scanned).pc = "clean_next"
  <2> HIDE DEF files, found
  <2> QED BY <1>3, IdleType DEF Idle, Call, PCs
<1>5. HeldOK(call(scanned))
  BY <1>4 DEF HeldOK
<1> HIDE DEF call
<1> QED BY <1>1, <1>2, <1>4, <1>5, ThreadStep DEF At, OnlyDrops

\* What clean keeps of a file is what it should hold afterwards.
LEMMA WritersCleanNext ==
    ASSUME StoreInv, WritersInv, NEW t \in Thread, NEW k \in Key, CleanNext(t, k)
    PROVE  WritersInv'
<1> DEFINE kept == Retain(file[k].rows, th[t].cutoff)
           done == [th[t] EXCEPT !.todo = @ \ {k}]
           call == [done EXCEPT !.pc = "clean_open", !.key = k, !.rows = kept,
                                !.stale = FALSE]
<1>1. /\ \/ Goto(t, Idle)
         \/ Goto(t, done)
         \/ file[k].state = "ok" /\ Goto(t, call)
      /\ At(t, "clean_next") /\ UNCHANGED <<now, saves, file, cache, obs>>
  BY DEF CleanNext
<1>2. th[t] \in Call /\ file[k] \in FileState
  BY DEF StoreInv, TypeOK
<1>3. kept \in Rows
  BY <1>2, RowFacts DEF Call, FileState
<1>4. done \in Call /\ done.pc = "clean_next"
  BY <1>1, <1>2 DEF Call, At
<1>5. /\ call \in Call /\ call.pc = "clean_open" /\ call.key = k
      /\ call.rows = Retain(file[k].rows, call.cutoff)
  <2>1. call.rows = kept /\ call.cutoff = th[t].cutoff
    BY <1>2 DEF Call
  <2>2. call \in Call /\ call.pc = "clean_open" /\ call.key = k
    <3> HIDE DEF kept
    <3> QED BY <1>2, <1>3 DEF Call, PCs
  <2> QED BY <2>1, <2>2
<1>6. HeldOK(done)
  BY <1>4 DEF HeldOK
<1>7. CASE Goto(t, Idle)
  BY <1>1, <1>7, IdleType, IdleHolds, ThreadStep DEF At, OnlyDrops
<1>8. CASE Goto(t, done)
  BY <1>1, <1>4, <1>6, <1>8, ThreadStep DEF At, OnlyDrops
<1>9. CASE file[k].state = "ok" /\ Goto(t, call)
  <2> HIDE DEF call
  <2>1. HeldOK(call)
    BY <1>5, <1>9 DEF HeldOK
  <2> QED BY <1>1, <1>5, <1>9, <2>1, ThreadStep DEF At, OnlyDrops
<1> QED BY <1>1, <1>7, <1>8, <1>9

LEMMA WritersCleanOpen ==
    ASSUME StoreInv, WritersInv, NEW t \in Thread, CleanOpen(t)
    PROVE  WritersInv'
<1> DEFINE k == th[t].key
           call == [th[t] EXCEPT !.pc = "clean_write", !.stale = FALSE]
<1>1. /\ Commit(t, k, Torn, "clean", call) /\ UNCHANGED cache /\ At(t, "clean_open")
      /\ want' = [want EXCEPT ![k] = Retain(want[k], th[t].cutoff)]
      /\ raced' = [raced EXCEPT ![k] = raced[k] \/ th[t].stale]
  BY DEF CleanOpen
<1>2. /\ th[t] \in Call /\ k \in Key /\ want \in [Key -> Rows] /\ raced \in [Key -> BOOLEAN]
  BY DEF StoreInv, TypeOK, Call
<1>3. Torn \in FileState /\ Torn.state = "torn"
  BY FileFacts DEF Torn
<1>4. call \in Call /\ call.pc = "clean_write" /\ call.key = k /\ call.rows = th[t].rows
  BY <1>2 DEF Call, PCs
<1>5. /\ want'[k] = Retain(want[k], th[t].cutoff)
      /\ (raced'[k] <=> raced[k] \/ th[t].stale)
      /\ \A j \in Key \ {k} : want'[j] = want[j] /\ raced'[j] = raced[j]
  BY <1>1, <1>2
<1>6. raced'[k] \/ th[t].rows = want'[k]
  <2> SUFFICES ASSUME ~raced[k], ~th[t].stale PROVE th[t].rows = Retain(want[k], th[t].cutoff)
    BY <1>5
  <2>1. file[k].state = "ok" /\ th[t].rows = Retain(file[k].rows, th[t].cutoff)
    BY <1>1 DEF WritersInv, HoldersOK, HeldOK, At
  <2>2. file[k].rows = want[k]
    BY <1>2, <2>1 DEF WritersInv, WritesOK
  <2> QED BY <2>1, <2>2
<1>7. HeldOK(th[t])'
  <2>1. th'[t] = call /\ file'[k] = Torn
    <3> HIDE DEF call
    <3> QED BY <1>1, <1>2 DEF Commit, StoreInv, TypeOK
  <2> HIDE DEF call, k
  <2> QED BY <2>1, <1>3, <1>4, <1>6 DEF HeldOK
<1> HIDE DEF call, k
<1> QED BY <1>1, <1>2, <1>3, <1>4, <1>5, <1>7, WriterStep DEF At

LEMMA WritersCleanWrite ==
    ASSUME StoreInv, WritersInv, NEW t \in Thread, CleanWrite(t)
    PROVE  WritersInv'
<1> DEFINE next == [th[t] EXCEPT !.pc = "clean_next", !.key = AnyKey, !.rows = NoRows,
                                 !.stale = FALSE]
           k == th[t].key
           f == Complete(th[t].rows)
<1>1. /\ UNCHANGED <<now, saves, cache, want, raced>> /\ At(t, "clean_write")
      /\ IF th[t].stale
         THEN Goto(t, next) /\ UNCHANGED <<file, changedAt, changedBy>>
         ELSE Commit(t, k, f, "clean", next)
  BY DEF CleanWrite
<1>2. th[t] \in Call /\ k \in Key
  BY DEF StoreInv, TypeOK, Call
<1>3. next \in Call /\ next.pc = "clean_next"
  BY <1>2, RowFacts, KeyFacts DEF Call, PCs
<1> HIDE DEF next
<1>4. CASE th[t].stale
  <2>1. HeldOK(next)
    BY <1>3 DEF HeldOK
  <2> QED BY <1>1, <1>3, <1>4, <2>1, ThreadStep DEF At, OnlyDrops, obs
<1>5. CASE ~th[t].stale
  <2>1. f \in FileState /\ f.state = "ok" /\ f.rows = th[t].rows
    BY <1>2, FileFacts DEF Call, Complete
  <2>2. raced[k] \/ th[t].rows = want[k]
    BY <1>1, <1>5 DEF WritersInv, HoldersOK, HeldOK, At
  <2>3. Commit(t, k, f, "clean", next)
    BY <1>1, <1>5
  <2>4. HeldOK(th[t])'
    <3>1. th'[t].pc = "clean_next"
      BY <1>3, <2>3 DEF Commit
    <3> QED BY <3>1 DEF HeldOK
  <2> HIDE DEF k, f
  <2> QED BY <1>1, <1>2, <1>3, <2>1, <2>2, <2>3, <2>4, WriterStep DEF At
<1> QED BY <1>4, <1>5

-----------------------------------------------------------------------------
(* delete_ticker                                                           *)

LEMMA WritersDeleteBegin ==
    ASSUME StoreInv, WritersInv, NEW t \in Thread, NEW tk \in Ticker, DeleteBegin(t, tk)
    PROVE  WritersInv'
<1> DEFINE any == CHOOSE k \in KeysOf(tk) : TRUE
           todo == {k \in KeysOf(tk) : file[k].state # "absent"}
           call == [Idle EXCEPT !.pc = "delete_next", !.key = any, !.todo = todo]
<1>1. Goto(t, call) /\ UNCHANGED <<now, saves, file, cache, obs>> /\ At(t, "idle")
  BY DEF DeleteBegin
<1>2. any \in KeysOf(tk) /\ todo \in SUBSET KeysOf(tk)
  <2>1. PICK i : i \in Interval
    BY StoreAssumption DEF Key
  <2>2. <<tk, i>> \in KeysOf(tk)
    BY <2>1 DEF KeysOf, Key
  <2> QED BY <2>2
<1>3. any \in Key /\ any[1] = tk /\ todo \in SUBSET Key /\ \A k \in todo : k[1] = tk
  <2> HIDE DEF any, todo
  <2> QED BY <1>2 DEF KeysOf
<1>4. call \in Call /\ call.pc = "delete_next" /\ call.key = any /\ call.todo = todo
  <2> HIDE DEF any, todo
  <2> QED BY <1>3, IdleType DEF Idle, Call, PCs
<1>5. HeldOK(call)
  BY <1>4 DEF HeldOK
<1> HIDE DEF any, todo, call
<1> QED BY <1>1, <1>3, <1>4, <1>5, ThreadStep DEF At, OnlyDrops

\* A delete that raises marks what it leaves behind in its own process.
LEMMA WritersDeleteRaises ==
    ASSUME StoreInv, WritersInv, NEW t \in Thread, NEW k \in Key, At(t, "delete_next"),
           k[1] = th[t].key[1], Return(t), changedBy' = NotInvalidated(ProcOf[t], k[1]),
           UNCHANGED <<file, cache, want, raced>>
    PROVE  WritersInv'
<1> DEFINE p == ProcOf[t]
<1>1. th'[t] = Idle /\ \A u \in Thread \ {t} : th'[u] = th[u]
  BY ReturnFacts DEF StoreInv, TypeOK
<1>2. ASSUME NEW j \in Key
      PROVE  changedBy'[j] = IF j[1] = k[1] /\ changedBy[j] = <<p, "delete">>
                             THEN <<p, "failed_delete">> ELSE changedBy[j]
  BY DEF NotInvalidated
<1>3. ASSUME NEW u \in Thread PROVE HeldOK(th[u])'
  <2>1. CASE u = t
    BY <1>1, <2>1, IdleHolds DEF HeldOK
  <2>2. CASE u # t
    BY <1>1, <2>2 DEF WritersInv, HoldersOK, HeldOK
  <2> QED BY <2>1, <2>2
<1>4. HoldersOK'
  BY <1>3 DEF HoldersOK
<1>5. WritesOK'
  <2> SUFFICES ASSUME NEW j \in Key, file[j].state = "torn" PROVE changedBy'[j][2] = "clean"
    BY DEF WritersInv, WritesOK
  <2>1. changedBy[j][2] = "clean"
    BY DEF WritersInv, WritesOK
  <2>2. changedBy[j] # <<p, "delete">>
    BY <2>1
  <2> QED BY <1>2, <2>1, <2>2
<1>6. DeletesOneTicker'
  <2> SUFFICES ASSUME NEW u \in Thread, th'[u].pc = "delete_next", NEW j \in th'[u].todo
               PROVE  j[1] = th'[u].key[1]
    BY DEF DeletesOneTicker, At
  <2>1. u # t
    BY <1>1, IdleHolds
  <2> QED BY <1>1, <2>1 DEF WritersInv, DeletesOneTicker, At
<1>7. EntriesExplained'
  <2> SUFFICES ASSUME NEW q \in Proc, NEW j \in Key, cache[q][j].held, cache[q][j].val # file[j].rows
               PROVE  Explained(q, j)'
    BY DEF EntriesExplained
  <2>1. Explained(q, j) /\ changedBy[j] \in Proc \X Op
    BY DEF WritersInv, EntriesExplained, StoreInv, TypeOK, Op
  <2>2. ASSUME NEW pc \in {"save_invalidate", "delete_next"}, OnItsWay(q, pc, j[1]),
               pc = "save_invalidate" \/ q # p \/ j[1] # k[1]
        PROVE  OnItsWay(q, pc, j[1])'
    <3>1. PICK u \in Thread : ProcOf[u] = q /\ At(u, pc) /\ th[u].key[1] = j[1]
      BY <2>2 DEF OnItsWay
    <3>2. u # t
      BY <2>2, <3>1 DEF At
    <3> QED BY <1>1, <3>1, <3>2 DEF OnItsWay, At
  <2>3. CASE j[1] = k[1] /\ changedBy[j] = <<p, "delete">>
    <3>1. changedBy'[j] = <<p, "failed_delete">>
      BY <1>2, <2>3
    <3>2. changedBy'[j][2] = "failed_delete"
      BY <3>1
    <3> QED BY <3>2 DEF Explained
  <2>4. CASE ~(j[1] = k[1] /\ changedBy[j] = <<p, "delete">>)
    <3>1. changedBy'[j] = changedBy[j]
      BY <1>2, <2>4
    <3>2. changedBy[j][1] = q /\ changedBy[j][2] = "delete" => q # p \/ j[1] # k[1]
      <4>1. changedBy[j] = <<changedBy[j][1], changedBy[j][2]>>
        BY <2>1
      <4> QED BY <2>4, <4>1
    <3> QED BY <2>1, <2>2, <3>1, <3>2 DEF Explained
  <2> QED BY <2>3, <2>4
<1> QED BY <1>4, <1>5, <1>6, <1>7 DEF WritersInv

LEMMA WritersDeleteNext ==
    ASSUME StoreInv, WritersInv, NEW t \in Thread, DeleteNext(t)
    PROVE  WritersInv'
<1> DEFINE call(k) == [th[t] EXCEPT !.todo = @ \ {k}]
<1>1. PICK k \in th[t].todo :
          IF file[k].state = "absent"
          THEN /\ Return(t) /\ changedBy' = NotInvalidated(ProcOf[t], k[1])
               /\ UNCHANGED <<file, changedAt, want, raced>>
          ELSE /\ Commit(t, k, Absent, "delete", call(k))
               /\ want' = [want EXCEPT ![k] = NoRows]
               /\ raced' = [raced EXCEPT ![k] = FALSE]
  BY DEF DeleteNext
<1>2. UNCHANGED <<now, saves, cache>> /\ At(t, "delete_next")
  BY DEF DeleteNext
<1>3. th[t] \in Call /\ k \in Key
  BY DEF StoreInv, TypeOK, Call
<1>4. k[1] = th[t].key[1] /\ \A j \in th[t].todo : j[1] = th[t].key[1]
  BY <1>2 DEF WritersInv, DeletesOneTicker
<1>5. CASE file[k].state = "absent"
  BY <1>1, <1>2, <1>3, <1>4, <1>5, WritersDeleteRaises
<1>6. CASE file[k].state # "absent"
  <2>1. /\ call(k) \in Call /\ call(k).pc = "delete_next" /\ call(k).key = th[t].key
        /\ \A j \in call(k).todo : j \in th[t].todo
    BY <1>2, <1>3 DEF Call, At
  <2>2. Absent \in FileState /\ Absent.state = "absent"
    BY FileFacts DEF Absent
  <2>3. /\ want'[k] = NoRows
        /\ \A j \in Key \ {k} : want'[j] = want[j] /\ raced'[j] = raced[j]
    BY <1>1, <1>3, <1>6 DEF StoreInv, TypeOK
  <2>4. Commit(t, k, Absent, "delete", call(k))
    BY <1>1, <1>6
  <2>5. HeldOK(th[t])'
    <3>1. th'[t].pc = "delete_next"
      BY <2>1, <2>4 DEF Commit
    <3> QED BY <3>1 DEF HeldOK
  <2> HIDE DEF call
  <2> QED BY <1>2, <1>3, <1>4, <2>1, <2>2, <2>3, <2>4, <2>5, WriterStep DEF At
<1> QED BY <1>5, <1>6

-----------------------------------------------------------------------------
(* The environment, and the writers' theorems.                             *)

LEMMA WritersCrash ==
    ASSUME StoreInv, WritersInv, NEW p \in Proc, Crash(p)
    PROVE  WritersInv'
<1>1. /\ UNCHANGED <<file, changedBy, want, raced>>
      /\ \A t \in Thread : th'[t] = IF ProcOf[t] = p THEN Idle ELSE th[t]
  BY DEF Crash, obs
<1>2. /\ \A k \in Key : ~cache'[p][k].held
      /\ \A q \in Proc \ {p} : cache'[q] = cache[q]
  BY DEF Crash, EmptyCache, Missing, StoreInv, TypeOK
<1>3. ASSUME NEW u \in Thread PROVE HeldOK(th[u])'
  <2>1. CASE ProcOf[u] = p
    BY <1>1, <2>1, IdleHolds DEF HeldOK
  <2>2. CASE ProcOf[u] # p
    BY <1>1, <2>2 DEF WritersInv, HoldersOK, HeldOK
  <2> QED BY <2>1, <2>2
<1>4. HoldersOK'
  BY <1>3 DEF HoldersOK
<1>5. WritesOK'
  BY <1>1 DEF WritersInv, WritesOK
<1>6. DeletesOneTicker'
  BY <1>1, IdleHolds DEF WritersInv, DeletesOneTicker, At
<1>7. EntriesExplained'
  <2> SUFFICES ASSUME NEW q \in Proc, NEW k \in Key, cache'[q][k].held
               PROVE  cache'[q][k].val = file[k].rows \/ Explained(q, k)'
    BY <1>1 DEF EntriesExplained
  <2>1. q # p /\ cache'[q] = cache[q]
    BY <1>2
  <2>2. ASSUME NEW pc, OnItsWay(q, pc, k[1]) PROVE OnItsWay(q, pc, k[1])'
    <3>1. PICK u \in Thread : ProcOf[u] = q /\ At(u, pc) /\ th[u].key[1] = k[1]
      BY <2>2 DEF OnItsWay
    <3>2. th'[u] = th[u]
      BY <1>1, <2>1, <3>1
    <3> QED BY <3>1, <3>2 DEF OnItsWay, At
  <2>3. cache[q][k].val = file[k].rows \/ Explained(q, k)
    BY <2>1 DEF WritersInv, EntriesExplained
  <2> QED BY <1>1, <2>1, <2>2, <2>3 DEF Explained
<1> QED BY <1>4, <1>5, <1>6, <1>7 DEF WritersInv

LEMMA WritersQuiet ==
    ASSUME WritersInv, UNCHANGED <<file, cache, th, obs>>
    PROVE  WritersInv'
<1>1. UNCHANGED <<changedBy, want, raced>>
  BY DEF obs
<1>2. HoldersOK'
  BY <1>1 DEF WritersInv, HoldersOK, HeldOK
<1>3. WritesOK' /\ DeletesOneTicker'
  BY <1>1 DEF WritersInv, WritesOK, DeletesOneTicker, At
<1>4. ASSUME NEW p \in Proc, NEW k \in Key, Explained(p, k) PROVE Explained(p, k)'
  BY <1>1, <1>4 DEF Explained, OnItsWay, At
<1>5. EntriesExplained'
  BY <1>4 DEF WritersInv, EntriesExplained
<1> QED BY <1>2, <1>3, <1>5 DEF WritersInv

LEMMA WritersStep == StoreInv /\ WritersInv /\ [Next]_vars => WritersInv'
<1> SUFFICES ASSUME StoreInv, WritersInv, [Next]_vars PROVE WritersInv'
  OBVIOUS
<1>1. ASSUME NEW t \in Thread, NEW k \in Key, LoadBegin(t, k) PROVE WritersInv'
  BY <1>1, WritersLoadBegin
<1>2. ASSUME NEW t \in Thread, LoadGet(t) \/ LoadRead(t) \/ LoadSet(t) PROVE WritersInv'
  BY <1>2, WritersLoadGet, WritersLoadRead, WritersLoadSet
<1>3. ASSUME NEW t \in Thread, LoadReturn(t) \/ SaveFail(t) \/ CleanFail(t) \/ CleanEnd(t)
      PROVE  WritersInv'
  <2>1. /\ th[t].pc \notin {"save_invalidate", "delete_next"}
        /\ Return(t) /\ UNCHANGED <<now, saves, file, cache, obs>>
    BY <1>3 DEF LoadReturn, SaveFail, CleanFail, CleanEnd, At
  <2> QED BY <2>1, WritersReturn
<1>4. ASSUME NEW t \in Thread, NEW k \in Key, NEW D \in SUBSET Day \ {{}}, SaveBegin(t, k, D)
      PROVE  WritersInv'
  BY <1>4, WritersSaveBegin
<1>5. ASSUME NEW t \in Thread, SaveRead(t) \/ SavePut(t) PROVE WritersInv'
  BY <1>5, WritersSaveRead, WritersSavePut
<1>6. ASSUME NEW t \in Thread, SaveInvalidate(t) \/ DeleteInvalidate(t) PROVE WritersInv'
  BY <1>6, WritersInvalidate DEF SaveInvalidate, DeleteInvalidate
<1>7. ASSUME NEW t \in Thread, NEW c \in Cutoff, CleanBegin(t, c) PROVE WritersInv'
  BY <1>7, WritersCleanBegin
<1>8. ASSUME NEW t \in Thread, NEW k \in Key, CleanNext(t, k) PROVE WritersInv'
  BY <1>8, WritersCleanNext
<1>9. ASSUME NEW t \in Thread, CleanOpen(t) \/ CleanWrite(t) PROVE WritersInv'
  BY <1>9, WritersCleanOpen, WritersCleanWrite
<1>10. ASSUME NEW t \in Thread, NEW tk \in Ticker, DeleteBegin(t, tk) PROVE WritersInv'
  BY <1>10, WritersDeleteBegin
<1>11. ASSUME NEW t \in Thread, DeleteNext(t) PROVE WritersInv'
  BY <1>11, WritersDeleteNext
<1>12. ASSUME NEW p \in Proc, Crash(p) PROVE WritersInv'
  BY <1>12, WritersCrash
<1>13. CASE Tick \/ UNCHANGED vars
  BY <1>13, WritersQuiet DEF Tick, vars, obs
<1> QED BY <1>1, <1>2, <1>3, <1>4, <1>5, <1>6, <1>7, <1>8, <1>9, <1>10, <1>11, <1>12, <1>13
        DEF Next

LEMMA WritersInvariant == Spec => [](StoreInv /\ WritersInv)
<1>1. Init => StoreInv /\ WritersInv
  BY StoreInit, WritersInit
<1>2. (StoreInv /\ WritersInv) /\ [Next]_vars => (StoreInv /\ WritersInv)'
  BY StoreStep, WritersStep
<1> QED BY <1>1, <1>2, PTL DEF Spec

\* An entry that differs from its file was stored by an overtaken reader, or
\* the change was made by another process, by clean or by a delete that
\* raised, or the writer is still on its way to invalidate_cache.
THEOREM StoreEntriesExplained == Spec => []StaleEntryExplained
<1>1. WritersInv => StaleEntryExplained
  <2> SUFFICES ASSUME WritersInv, NEW p \in Proc, NEW k \in Key,
                      cache[p][k].held, cache[p][k].val # file[k].rows
               PROVE  \/ cache[p][k].late
                      \/ changedBy[k][1] # p
                      \/ changedBy[k][2] \in {"clean", "failed_delete"}
                      \/ \E t \in Thread : /\ ProcOf[t] = p
                                          /\ th[t].pc \in {"save_invalidate", "delete_next"}
                                          /\ th[t].key[1] = k[1]
    BY DEF StaleEntryExplained
  <2>1. Explained(p, k)
    BY DEF WritersInv, EntriesExplained
  <2>2. ASSUME NEW pc \in {"save_invalidate", "delete_next"}, OnItsWay(p, pc, k[1])
        PROVE  \E t \in Thread : /\ ProcOf[t] = p
                                /\ th[t].pc \in {"save_invalidate", "delete_next"}
                                /\ th[t].key[1] = k[1]
    BY <2>2 DEF OnItsWay, At
  <2> QED BY <2>1, <2>2 DEF Explained
<1> QED BY <1>1, WritersInvariant, PTL

\* Writers that do not overlap lose nothing, whatever crashes in between, and
\* only clean leaves a file that cannot be read.
THEOREM StoreWritesKept == Spec => []UncontendedWritesKept
<1>1. WritersInv => UncontendedWritesKept
  BY DEF WritersInv, WritesOK, UncontendedWritesKept
<1> QED BY <1>1, WritersInvariant, PTL
=============================================================================
