----------------------------- MODULE OhlcvStore -----------------------------
(***************************************************************************)
(* The OHLCV parquet store (store.py) with the in-memory cache in front of *)
(* its readers (cache.py).                                                 *)
(*                                                                         *)
(* The data directory is shared by the processes of Proc: the API server,  *)
(* whose endpoints run load, clean and delete_ticker on worker threads,    *)
(* and command-line processes, which run save and clean.  Each process has *)
(* its own cache.  save, clean and delete_ticker take no lock, so each of  *)
(* them is a sequence of steps, one per access to the file system or to    *)
(* the cache.                                                              *)
(*                                                                         *)
(* A file holds a version number per day, 0 meaning that there is no row:  *)
(* the version stands for the prices, and a save writes the same new       *)
(* version to every day of its batch.  A file in state "torn" has been     *)
(* opened for writing in place and read_parquet raises on it.              *)
(***************************************************************************)
EXTENDS TtlCache

CONSTANTS
    Proc,       \* processes with the store module loaded
    Thread,     \* threads that call the store
    ProcOf,     \* ProcOf[t]: the process of thread t
    Loader, Saver, Cleaner, Deleter,    \* the threads that run each function
    Ticker,     \* sanitised ticker names
    Interval,   \* bar intervals, numbered in the order of their file names
    Fetched,    \* the intervals that are saved: "1d" by fetch, any by backfill
    Day,        \* trading days, as integers
    Cutoff,     \* the first days that clean may be told to keep
    MaxIO,      \* longest time between a read and what the reader does with it
    MaxTime,    \* bound on the clock
    MaxSaves    \* bound on the version numbers: 1 is in the initial files

Key == Ticker \X Interval
KeysOf(tk) == {k \in Key : k[1] = tk}

ASSUME StoreAssumption ==
    /\ ProcOf \in [Thread -> Proc]
    /\ Loader \subseteq Thread /\ Saver \subseteq Thread
    /\ Cleaner \subseteq Thread /\ Deleter \subseteq Thread
    /\ Interval \subseteq Int /\ Day \subseteq Int /\ Cutoff \subseteq Int
    /\ MaxIO \in Nat /\ MaxTime \in Nat /\ MaxSaves \in Nat
    /\ Key # {} /\ Proc # {}

VARIABLES
    now,        \* time.monotonic(), in ticks
    saves,      \* the last version number given to a save
    file,       \* file[k]: the parquet file of ticker k[1], interval k[2]
    cache,      \* cache[p]: the store module's _cache in process p
    th,         \* th[t]: the call thread t is executing
    (***********************************************************************)
    (* Observations, which no guard of the program reads                   *)
    (***********************************************************************)
    changedAt,  \* changedAt[k]: when the file last changed
    changedBy,  \* changedBy[k]: the process and function that changed it last
    want,       \* want[k]: the content if every writer had run alone
    raced       \* raced[k]: a writer replaced a content it had not read

obs == <<changedAt, changedBy, want, raced>>
vars == <<now, saves, file, cache, th, changedAt, changedBy, want, raced>>

-----------------------------------------------------------------------------
Rows == [Day -> Nat]
NoRows == [d \in Day |-> 0]

\* What a day should hold after a save that gives it version new (0: none).
Latest(old, new) == IF new = 0 THEN old ELSE new

\* Mutant: duplicated(keep="first").
MergeKeepFirst(existing, df) ==
    [d \in Day |-> IF existing[d] # 0 THEN existing[d] ELSE df[d]]

\* pd.concat([existing, df]) with duplicated index labels dropped but the last.
Merge(existing, df) == [d \in Day |-> IF df[d] # 0 THEN df[d] ELSE existing[d]]

\* df[df.index >= cutoff]
Retain(rows, cutoff) == [d \in Day |-> IF d >= cutoff THEN rows[d] ELSE 0]

Absent == [state |-> "absent", rows |-> NoRows]
Torn == [state |-> "torn", rows |-> NoRows]
Complete(rows) == [state |-> "ok", rows |-> rows]
FileState == [state : {"absent", "ok", "torn"}, rows : Rows]

PCs == {"idle", "answered",
        "load_get", "load_read", "load_set",
        "save_read", "save_put", "save_invalidate",
        "clean_next", "clean_open", "clean_write",
        "delete_next"}

AnyKey == CHOOSE k \in Key : TRUE

\* A call: "rows" is the data frame it holds, "batch" what save was given,
\* "at" when it read, "todo" the files left of a scan, "scanned" whether the
\* DuckDB scan of clean succeeded.  "stale": the file at its path is no longer
\* the one it read, or the one it has open.
Call == [pc : PCs, key : Key, rows : Rows, batch : Rows, cutoff : Int, at : Nat,
         todo : SUBSET Key, scanned : BOOLEAN, stale : BOOLEAN]

Idle == [pc |-> "idle", key |-> AnyKey, rows |-> NoRows, batch |-> NoRows,
         cutoff |-> 0, at |-> 0, todo |-> {}, scanned |-> FALSE, stale |-> FALSE]

TypeOK ==
    /\ now \in Nat
    /\ saves \in Nat
    /\ file \in [Key -> FileState]
    /\ cache \in [Proc -> [Key -> [held : BOOLEAN, val : Rows, ts : Nat,
                                   late : BOOLEAN]]]
    /\ th \in [Thread -> Call]
    /\ changedAt \in [Key -> Nat]
    /\ changedBy \in [Key -> Proc \X {"save", "clean", "delete", "failed_delete"}]
    /\ want \in [Key -> Rows]
    /\ raced \in [Key -> BOOLEAN]

\* The processes start on a data directory left by earlier ones.
Init ==
    /\ now = 0
    /\ saves = 1
    /\ file \in [Key -> {Absent, Complete([d \in Day |-> 1])}]
    /\ cache = [p \in Proc |-> EmptyCache(Key, NoRows)]
    /\ th = [t \in Thread |-> Idle]
    /\ changedAt = [k \in Key |-> 0]
    /\ changedBy = [k \in Key |-> <<CHOOSE p \in Proc : TRUE, "save">>]
    /\ want = [k \in Key |-> file[k].rows]
    /\ raced = [k \in Key |-> FALSE]

-----------------------------------------------------------------------------
(* Steps of a thread.                                                      *)

At(t, pc) == th[t].pc = pc
Goto(t, call) == th' = [th EXCEPT ![t] = call]

\* The call raised, or returned: nothing of it remains in the thread.
Return(t) == Goto(t, Idle)

\* The calls that hold the content of a file they read, or have it open.
Holding(call) == call.pc \in {"load_set", "save_put", "clean_open", "clean_write"}

\* Thread t changes file k to f: every other call that read or opened the
\* file now holds something else than what is at the path.
Commit(t, k, f, op, call) ==
    /\ file' = [file EXCEPT ![k] = f]
    /\ changedAt' = [changedAt EXCEPT ![k] = now]
    /\ changedBy' = [changedBy EXCEPT ![k] = <<ProcOf[t], op>>]
    /\ th' = [u \in Thread |->
                IF u = t THEN call
                ELSE IF Holding(th[u]) /\ th[u].key = k THEN [th[u] EXCEPT !.stale = TRUE]
                ELSE th[u]]

\* Mutant: the key of one interval is deleted instead of the prefix.
InvalidateOneKey(p, tk) ==
    cache' = [cache EXCEPT ![p] = WithoutKeys(@, {CHOOSE k \in KeysOf(tk) : TRUE}, NoRows)]

\* invalidate_cache(ticker): drop every key that starts with "<ticker>:".
InvalidateTicker(p, tk) ==
    cache' = [cache EXCEPT ![p] = WithoutKeys(@, KeysOf(tk), NoRows)]

-----------------------------------------------------------------------------
(* load(ticker, interval=...)                                              *)

\* "if not path.exists(): return pd.DataFrame()"
LoadBegin(t, k) ==
    /\ t \in Loader /\ At(t, "idle")
    /\ Goto(t, [Idle EXCEPT !.pc = IF file[k].state = "absent"
                                   THEN "answered" ELSE "load_get",
                            !.key = k])
    /\ UNCHANGED <<now, saves, file, cache, obs>>

\* _cache.get(key): answer a fresh entry, delete one that has expired.
LoadGet(t) ==
    LET p == ProcOf[t]
        k == th[t].key
        hit == IsFresh(cache[p][k], now)
    IN  /\ At(t, "load_get")
        /\ cache' = [cache EXCEPT ![p] = AfterGet(@, k, now, NoRows)]
        /\ Goto(t, IF hit
                   THEN [th[t] EXCEPT !.pc = "answered", !.rows = cache[p][k].val]
                   ELSE [th[t] EXCEPT !.pc = "load_read"])
        /\ UNCHANGED <<now, saves, file, obs>>

\* pd.read_parquet(path), which raises if the file is gone or not complete.
LoadRead(t) ==
    LET f == file[th[t].key]
    IN  /\ At(t, "load_read")
        /\ Goto(t, IF f.state = "ok"
                   THEN [th[t] EXCEPT !.pc = "load_set", !.rows = f.rows,
                                      !.at = now, !.stale = FALSE]
                   ELSE Idle)
        /\ UNCHANGED <<now, saves, file, cache, obs>>

\* _cache.set(key, df), after which load answers with df.
LoadSet(t) ==
    LET p == ProcOf[t]
        call == th[t]
    IN  /\ At(t, "load_set")
        /\ \E c \in AfterSet(cache[p], call.key, call.rows, now, call.stale, NoRows) :
               cache' = [cache EXCEPT ![p] = c]
        /\ Goto(t, [call EXCEPT !.pc = "answered", !.at = 0, !.stale = FALSE])
        /\ UNCHANGED <<now, saves, file, obs>>

\* The caller has the data frame.
LoadReturn(t) ==
    /\ At(t, "answered")
    /\ Return(t)
    /\ UNCHANGED <<now, saves, file, cache, obs>>

-----------------------------------------------------------------------------
(* save(ticker, df, interval=...)                                          *)

Batch(D, version) == [d \in Day |-> IF d \in D THEN version ELSE 0]

\* path.exists() decides whether there is something to merge with.
SaveBegin(t, k, D) ==
    LET df == Batch(D, saves + 1)
    IN  /\ t \in Saver /\ At(t, "idle")
        /\ k[2] \in Fetched
        /\ saves < MaxSaves
        /\ saves' = saves + 1
        /\ Goto(t, [Idle EXCEPT !.pc = IF file[k].state = "absent"
                                       THEN "save_put" ELSE "save_read",
                                !.key = k, !.batch = df, !.rows = df])
        /\ UNCHANGED <<now, file, cache, obs>>

\* pd.read_parquet(path) and the merge; a missing or torn file makes it raise.
SaveRead(t) ==
    LET f == file[th[t].key]
    IN  /\ At(t, "save_read")
        /\ Goto(t, IF f.state = "ok"
                   THEN [th[t] EXCEPT !.pc = "save_put", !.stale = FALSE,
                                      !.rows = Merge(f.rows, th[t].batch)]
                   ELSE Idle)
        /\ UNCHANGED <<now, saves, file, cache, obs>>

\* The temporary file is complete and Path.replace puts it at the path.
SavePut(t) ==
    LET call == th[t]
        k == call.key
    IN  /\ At(t, "save_put")
        /\ Commit(t, k, Complete(call.rows), "save",
                  [Idle EXCEPT !.pc = "save_invalidate", !.key = k])
        /\ want' = [want EXCEPT ![k] = [d \in Day |-> Latest(@[d], call.batch[d])]]
        /\ raced' = [raced EXCEPT ![k] = @ \/ call.stale]
        /\ UNCHANGED <<now, saves, cache>>

\* Writing or replacing raises: the temporary file is unlinked, save re-raises.
SaveFail(t) ==
    /\ At(t, "save_put")
    /\ Return(t)
    /\ UNCHANGED <<now, saves, file, cache, obs>>

SaveInvalidate(t) ==
    /\ At(t, "save_invalidate")
    /\ InvalidateTicker(ProcOf[t], th[t].key[1])
    /\ Return(t)
    /\ UNCHANGED <<now, saves, file, obs>>

-----------------------------------------------------------------------------
(* clean(keep_days): rewrite in place every file with a row before cutoff. *)

HasRowBefore(f, cutoff) == Retain(f.rows, cutoff) # f.rows

\* The DuckDB scan lists the files with stale rows.  It fails for any torn
\* file, and may fail for other reasons; then every file is looked at.
CleanBegin(t, cutoff) ==
    LET files == {k \in Key : file[k].state # "absent"}
        found == {k \in files : HasRowBefore(file[k], cutoff)}
    IN  /\ t \in Cleaner /\ At(t, "idle")
        /\ files # {}
        /\ \E scanned \in BOOLEAN :
              /\ scanned => \A k \in files : file[k].state = "ok"
              /\ Goto(t, [Idle EXCEPT !.pc = "clean_next", !.cutoff = cutoff,
                                      !.scanned = scanned,
                                      !.todo = IF scanned THEN found ELSE files])
        /\ UNCHANGED <<now, saves, file, cache, obs>>

\* The next file of the loop: skipped if a scanned file is gone or if nothing
\* would be removed.  The whole call raises if the file cannot be read, which a
\* scanned one cannot either when it went between path.exists() and the read.
CleanNext(t, k) ==
    LET call == th[t]
        f == file[k]
        kept == Retain(f.rows, call.cutoff)
        done == [call EXCEPT !.todo = @ \ {k}]
    IN  /\ At(t, "clean_next")
        /\ k \in call.todo
        /\ \/ f.state = "absent" /\ call.scanned /\ Goto(t, done)
           \/ f.state # "ok" /\ Goto(t, Idle)
           \/ f.state = "ok" /\ kept = f.rows /\ Goto(t, done)
           \/ /\ f.state = "ok" /\ kept # f.rows
              /\ Goto(t, [done EXCEPT !.pc = "clean_open", !.key = k, !.rows = kept,
                                      !.stale = FALSE])
        /\ UNCHANGED <<now, saves, file, cache, obs>>

\* df.to_parquet(path) opens the path itself for writing, which truncates the
\* file that is there now, or creates one.
CleanOpen(t) ==
    LET call == th[t]
        k == call.key
    IN  /\ At(t, "clean_open")
        /\ Commit(t, k, Torn, "clean",
                  [call EXCEPT !.pc = "clean_write", !.stale = FALSE])
        /\ want' = [want EXCEPT ![k] = Retain(@, call.cutoff)]
        /\ raced' = [raced EXCEPT ![k] = @ \/ call.stale]
        /\ UNCHANGED <<now, saves, cache>>

\* The rows are written.  If the path was replaced or unlinked meanwhile, they
\* went to a file that no longer has a name.
CleanWrite(t) ==
    LET call == th[t]
        next == [call EXCEPT !.pc = "clean_next", !.key = AnyKey, !.rows = NoRows,
                             !.stale = FALSE]
    IN  /\ At(t, "clean_write")
        /\ IF call.stale
           THEN Goto(t, next) /\ UNCHANGED <<file, changedAt, changedBy>>
           ELSE Commit(t, call.key, Complete(call.rows), "clean", next)
        /\ UNCHANGED <<now, saves, cache, want, raced>>

\* Writing raises (a full disk): the file stays as far as it got.
CleanFail(t) ==
    /\ At(t, "clean_write")
    /\ Return(t)
    /\ UNCHANGED <<now, saves, file, cache, obs>>

\* clean returns without touching any cache.
CleanEnd(t) ==
    /\ At(t, "clean_next")
    /\ th[t].todo = {}
    /\ Return(t)
    /\ UNCHANGED <<now, saves, file, cache, obs>>

-----------------------------------------------------------------------------
(* delete_ticker(ticker)                                                   *)

DeleteBegin(t, tk) ==
    /\ t \in Deleter /\ At(t, "idle")
    /\ Goto(t, [Idle EXCEPT !.pc = "delete_next", !.key = CHOOSE k \in KeysOf(tk) : TRUE,
                            !.todo = {k \in KeysOf(tk) : file[k].state # "absent"}])
    /\ UNCHANGED <<now, saves, file, cache, obs>>

\* Observed when a delete raises half way: the files that were deleted by
\* process p, and whose cache entries nobody may come to drop.
NotInvalidated(p, tk) ==
    [k \in Key |-> IF k[1] = tk /\ changedBy[k] = <<p, "delete">>
                   THEN <<p, "failed_delete">> ELSE changedBy[k]]

\* path.unlink(), in the order of the names; it raises if the file is gone,
\* and then the cache is not invalidated.
DeleteNext(t) ==
    LET call == th[t]
    IN  /\ At(t, "delete_next")
        /\ \E k \in call.todo :
              /\ \A j \in call.todo : k[2] <= j[2]
              /\ IF file[k].state = "absent"
                 THEN /\ Return(t)
                      /\ changedBy' = NotInvalidated(ProcOf[t], k[1])
                      /\ UNCHANGED <<file, changedAt, want, raced>>
                 ELSE /\ Commit(t, k, Absent, "delete", [call EXCEPT !.todo = @ \ {k}])
                      /\ want' = [want EXCEPT ![k] = NoRows]
                      /\ raced' = [raced EXCEPT ![k] = FALSE]
        /\ UNCHANGED <<now, saves, cache>>

DeleteInvalidate(t) ==
    /\ At(t, "delete_next")
    /\ th[t].todo = {}
    /\ InvalidateTicker(ProcOf[t], th[t].key[1])
    /\ Return(t)
    /\ UNCHANGED <<now, saves, file, obs>>

-----------------------------------------------------------------------------
(* The environment.                                                        *)

\* The process dies between two steps and is started again: its threads and
\* its cache are gone, the files are as they were.
Crash(p) ==
    /\ th' = [t \in Thread |-> IF ProcOf[t] = p THEN Idle ELSE th[t]]
    /\ cache' = [cache EXCEPT ![p] = EmptyCache(Key, NoRows)]
    /\ UNCHANGED <<now, saves, file, obs>>

\* Time passes, but a reader is never held up for more than MaxIO between its
\* read and its answer, and an answer is looked at when it is given.
Tick ==
    /\ now < MaxTime
    /\ \A t \in Thread : At(t, "load_set") => now < th[t].at + MaxIO
    /\ \A t \in Thread : ~At(t, "answered")
    /\ now' = now + 1
    /\ UNCHANGED <<saves, file, cache, th, obs>>

Next ==
    \/ \E t \in Thread, k \in Key : LoadBegin(t, k)
    \/ \E t \in Thread : LoadGet(t)
    \/ \E t \in Thread : LoadRead(t)
    \/ \E t \in Thread : LoadSet(t)
    \/ \E t \in Thread : LoadReturn(t)
    \/ \E t \in Thread, k \in Key, D \in SUBSET Day \ {{}} : SaveBegin(t, k, D)
    \/ \E t \in Thread : SaveRead(t)
    \/ \E t \in Thread : SavePut(t)
    \/ \E t \in Thread : SaveFail(t)
    \/ \E t \in Thread : SaveInvalidate(t)
    \/ \E t \in Thread, c \in Cutoff : CleanBegin(t, c)
    \/ \E t \in Thread, k \in Key : CleanNext(t, k)
    \/ \E t \in Thread : CleanOpen(t)
    \/ \E t \in Thread : CleanWrite(t)
    \/ \E t \in Thread : CleanFail(t)
    \/ \E t \in Thread : CleanEnd(t)
    \/ \E t \in Thread, tk \in Ticker : DeleteBegin(t, tk)
    \/ \E t \in Thread : DeleteNext(t)
    \/ \E t \in Thread : DeleteInvalidate(t)
    \/ \E p \in Proc : Crash(p)
    \/ Tick

Spec == Init /\ [][Next]_vars

-----------------------------------------------------------------------------
(* Properties.                                                             *)

\* Staleness is bounded.  What load answered is what the file holds, or the
\* file changed so lately that a reader may have read it before (at most
\* MaxIO before the answer), or a cache may still hold the value such a reader
\* stored (less than TTL + MaxIO before the answer).  This is all that bounds
\* the effect of a save by another process, of a clean, which invalidates no
\* cache, and of a reader that stores what it read after an invalidation.
StaleBound ==
    \A t \in Thread :
        At(t, "answered") =>
            LET k == th[t].key
            IN  \/ th[t].rows = file[k].rows
                \/ changedAt[k] >= now - MaxIO
                \/ changedAt[k] > now - (TTL + MaxIO)

\* An entry that differs from its file has one of these causes: its reader
\* was overtaken by the change, the change was made by another process or by
\* clean, a delete raised before its invalidation, or the writer is still on
\* its way to invalidate_cache.  Anything else would be an answer older than
\* a save or a delete that the same process has completed.
StaleEntryExplained ==
    \A p \in Proc, k \in Key :
        cache[p][k].held /\ cache[p][k].val # file[k].rows =>
            \/ cache[p][k].late
            \/ changedBy[k][1] # p
            \/ changedBy[k][2] \in {"clean", "failed_delete"}
            \/ \E t \in Thread : /\ ProcOf[t] = p
                                /\ th[t].pc \in {"save_invalidate", "delete_next"}
                                /\ th[t].key[1] = k[1]

\* Writers that do not overlap lose nothing.  Unless some writer replaced a
\* content it had not read, a complete file holds what its saves, cleans and
\* deletes give one after the other, whatever crashed in between; and only
\* clean leaves a file that cannot be read.
UncontendedWritesKept ==
    \A k \in Key :
        /\ file[k].state = "ok" /\ ~raced[k] => file[k].rows = want[k]
        /\ file[k].state = "torn" => changedBy[k][2] = "clean"

\* What "clean" says it does ("remove data older than ... days"): once the
\* process that cleaned a file looks at it later, and nobody has changed it
\* since, it gives only what the file still holds.  The code does not keep
\* this: clean, unlike save and delete_ticker, leaves its cache alone.
CleanTakesEffect ==
    \A t \in Thread :
        LET k == th[t].key
        IN  /\ At(t, "answered")
            /\ changedBy[k] = <<ProcOf[t], "clean">>
            /\ changedAt[k] < now
            /\ file[k].state = "ok"
            => th[t].rows = file[k].rows
=============================================================================
