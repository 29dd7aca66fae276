# A TLA+ model of Market Terminal

Market Terminal downloads daily and intraday prices, keeps them in parquet
files, and serves them to a dashboard together with live prices, price alerts,
a watchlist, a portfolio, fundamentals, news and an AI summary. This directory
models the parts of it where several threads, coroutines or processes meet, and
the dashboard's panels, whose calls overlap, fail and are answered in any order.
File names below are relative to `src/src/market_data/`, those of the dashboard
(`.ts`, `.tsx`) to `src/web/src/`.

## The system

Three kinds of process share one data directory:

* the **API server** (`server.py`, FastAPI). One event loop runs the HTTP
  middleware, one coroutine per WebSocket, and the background tasks
  `_poll_prices` and `_heartbeat`. Endpoints and the poller push blocking work
  to worker threads with `asyncio.to_thread`;
- the **command line** (`cli.py`), started by hand, by launchd or in a
  container. It fetches and saves prices and fundamentals, cleans, and edits the
  watchlist, the alerts and the portfolio;
- the **dashboard** (`web/src`, Next.js) in browsers.

They interact through files (parquet, JSON, one SQLite database), which no lock
shared by two processes protects, and through HTTP and one WebSocket endpoint.

| Component | State | Operations | What is hard | What makes it correct |
|---|---|---|---|---|
| OHLCV store, `store.py` | one parquet file per ticker and interval, a TTL cache per process | `save`, `load`, `clean`, `delete_ticker` | none of them locks; `save` reads, merges, replaces; `clean` writes in place; the cache of one process never hears of another's writes | answers are stale for a bounded time and for a known reason; writers that do not overlap lose nothing; only `clean` can leave an unreadable file |
| TTL cache, `cache.py` | stamp and value per key | `get`, `set`, `delete`, `delete_prefix`, `clear` | capacity, boundary of the life time | a fresh entry only, never more than the maximum |
| Middleware, `server.py` 109-119, 184-266 | a deque of times per client | one request | sliding window, boundary, order of limiter and key check | the limit holds in every window, every refusal is justified, `retry-after` is true |
| Price hub, `server.py` 285-459 | `_ws_subscriptions` | connect, subscribe, unsubscribe, leave, broadcast, ping | a dictionary iterated across awaits, peers that stall or vanish, tasks that die | the registry is exactly the reachable sockets; subscribers are served; the poller survives |
| Alerts, `alerts.py`, `server.py` 378-406 | `alerts.json`, the poller's copy of it | add, remove, evaluate, announce, notify | load and save in different calls, restart between save and announcement | cooldowns, no announcement forgotten by a restart, edits last, firings are announced |
| JSON files, `watchlist.py`, `portfolio.py`, `alerts.py` | one file each | add, remove, update, list | fixed temporary name shared by processes, crashes | each operation is one step of a map |
| Server lifecycle, `server.py` 121-150 | the two tasks | start, shutdown | a task that died before | everything is released |
| Quota database, `rate_limit_db.py`, `providers/twelvedata.py` | counters per window, throttle, call log | consume, reset, back off | select then update by several processes, window roll-over | quotas are not exceeded, back-off is bounded and decays |
| yfinance limiter, `rate_limiter.py` | extra delay, count of 429s | acquire, notify | threads that wait while the delay changes | the whole process backs off and recovers |
| Fetcher and providers, `fetcher.py`, `providers/` | none | `fetch_batch` | chunks on threads, fallback for what is missing, partial failure | every ticker is tried on every eligible provider |
| Command line, `cli.py` | none of its own | `fetch`, `backfill`, `fetch-fundamentals`, edits | freshness, retry, one failing item | a run fetches what is stale and keeps what it got |
| Fundamentals, `fundamentals_store.py`, `fundamentals.py` | four files per ticker | fetch, read, migrate | partial fetch, migration beside a running CLI | files are replaced whole |
| News, `news.py` | a TTL cache | get, invalidate | the cache's dictionary read without its lock | as the cache |
| Chat, `ai_summary.py` | session table, semaphore | create, continue, evict, stream | overlapping turns, eviction while streaming | turns alternate, sessions are bounded |
| DuckDB reader, `duckdb_reader.py` | none | batch queries | files that vanish or are torn | an answer or an empty one |
| Live prices page, `lib/useWebSocket.ts`, `PriceProvider.tsx`, `AlertToast.tsx` | socket, reconnect timer, attempts, pending messages, prices, alerts, shown ids | connect, reconnect, subscribe, show | lost connections, messages in flight, what is asked for offline | one connection, prices never go back, every newest alert is shown |
| Data panels, `components/` (news, fundamentals, table, overview, search, palette), `lib/useTickers.ts` | what is chosen, what was loaded, loading, error, page, sorting | load on a choice, debounce, cancel, turn, sort | answers out of order, a shared call that fails, cancelled calls | a panel shows what is chosen, loading ends |
| Charts (candles, comparison, VIX, indicators) | a canvas that keeps what it was given | load, draw, regroup, toggle | effects that run twice, or not, after the data changed | the canvas shows the loaded data |
| Managed lists (alerts, portfolio, stored data) | the list, what is being written | list, create, delete, clean | a write and the list after it are two calls | the list is the server's |
| AI panel, `AISummary.tsx`, `lib/api.ts` | the analysis, the conversation, the session | generate, chat, read a stream | streams cut anywhere, two calls at once, a session that ended | nothing received is lost, questions and answers alternate, buttons unlock |
| Quality, indicators, schemas, config, logging, layout and theme, deployment | none, but for the colour mode | pure functions and declarations | none | numerical or visual, not behavioural |

`PROJECT.json` lists each component with its status, and under `hazards` the
places in the code that are hard to test, with the properties that watch them; three of
them wait for a module of the plan below.

## Modules

| Module | Models | Extends or instantiates |
|---|---|---|
| `TtlCache` | `cache.py`: the methods as operators on the dictionary | |
| `OhlcvStore` | `store.py` | extends `TtlCache` |
| `OhlcvStoreProofs` | theorems about `OhlcvStore` | extends it and `TLAPS` |
| `RequestGate` | `_is_rate_limited` and the middleware | |
| `RequestGateProofs` | theorems about `RequestGate` | extends it and `TLAPS` |
| `PriceHub` | registry, socket handlers, poller, heartbeat | extends `Selection` |
| `PriceHubProofs` | theorems about `PriceHub` | extends it and `DataLemmas` |
| `AlertEngine` | `alerts.py` with the poller's and the endpoints' use of it | |
| `AlertEngineProofs` | theorems about `AlertEngine` | extends it and `TLAPS` |
| `AtomicMap` | the promise of the JSON files: a map that changes in one step | |
| `JsonStore` | the file protocol of the three JSON files | instantiates `AtomicMap` with `items <- Parsed` |
| `JsonStoreProofs` | type correctness and the refinement, for all constants | extends it and `TLAPS` |
| `LivePrices` | `useWebSocket.ts` against a server and a network that fail | |
| `AlertToast` | `AlertToast.tsx` | extends `LivePrices` |
| `TickerCard` | the price of a card in `TickerOverview.tsx` | extends `LivePrices` |
| `PanelFetch` | what the panels have in common: a call per choice, a continuation per answer | |
| `TickerPanels` | news, fundamentals, table of daily bars | extends `PanelFetch` |
| `PriceCharts` | candles with volume profile, comparison, VIX, indicators | extends `PanelFetch` and `Selection` |
| `SearchPanels` | overview, ticker search, command palette | extends `PanelFetch` |
| `ManagedLists` | alerts, portfolio, stored data, with the server's list | extends `PanelFetch` |
| `TickerList` | `useTickers.ts` | extends `PanelFetch` |
| `EventStream` | the stream's format and its reader in `api.ts` | extends `Selection` |
| `AISummary` | `AISummary.tsx` with the sessions of `ai_summary.py` | extends `EventStream` |
| `MCLive` | the toast or the card below one connection | extends `AlertToast`, `TickerCard` |
| `LivePageProofs` | theorems about `LivePrices` and the page as a whole | extends `MCLive` and `TLAPS` |
| `MCDashboard` | one panel at a time | extends all panels |
| `DashboardProofs` | theorems about the panels | extends `MCDashboard` and `DataLemmas` |
| `Selection` | what is left of a sequence at some of its positions | |
| `DataLemmas` | lemmas about least elements, ranks, selections, concatenations and sums | extends `Selection` and `TLAPS` |
| other `MC...` | values of the constants for TLC | extend the module they are named after |

Operators marked "Mutant" in the modules are plausible mistakes in the code. No
specification uses them; each property of a passing run fails when the one
listed under `mutants` replaces the original.

### OhlcvStore

A file is a version number per day and a state: absent, complete, or torn (opened
for writing in place and not finished). A save gives every day of its batch a
new version, so a row that is lost, kept or resurrected can be told from any
other. A call of a store function is the record `th[t]` of its thread, whose `pc`
says which access to the file system or to the cache comes next: `load` is
exists, cache get, read, cache set, return; `save` is exists, read and merge,
replace, invalidate; `clean` is scan, read, open in place, write, next file;
`delete_ticker` is glob, unlink file after file, invalidate. A crash between any
two of them clears the threads and the cache of one process.

`changedAt`, `changedBy`, `want`, `raced` and the `stale` and `late` flags are
observations that no guard reads. `want` is what the file would hold had every
writer run alone; `raced` says that a writer replaced a content it had not read.

`MaxIO` is the longest time between a reader's read and its use of what it read.
The code has no such bound; the properties are stated relative to it, since a
reader that hangs for ever in `_cache.set` can store arbitrarily old data. Its
guard is on `Tick`, as in any model with a clock.

Not modelled: the rename of a legacy `<ticker>.parquet` in `_parquet_path`, the
`days` filter of `load` (a pure selection from the answer), and that two
spellings of a ticker may map to one file: keys here are sanitised names.

### RequestGate

Neither the limiter nor the key check awaits, so a request is one step. The
window is measured in ticks, several requests may share one. `accepted` is the
history of all requests let through; the properties relate the deque, of which
the code forgets the front, to it. WebSocket handshakes do not pass an HTTP
middleware and are not limited. The handler behind the gate is one of three
status codes; whether it is 401 depends on the key and the path, which nothing
here reads.

### PriceHub

Each coroutine runs from one `await` to the next in one action. The registry is
the key sequence of the dictionary; the iterator `it` counts what is left of the
size the dictionary had, as CPython's does, and raises when the size differs or
when more entries follow than it expects. One that leaves and one that comes in
the same await keep the size, which is why the second test exists. `Without` and
`NextAddressee` speak of positions in the registry rather than fold over it, so that they
can be reasoned about. A send
completes when the peer is up, raises when it is down, and waits when it is
stalled. `Faults` lets store calls of the poller raise.

A subscribe message names any number of tickers in the code and one here: a
message for several is a succession of them, since nothing is observed between.

### AlertEngine

Every function of `alerts.py` that touches the file holds the lock of its process
and replaces the file, so each is one step; `load_alerts` and the save inside
`evaluate_alerts` are two, with the evaluation between them, and any endpoint may
come between those. Times are ticks, thresholds integers and the daily change is
compared without division. `channels` and the delivery of each are reduced to
whether the message of an alert went out. A restart drops the round.

What raises kills the poller, as in `PriceHub`: the part of the round before the
alerts (`RoundRaises`), a save (`SaveRaises`, which leaves the poller at `"unsaved"`),
and the broadcast of the alerts, which like the other iterates the registry across
awaited sends. That broadcast is a state of its own, `"announcing"`. When it begins a
dashboard may have the message, so the alert counts as announced; while it lasts a
client may connect or leave (`churned`); then it ends, or, if one did, may
raise, and the notifications are never sent. `PriceHub` has the iterator itself.
`announced` and `notified` are times of evaluation: a client that stalls a broadcast
may receive two messages closer together than their cooldown.

`percent_change_below` compares with the negated threshold, as the code does.

### JsonStore

`path` and `tmp` are the two names, `content` what each file holds, and
`op[p].file` the file that a process has open: the code opens the fixed name
`<name>.json.tmp`, so a second process truncates or completes the file the first
one is writing, and `os.replace` moves whatever the name refers to. An operation
can fail at any step. `Parsed` is what a reader gets: nothing and nonsense are
both an empty map.

`calm` is TRUE until operations of two processes overlap. `AtomicMap`, the
promise, is a map that changes by one key in one step while it is calm, and
anything afterwards. The refinement says that crashes, failed writes and readers
at any moment do not break it; overlapping processes do, which is the known
limit of locks that are local to a process.

### LivePrices, AlertToast, TickerCard

The hook's socket is absent, connecting, open, or broken: open to the page while
the link is already lost, so that what is sent on it vanishes. `toServer` and
`toClient` are the messages in flight, in order. The server's half is what the
page can tell of `PriceHub`: the subscriptions of this connection, pushes of
either every ticker or the subscribed ones, and one message per round for alerts.
A price is the number of its market move. When no live quote can be had the server's poller
sends the last stored close (`server.py` 366-370), which may be older than what it sent
before: that is outside the model, and `LiveNeverGoesBack` is about the page and not
about what the server has. `wanted`, `forgotten` and `failures`
are observations: what was asked for in all, whether a connection with
subscriptions or messages was lost, and how many connects failed in a row. The
ping is left out, for the server skips the page's pong and nothing else depends on
it.

The toast's effect runs after a render, so it may see several messages at once;
the card renders apart from the messages it renders, with overview answers that
the server composed before the market moved on. Flashes and formats are not
modelled.

### PanelFetch and the panels

Loaded data is represented by the choice it was loaded for, a panel by the state
its hooks keep: `query` is what is chosen, `data`, `loading` and `error` are the
three pieces of state most of them have, `calls` are those in flight and `view` is
the rest. An answer or a failure may come for any of the calls. `overtaken` and
`overlapped` are observations, set since the panel was last quiet. `Sorted`, in the table, is
the stable sort of JavaScript by the rank of each row.

* `TickerPanels`: the three `load` effects take whatever answer comes. The dialog
  of the news covers the choice of ticker; the table turns pages and sorts.
* `PriceCharts`: the canvas (`drawn`) is separate from the data. The grouping of
  daily bars into weeks and months and the bins of the volume profile are computed
  as in the code, in whole numbers (as volumes are in the
  code; how a price between two bins is rounded there is left out); `west` is a browser to the west of Greenwich.
  An indicator's load removes the lines it knows of, awaits, and adds its own.
  Each line names the value of a point it reads; `ServerColumns` are those there are.
* `SearchPanels`: the overview cancels its earlier call and waits before a search;
  search and palette wait but do not cancel what is under way.
* `ManagedLists`: a write and a list are calls of their own, which the server runs
  in any order; each may fail before the server ran it or after, when the change was
  made and its answer lost. Leaving the page and coming back is a new mount. Of the
  two calls that `DataManagement` joins with `Promise.all`, the list is the quality
  report; the storage summary comes or fails with it and is not compared.
* `TickerList`: the module variables `cachedTickers` and `inflightPromise`, and
  panels that are mounted and unmounted.

### EventStream and AISummary

A text is a sequence of pieces: words, line ends, the tags of a thinking part and
the prefix of an event. The server writes a token with the line ends it contains;
what follows one in the same token has no prefix and the page drops it, so the
properties speak of the lines received. Each line is known by the position of its line
end in the text, so that `Heard`, the text of the tokens, is what is left of the text at
the positions in them; no token of a model is the session's id (`AIAssumption`). The body is cut at multiples of `Cut` pieces
or at its end, each chunk passes `Feed`, and a body may also end, or be rejected,
anywhere. The operators of the panel's rendering (`Panes`, `Output`, `Transcript`,
`Bubble`) say what of the state is on screen: all of a text from its first `<think>` on,
for `parseThinkTags` drops what comes before it. On the server a session takes the
question before the model is asked and the answer before the end marker, and may
end at any time. `crossed` observes that an analysis was asked for while a chat
answer was arriving.

## Runs

| Run | Instance | Shows |
|---|---|---|
| `store` | server with a loading thread and one that cleans and deletes, a CLI that saves; one ticker, two intervals, two days, one cache entry, clock 0..2, TTL and MaxIO 1 | `StaleBound`, `StaleEntryExplained`, `UncontendedWritesKept` |
| `store_clean` | the same with TTL 2, MaxIO 0 | violation of `CleanTakesEffect` |
| `gate` | two clients, limit 2, window 3, clock 0..7 | `WindowBound`, `RejectionJustified`, `RetryAfterHolds` |
| `hub` | two sockets, two tickers, faults | `RegistryExact`, `DiesOfChurnOnly`, `BrokenLeaves`, `SubscriberServed` |
| `hub_churn` | the same without faults or fairness | violation of `PollerAlive` |
| `alerts` | two alerts on one ticker, cooldowns 1 and 2, clock 0..3, one restart | `ToldIsPersisted`, `UnexposedEditsKept`, `CooldownRespected`, `FiredIsAnnounced` |
| `alerts_lost` | the same, clock 0..2, no restart | violation of `CreatedAlertListed` |
| `alerts_fall` | the same with the documented threshold | violation of `FallAlertMeansFall` |
| `json` | server and CLI, two keys, one value | `ImplementsAtomicMap` |
| `live` | one connection; two tickers of which one has prices, two attempts, two alerts kept, two messages in flight per direction, two price moves, two alert messages, one overview request | `OneConnection`, `InterestKept`, `LiveNeverGoesBack`, `CatchesUp`, `NewestAlertToasted` |
| `dashboard` | every panel alone; two calls in flight, two tickers, one without bars; pages of one row; all ten indicators, two spans; two words to search; two items and two changes of the server's list (`MaxWrites` is its highest version, which starts at 1); two hooks; two answers of a model, two sessions, two questions | the type invariant and the eight properties below |
| `indicator_empty` | the indicator panel alone, three indicators | violation of `OverlayHasValues` |

Bounds. Two intervals are the least that tell deleting one key from deleting the
prefix; two days the least on which a cutoff splits a file; one cache entry makes
eviction happen with two keys. Clock 0..2 with TTL 1 lets an entry be stored late,
expire and be replaced. Seven ticks are more than two windows of three. Two
sockets are the least for one that is served while the other stalls, leaves and
comes; a socket is a connection and never returns, so two are also the number of
connections in a run. Two attempts are one after the first failure and the last one;
two messages in flight let a lost connection drop one and deliver another; two
alerts in the list are cut when a third is added. Two calls in flight are the
least that can be answered out of order, and the third one of a panel only meets
what the second met: a load forgets nothing but what its `query` says. A page of one
row and two rows are the least with a second page; a ticker without bars is what the
draw effect returns early for. The bars run from a Friday to a Tuesday across the end of
a month and into the month's second week, so that weeks differ to the west of Greenwich and a
month splits a week. A cut after seven pieces falls inside a line, after one and
between the two line ends of an event. With two alerts, one can be deleted or created while the
other fires. In `JsonStore` there can be as many files as names and open
descriptors; a second value would only rename states.

`dashboard` and `live` have no state without a next step. Deadlock is not checked in `hub` and `alerts`: with all sockets closed, or at the
end of the clock with a dead poller, the system really rests. In the other
runs it is checked and never happens.

Fairness. `PriceHub` assumes what the event loop gives: a task whose await is over
runs again (weak fairness of the poller's and the heartbeat's steps). The step
after a send has strong fairness: once the buffer has drained the waiting task is
scheduled, even if the peer stalls again. A peer that stays stalled is broken by
the keepalive of uvicorn, the server under the application (weak fairness). Clients
get none: they may come, stall, leave or do nothing. `AlertEngine` assumes weak fairness of
the poller's steps alone, of which the end of a broadcast needs the keepalive just named. `MCLive` assumes that the browser runs its timers, socket
events, effects and renders (weak), and that the server's poller pushes to a
connection on which it can (strong: a push is not possible while two messages are
in flight). `MCDashboard` assumes that a call is answered or fails at some time, the
oldest first if it comes to that, that the server runs or refuses one, that a
stream delivers or ends, and that pending timers fire (weak); users do what they like.
Nothing else needs fairness.

What `dashboard` checks, in one sentence each. `NothingLost`: a stream's text is that of the
lines received, and all of it from its thinking on is on screen. `ConversationInTurn`: unless an analysis
interrupted it, questions and answers alternate and the session on the server
was asked nothing that is not on screen. `AnswerWhole`: an answer that joins the
conversation is all that was received. `Unlocks`: both buttons become usable again.
`PanelShowsChoice`: once quiet, what a panel shows is of what is chosen, unless a
late answer overtook another; the overview, which cancels, needs no exception.
`ChartsDrawData`: the canvas shows what was loaded; grouped candles conserve volume, range,
order, first open and last close of the bars, and the profile the volume of the candles that do not
close below all lows. `ListMatchesServer`: after its own writes a panel has seen the
server's list. `LoadingEnds`: a panel whose choice is left alone stops loading.

Each exception in these is needed, and says what the code does not ensure: all
panels but the overview take answers in any order (`overtaken`); the VIX chart is blank after a
change of the theme until it is loaded again; a ticker without bars keeps the candles of
the one before; two loads of indicators under way add the lines of both; a search
whose text is removed within its pause stays loading; Generate during a chat answer
mixes two conversations; a list that overtakes a later one brings back what was
deleted.

### What the violations show

* `store_clean`: `clean` is the one writer that does not invalidate the cache of
  its own process; the server answers with removed rows until the entry expires.
* `hub_churn`: a client that connects or leaves while a broadcast waits for a
  send makes the dictionary's iterator raise, and the poller has no `except`. No
  price and no alert is ever pushed again until the server restarts; the
  heartbeat goes on, so clients do not notice. If it is the broadcast of alerts,
  they are in the file and in their cooldown, but no channel is notified.
  `FiredIsAnnounced` has this as one of its three exceptions; the others are a write that
  fails and a restart.
* `alerts_lost`: the poller saves the alerts it loaded earlier over one that was
  created in between. `UnexposedEditsKept` shows that this span is the only cause.
* `indicator_empty`: the chart reads the values `SMA`, `EMA` and `RSI` of an answer
  whose columns are named with the period (`SMA_20`): these overlays are empty.
* `alerts_fall`: the README's example enters the threshold of a fall with a minus
  sign and the code negates it once more; the tests use positive thresholds.

## Proofs

TLAPS checks the following for every value of the constants that satisfies the
named assumptions of the module.

`OhlcvStoreProofs`: **StoreTypeOK**, **StoreStaleBound**, **StoreEntriesExplained** and
**StoreWritesKept**, under
`CacheAssumption` and `StoreAssumption`: however many processes, threads, tickers
and intervals, an answer that is not what the file holds is at most MaxIO old, or
comes from a cache and is less than TTL + MaxIO old. The bound is not inductive. It
follows from what caches and readers hold: a reader on its way to the cache either
has the file's content or read before the last change (`ReaderOK`), `Tick` lets it
be held up for MaxIO at most, so an entry that differs from its file was stamped
no later than MaxIO after the change (`EntryOK`), and `get` does not answer from an
entry TTL or more after its stamp. Writers, crashes and evictions only change a file
now or drop entries, which two lemmas (`ChangeStep`, `QuietStep`) treat once for all.
The other two rest on `WritersInv`. What a call holds that was not overtaken is what its file
gives: an answer, a merge, what is left after a clean (`HoldersOK`). So a complete file
that nobody replaced unread is what its writers wanted, and an absent one is wanted empty
(`WritesOK`). An entry that differs has a cause, and each writer on its way to the
invalidation is told by its own name, for a delete that raises excuses no save (`Explained`); that
a delete unlinks files of the one ticker whose entries it then drops is a part of its own.

`RequestGateProofs`: **GateTypeOK**, **GateWindowBound**,
**GateRejectionJustified**, **GateRetryAfter**, under `GateAssumption` (limit and
window are positive). The inductive invariant says that the deque is the tail of
`accepted` that the pops have left, that nothing in it lies in the future, and that
what was popped is out of the window. From it, that the deque is not full when a request is let
through gives the bound on every window, and that it is full when one is refused
gives the justification.

`AlertEngineProofs`: **AlertTypeOK**, **AlertToldIsPersisted**, **AlertCooldown**,
**AlertEditsKept**, under `AlertAssumption`. The cooldown is not inductive: that the file's stamp is
at least what was announced survives a save only because the poller's copy is
itself ahead of the announcements (the copy is older than the file but no
announcement happens between), and an announcement repeats a stamp that was
found out of cooldown. `AlertInv` states these links between file, copy, round
and announcements; whatever ends or kills a round clears it (`AlertCleared`). For the edits, `CopyKept` says of the poller's copy what is claimed of the
file: an edit made since the copy was loaded exposes its alert, so the save can undo no other.

`JsonStoreProofs`: **JsonTypeOK** and **JsonImplementsAtomicMap**, under
`JsonAssumption`. The invariant says that while it is calm at most one process is
inside an operation, the file is whole and open nowhere, and the temporary file
holds what the one operation will rename. Each step is then a step of the map or
a stutter: only the rename changes what a reader parses.

`LivePageProofs`: **LiveTypes**, **LiveOneConnection**, **LiveInterestKept**, under
`LiveAssumption`. That the hook gives up only when it may is not inductive: a connect that
fails is counted in `failures` and uses an attempt, a connection that breaks uses one
without having failed, so attempts are at most one ahead (`AttemptsOK`), and an open
socket has used none. What was asked for is followed through the queues without
recursion: the last message on a ticker decides, and where there is none the server's
subscription does (`Leads`); the last acknowledgement in flight tells of the server's
subscriptions (`Tells`). Two lemmas each say that appending to and taking from a
queue keep this.

In the same module **PageIsLive**, **PageTypes**, **CardNeverGoesBack**, under
`LiveAssumption` and `CardAssumption`. The page implements the hook: each of its steps is one of
the hook or leaves it alone, so what is proved of `LivePrices` holds of the page. That the card
never goes back follows from the order of prices (`PricesInOrder`): those on their way are in the
order of the market's moves, none is ahead of the market or behind what the page has; and a card
that is live shows what the page has or had before (`ShownBehind`).

`PriceHubProofs`: **HubTypes**, **RegistryIsExact**, **BroadcastDiesOfChurnOnly**, under
`HubAssumption`. A task drops a socket some awaits after the send to it failed, and the registry
is exact only because what it has collected to drop is down for good (`DropsTheDown`). A
broadcast does not raise by itself because its iterator counts as many entries left as there
are sockets it has not visited, until another task changes the registry (`UndisturbedInStep`),
which is forgotten when the next broadcast starts (`ChurnIsOfBroadcast`).

`DashboardProofs`: **DashboardTypes**, **PanelsShowChoice**, **CanvasesDrawData**,
**ListsMatchServer**, **ConversationsInTurn**, **NothingIsLost**, **AnswersWhole**, under `PanelAssumption`, `TableAssumption`,
`ChartAssumption`, `TickersAssumption` and `AIAssumption`. `DashboardInv` has a part for each kind of panel, which the steps of the others
do not disturb. Panels that load (`LoadInv`): unless an answer was overtaken the last call
under way is for the choice, and with none under way the data are, or the panel says it failed;
unless calls overlapped there is at most one, and then a dialog is closed and the page the first. Canvases (`ChartInv`):
each is drawn in the step in which its data come, and the lines of an indicator are gone while
a call is under way, unless calls overlapped, so that an answer adds to none. What candles and bins
tell (`CandlesTell`) is a fact about any bars that are sorted by day with each day once, which
`ChartAssumption` says of them because the store's `save` drops duplicates and sorts: a group is known
by its first bar and a candle by the rank of that one, groups are the parts of the bars and bins
those of the candles, a sum over all is the sum of the sums over parts, and the last group reaches
the last bar because neither weeks nor months go back.
Panels that search (`SearchInv`): unless overtaken a timer is pending, or the last call is for the
text; of the overview's calls at most the one for the text is not cancelled. The ticker
list (`TickersInv`): one call at most, which every hook that waits will be told of. Managed
lists (`ListInv`): an answer that brings the server's last version is on its way or was seen,
unless the panel told of a failure, and a list that ran on the server since the last change has
its content. The AI panel (`AIInv`): the session that a chat call will use or uses was
asked only what is on screen, and the sessions in use are the first ones, so that the next is empty.
Its streams (`StreamsOK`): what is buffered is the last line of what was read, which has no end
yet, no marker was read before it, and the text is what one reads who has all of that at once.
That this survives a chunk is a fact about texts: a line that ends in the chunk begins in
the buffer or the chunk, so reading the two together finds the same payloads at
shifted positions, and what was read before and what is read now are joined in order.

`DataLemmas` has what several proofs need of data. The provers know nothing of the
operators of the community modules but their definitions, so texts and registries are
written with `Selected`, by the rank of each position, and the lemmas say what a selection
from a concatenation is. A sum of the community modules is a fold over a `CHOOSE`n function: that
there is one, by the size of the set, gives what a sum is by any element and the rest
(`SumRemove`), and over parts (`SumParts`). Induction goes by a least counterexample, over the sets of the
library's well-foundedness theorems.

TLC agrees, on the instances of the runs, that the inductive invariants `WritersInv`, `EditsInv`,
`PageInv`, `HubInv` and `DashboardInv` hold in every reachable state.

Model-checked only: liveness (`BrokenLeaves`, `SubscriberServed`, `FiredIsAnnounced`,
`CatchesUp`, `NewestAlertToasted`, `Unlocks`, `LoadingEnds`), which is out of this prover's
reach. Every invariant and every action property of a passing run is proved.

## Plan

Done: the store with its cache, the gate, the hub, the alerts, the JSON files, the
page's end of the live prices, the panels, the AI panel with its streams and sessions.
Next, in this order:

1. `QuotaDb`: `rate_limit_db.py` with `twelvedata.py` and the throttle shared with
   `rate_limiter.py`. Processes that select and update in separate statements,
   windows that roll over. Run: two processes, minute and daily windows.
   Theorems: back-off bounded, a single process never exceeds a quota.
2. `FetchChain`: `fetcher.py` and the control of `cli.py`; chunks, providers,
   partial results, then the saves as calls of `OhlcvStore`'s `save`, and the
   fundamentals loop. Abstract specification: every ticker is tried on every
   eligible provider until one has it.
3. The lifespan's shutdown in `PriceHub`; the legacy rename in `OhlcvStore`; the
   size limit of the session table and a second panel in one session in `AISummary`.

## Not modelled

Numerical code (the values of indicators, quality checks, portfolio sums), SQL queries,
message texts, logging, configuration and deployment have no behaviour that the
properties tell apart. The libraries (pandas, DuckDB, SQLite, pyrate-limiter,
uvicorn, React, the chart library) are modelled only by what the code relies on.

Of the dashboard: layout, styling and the theme, of which only the change that empties
the VIX chart is kept; `HeroBanner.tsx`, `Sidebar.tsx`, `ExportButton.tsx` and
`EmotionCacheProvider.tsx`, which hold no state that outlives a click; the flash of a
price; the form checks, messages and sorted tables of the managed lists; the period and
days of the indicators, which are loaded for like the indicator itself; time formats and
tooltips of the charts; the Markdown of an answer.

Of the server: the REST handlers run one store function each and add no state; the
fundamentals files, the news cache and the two limiters wait for the plan.

## Running

    tlc -workers 2 -config MCOhlcvStore.cfg MCOhlcvStore
    tlapm RequestGateProofs.tla

and likewise for the others; `dashboard` takes about two minutes, `store` one and a half,
every other run about one or less.
