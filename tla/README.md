# TLA+ models of TheLab

TheLab trades index futures with an agent (`src/nq_agent`), runs a desk
application around it (`desk/`), and decides what the agent trades with
research scripts (`scripts/`). This directory models the three: first the agent's bar
loop, what it believes it holds, what the broker really holds, the limits that
stop it and what a crash does to all of that; then the strategies, the order
path, the ledger and the desk's processes; then the studies.

Paths below are relative to the repository root. `PROJECT.json` maps every
definition to the lines it stands for, and lists every hazard at its line.

## 1. Inventory

### The agent, `src/nq_agent`

| Part | State it keeps | Operations | Correct when |
|---|---|---|---|
| Engine, `main.py` | trades taken, halted flag, last bar time, resume and backfill marks | start (restore), startup / interval / UNKNOWN-order reconciliation, one iteration per bar (skip, warmup, live), handle a signal, persist, teardown | each bar is applied once; what it believes is what the broker holds; a restart forgets nothing that stops it |
| Session manager, `session.py`; calendar, `clock.py` | current session, session already flattened, adopted session | `on_bar` (adopt, roll, cutoff flatten), `end_session` | nothing is left open past the cutoff |
| Position tracker, `position.py` | the one believed position | `on_signal`, `on_bar` (stop/target), `flatten`, `restore`, `adopt_fill_price` | follows orders and broker |
| Risk manager, `risk/limits.py` | daily P&L, equity, high-water mark, open value, day's opening mark, duplicate window, reconciliation block | `check`, `mark_to_market`, `record_realised_pnl`, `start_session`, `breach`, `snapshot` / `restore` | no entry past a limit, across restarts |
| Accounts, `risk/accounts.py` | none (reads a file) | `enabled_accounts` | a disabled account receives nothing |
| Reconciler, `reconcile.py` | none | compare per account, consensus, adopt | changes the belief only to what the broker reports |
| Router, `router.py`; executors, `execution/` | the wired executors, an HTTP session each | `dispatch`: notifiers, then brokers, each with a timeout; alert; close | every leg has an outcome, and a doubt is never read as a no |
| State store, `state.py` | one row per session date | `save`, `load`, `load_latest` | last save wins |
| Journal, `journal.py` | an append-only file per day | `write` under a lock | an order is on record before it leaves |
| Feeds, `feed/` | position in the stream, aggregation buckets, tick-tap mark | `stream` with resume, reconnect with backoff, tick to bar | each bar once, in order, none lost |
| Strategies, `strategy/` | the setup's own phase, risk, counters, long memory | `on_bar`, session callbacks, snapshot / restore | enters only when flat, manages what it entered, takes no refusal back |
| Flow, gamma, `flow.py`, `gex.py` | minutes of signed volume, decisions emitted; none | `on_tick`, boundaries, features of a window | live records are those of the offline pass |
| Backtest, config, context | none; none; the view given to a strategy | | |

### The desk, `desk/`

| Part | State | Operations | Correct when |
|---|---|---|---|
| Tradovate sync, `tradovate.py` | entity caches, connected flag, token | connect, snapshot, events, reconnect | what was missed comes with the snapshot |
| Fill pump, `fill_pump.py` | dirty groups, one rebuild task | fill, fee, debounced rebuild | every stored fill is eventually rebuilt |
| Web ledger, `desk/web/src/lib/ingest` | tables of fills and trades | import, dedupe, reconstruct, rebuild, prune | trades account for every fill, and what a user attached stays |
| Watcher, `watcher.py` | cooldowns, session count, one-shot flags | clock and event triggers, ping | each occasion is pinged at most once and not lost |
| Agent loop, memory, checks, `agent/` | chats, summaries, opinions | a turn with tool rounds, voice retries, post-checks | what is told is grounded and recorded as told |
| Grader, `grader.py`; supervisor, `main.py`, `api.py` | opinions graded | nightly batch; ping feed | every gradable opinion is graded |
| Market state, `state/` | price bins, session profile, levels | tick, flush | each tick counted once |
| Web pages, checklist, migrations | Postgres | checklist's hard block, feed of pings | no more than two entries a day |

### Scripts, `scripts/`

| Part | State | Operations | Correct when |
|---|---|---|---|
| `trade_ping.py` | an offset per journal file | tail, notify, save | every recorded trade is heard of |
| `run_shadow.py`, `calibrate_flow.py` | a flow record per day | preload, feed, persist, calibrate | a record that is not partial is whole |
| `fit_regimes.py`, `pfr_study.py` (proxy) | decision files | walk forward: table, score, refit, label, decide | a session's decisions rest on earlier sessions only |
| `run_vpc.py`, `sdd_study.py`, `ict1_studies.py`, `sfb_study.py`, `fmb1_studies.py`, `mae_study.py`, ... | none (scan files) | find setups, simulate trades | a find stays a find; a trade could have been made |

### How they interact

The engine is one asyncio task. A bar arrives from the feed; the tracker, the
session manager, the risk manager and the strategy are called in that order
and in-process; signals go to the router, which awaits all accounts at once;
after a live bar the state is saved and, every so many bars, the broker is
asked what it holds. The outside world (fills, the broker's own brackets, the
operator's account file, a kill) moves whenever the engine awaits. There is
no other concurrency in the agent. A supervisor restarts a process that died.
`trade_ping` is a process of its own that reads the journal while it is written.

The desk's brain is one process of several coroutines (user sync, fill pump,
watcher's clock and event loop, API) that share memory, Redis and Postgres, and
interleave at every await. The web application is another process; the fill
pump calls its rebuild over HTTP, an import runs it directly.

Scripts run over session files that the shadow run or a download wrote;
what they find is written as decision files that the flow strategies read.

What is hard: a kill between an order and its save; UNKNOWN orders that fill
late; the three windows of a resumed stream; a belief changed by three
different reconciliation triggers; the one cutoff flatten a session gets;
money figures that must mean the same before and after a rollover or a
restart; strategies that infer an order's fate one bar later; coroutines that
check, await and then act; rebuilds that overlap; scans that index whole files.

## 2. Modules

The agent:

| Module | Models |
|---|---|
| `Reconciliation` | `reconcile.py` and the decision part of `Engine.reconcile`, as operators over one belief and one report per account |
| `Engine` | the bar loop with session manager, believed position, vetoes, dispatch, persistence, restart, and the broker as environment |
| `RiskManager` | the money figures of `risk/limits.py`, driven as the loop drives them |
| `BarStream` | what `DataFeed.stream` promises its caller, as a specification of its own |
| `Feed` | the feeds: aggregation of ticks, reconnection, intraday replay, tick tap, fixture playback, and a caller that dies and resumes; implements `BarStream` |
| `StrategyBase`, `Tfr`, `Afr`, `Naim`, `Sme`, `Orb` | each strategy as a function of its memory, a bar and the context, to a memory and a signal |
| `Strategies` | a strategy inside the engine: warmup, vetoes, adoption, saves, restarts, rollovers |
| `Router` | dispatch to notifiers and brokers, the webhook's answers, the accounts file, the journal |
| `TradePing` | the watcher of the journal, composed with `Router` |

The desk:

| Module | Models |
|---|---|
| `Ledger` | user sync, fill pump, CSV import, reconstruction and rebuild of trades |
| `Watcher` | the watcher's two coroutines and what they ping |
| `Agent` | a chat's turn, its memory, the checks of a reply, the grader |
| `Desk` | both as one process with the checklist, the feed of pings, the supervisor and the world |
| `Flow` | tick flow, decision records, the shadow run's files, the state engine's price profile |

The research:

| Module | Models |
|---|---|
| `Tape` | minutes, five-minute bars, the bracket walk: what the studies share |
| `Vpc`, `Sdd`, `Ict`, `Sfb` | one study's scan and simulation of a session each |
| `Fmb` | studies with one trade a session, in a direction earlier sessions decide |
| `Mae` | re-walks of past trades: excursions, other stops, other deadlines |
| `Regimes` | decision files: walk-forward tables, scores, refits, labels, size cuts |
| `Studies` | a file that grows, scanned again by the study a scenario names |

`MC*` modules hold the instances TLC runs. Proofs are in modules of their own:

| Module | Proves about |
|---|---|
| `RiskManagerProofs` | the money figures |
| `EngineProofs` | the bar loop: its types, what a reconciliation pass leaves, agreement, and what a restart, the cutoff and the count keep |
| `FeedProofs` | the feeds, and that they implement `BarStream` |
| `RouterProofs` | the order path, and the watcher of its journal |
| `StrategyProofs` | the strategies and their host |
| `DeskProofs` | the desk: its types, the feed, a turn's reply, the memory of a chat, and its limits: what was pinged, what is still to be, the checklist |
| `LedgerProofs` | the table of fills, the marks of the pump and the trades |
| `FlowProofs` | the decision records, the day's files and the calibration |

`Engine` EXTENDS `Reconciliation`, `RouterProofs` EXTENDS `TradePing`.
`Strategies` EXTENDS the five strategies, `TradePing` EXTENDS `Router`, `Desk`
EXTENDS `Watcher` and `Agent`, `Studies` EXTENDS the studies, which EXTEND
`Tape`. `Engine`, `RiskManager` and `Strategies` share a boundary and not a
state: `Engine` reads one bit of the money (`bar.breach`, which may be anything
on a bar) and leaves open when a strategy enters or exits; `RiskManager`
computes that bit and leaves open when the loop enters, exits or holds;
`Strategies` computes the signals and leaves open how an order ends. `Router`
likewise opens up the one step `Engine` calls dispatch. Composing them would
multiply state spaces for properties that mention only one of them.

### Engine

A step is what runs between two awaits at which the world can move.

| `pc` | Code |
|---|---|
| `down` | no process; `Start` is `run_from_config` |
| `startup` | `Engine.run` before the loop: `StartupReconcile` |
| `bar` | `async for bar in self.feed.stream(...)`: `SkipBar`, `ProcessBar` |
| `strategy` | `_run_strategy`: `StrategyQuiet`, `StrategyRaises`, `StrategySignals` |
| `dispatch`, `settle` | `_handle_signal`: `router.dispatch`, then window, reconciliation and tracker |
| `persist` | `_persist` and the interval counter |
| `interval` | `reconcile(trigger="interval")` |

A cutoff or limit flatten goes `bar` → `dispatch` → `settle` → `strategy`; a
strategy's signal `strategy` → `dispatch` → `settle` → `persist`.

| Variable | Code |
|---|---|
| `held`, `limbo` | what the broker holds per account; an unanswered order that may still fill |
| `store` | `StateStore`, a row per session date |
| `cursor`, `last` | the feed's position; `_last_bar_time` |
| `win` | `_resume_from`, `_backfill_until` |
| `sess` | `current_session_date`, `_flattened_for`, the adoption flag and date |
| `pos`, `book`, `recon` | tracker; `trades_taken`, `is_halted`, `_recent`; `_reconciliation_detail` |
| `bar` | breach on this bar, and the position the context shows |
| `order` | the signal in `_handle_signal` |
| `history` | for properties only, never read by an action's guard |

Abstractions. Time counts bar closes of one timeframe; `Slots` closes are a
session, entries are open from `Open` to before `Cutoff`, and up to `MaxGap`
closes may pass without a bar. A position has one contract per entry, a price
from `Prices`, and a flag for whether stop and target are known; the exit bar
is a choice. `Broker` fixes the broker's bracket: `"mirrors"` fires it with
the tracker's, `"free"` at any time, `"never"` not at all. A veto that
depends on a file (halt file, account list) is the strategy staying quiet. A
strategy enters only from a flat context and, where `Exits`, closes what its
context shows; this is what the strategies in `strategy/` do.

### RiskManager

`Bar` is the loop from `tracker.on_bar` to `mark_to_market`, in the code's
order: roll, book, mark. `Exit`, `Enter` and `Hold` are `_handle_signal` for
a FLATTEN, an accepted ENTRY, and neither; `Reconcile` replaces the position
without booking; `Start` restores. A breach always leads to `Exit` unless a
source holds the belief in doubt, as `_risk_flatten` has it. The first
bars of a process may be warmup bars (`pc = "warmup"`): figures move, nothing
is decided or saved. `Persist` is the end of a live bar, `Crash` a kill and
`Teardown` an orderly end, which saves wherever the process was. `now`, `saved`
and `life` are history: the account's worth when the day opened, what earlier
processes realised, and its peak.

### Feed

| Variable | Code |
|---|---|
| `provider`, `asked` | the binding (`live_binding`, `replay_binding`), and `resume_from` |
| `market` | the timestamps of all trades, in order of arrival |
| `pc`, `position`, `attempt` | `ReconnectingFeed.stream` |
| `stream` | one connection: the time it replays from, the first tick it may see, the next one, the tap's cutoff |
| `builders`, `lastTs`, `closed` | `BarAggregator`, and the bars `add_tick` returned and `stream` has not yielded yet |
| `tapMark` | `_tap_high_water` |
| `tapped`, `delivered`, `presumed` | history: what the tap counted, the bars the caller applied, those that count as applied though they were not |

A tick is its place in `market` and a bar the set of ticks in it: open, high,
low, close and volume are functions of that set, so a property about the set is
one about all five. Between the bars of one tick nothing is awaited but the
caller, which is why `Drop` needs `closed = {}`; a death (`Dies`) does not. A
bar is applied and saved in one step (`Yield`): a death between the two leaves
the state as if the bar had not come, and what that costs is `Engine`'s subject.
Timestamps may lie up to `Skew` behind the last: `add_tick` raises on such a
tick, which the wrapper takes for a disconnect. The provider's replay (every
trade from `start` on) is external. The time a backoff takes is left out, the
attempts it counts are not.

`Engine` uses the feed through its promise only: bars in order, each once
(`Deliverable`, `Deliver`).

### Strategies

A strategy is `mem` and `OnBar(mem, in, ctx, t)`, which returns the next memory
and at most one signal; `Tfr`, `Afr`, `Naim` and `Sme` write out the same phases
(`idle`, `armed`, `pending`, `in_trade`, `wait_rearm`, `done`) with their own
entries and exits, `Orb` stands for the two that fire once and manage nothing.
`in` classes what a bar can say (flow beyond the percentile, regime armed or
gone, close in or out of the band, low and high in steps of the risk); the
percentiles and prices behind the classes are left out. `ctx` is what
`context.py` shows: the position, the trade count, whether the bar is warmup.

`Strategies` hosts one: `Bar` is an iteration of the loop (tracker's exit,
session callbacks, strategy, suppressed or vetoed or routed signal), `Save`
persists, `Repair` is a reconciliation that adopts or drops a position, `Crash`
a kill, `Stop` a teardown (with `on_session_end`) and `Start` restores. `setup`
fixes strategy and options for the behaviour: exit mode, hours, gate, live or
replay, with or without a position source.

Two kinds of history are kept, and no guard reads either. `history` goes where
the state goes: it is saved with the row, restored with it and lost with it, and
notes how a position was abandoned (`orphan`) and what the process can know of
entries and refusals. `wire` counts per session date what really left and was
refused; no kill takes anything back from it. `due` is what the bar at hand sent
and has not saved yet, and a kill that strikes then adds it to `lost` and
`forgotten`: the difference between the two kinds, by name.

### Router and TradePing

| `pc` | Code |
|---|---|
| `idle`, `emitted` | the engine between signals; `signal_emitted` is on record |
| `telling`, `ordering` | `_run_group` over the notifiers, then over the brokers enabled by then |
| `alerting`, `alerted` | the alert after a leg that did not fill, then `_handle_signal`'s verdict |
| `raised`, `down` | an exception on its way out; the process gone |

An order is on `wire` until the broker acts on it (`placed`) or understands and
refuses it (`refused`), also long after its leg has timed out. `leg` and
`result` are the tasks of a group. `file` is `accounts.yaml`, edited at any
time, absent or malformed included. `lines` and `torn` are the journal as a
reader sees it: in a scenario with `halves` a death may cut a record, and the
next record is appended to the half. `TradePing` adds the second process: `saved` is its state file,
`queue` what it has drained and not notified yet.

### Ledger

`market` is what the broker executed; `inbox` the frames of the websocket;
`fills` and `trades` the tables; `dirty`, `task`, `asked` the pump; `job` the
calls of `rebuildGroups` at work, each a read, a write and a prune that may
fail. `Reconstructed` is `reconstructTrades`. A fill is its number, group, side,
quantity, timestamp and `rank`, the place of its order and execution ids among
those of one moment, which the walk sorts by and which says nothing of the order
the fills arrive in; its fee is one unit per contract once it is known. A row
is a copy of it, from the API (`Api`) or from an export without execution ids
(`Csv`). A fill's or a fee's request may fail, or be carried out and then raise.
`mishap` notes that a request failed half-way or two rebuilds had a group in
common, `missed` the fills whose lookup or upsert failed, `late` the groups that
got a fill which sorts before one they already had.

### Desk

`co` holds the two coroutines of the watcher, each a plan of triggers and the
await it is in (`tool`, `store`, `ping`, `insert`, `publish`); `mem` its fields;
`turn` the requests to the chat, each in its step of `run_turn`. A reply is what
the checks tell apart: holds a view, keeps to the voice, begins with one of the
openings that rule 3 takes for a stale note (`excused`). The model may answer
anything, and the classifier, or a rewriting, may leave a reply and its class
apart (`garbled`). A turn that fails stays in the record as it was, with step
`error`: what it logged is graded. `summed` are the rows the summaries of the
chats, as they are now, were written from: a new summary replaces the old one
and is made of the last `Transcript` rows. `Abort` is a grader's update that
raises and ends the run. The world (clock, heartbeat, commands, the market's events) moves
between any two steps. `used` counts what a scenario allows.

### Flow

`tape` is the market's ticks; `shadow` the run with the ticks it was fed and
its `FlowEngine`; `book` the decision records handed to the strategy, `files`
the day's records on disk, `calibrated` the sessions tomorrow is computed from;
`state` and `vbp` the market state engine's bins and their Redis cells. A ratio
of flow is kept as the pair it divides. `offline` is what the drift audit
computes over a day's ticks (`audit_drift.py`), `priors` what it had computed
before each tick: what is recorded live is compared with them.

### Studies

`tape` is a session file that `Longer` and `NextSession` extend, `found` what
the study `bound` names finds in the file so far: the model re-runs the whole
scan after each extension, so that a question about look-ahead becomes a
question about two consecutive states. Prices are ticks from a reference;
a five-minute bar has `Block` minutes. The studies of past trades are asked
about a trade at every minute; the walk-forward studies see one session per step.

## 3. Runs

A run with several scenarios chooses one in its initial state; the scenarios
are named in the run's `MC*` module. A property in several parts is the
conjunction of named definitions of its module, each with its own comment.

| Run | Asks | Instance |
|---|---|---|
| `replay` | a killed and resumed replay: is each bar applied once, are halt, count and duplicate window kept, is it flat after each cutoff, does the account hold the belief? | 2 sessions, 2 accounts, 3 starts, a duplicate window of 4 bars |
| `accounts` | with a source reconciling at startup, on UNKNOWN and every 2 bars: do entries leave only from agreement, is the belief the broker's? | 2 accounts, one of which may be off, 2 starts, 1 teardown, a broker that closes by itself |
| `fair` | is a believed position eventually closed, and does a doubt block entries until a pass agrees? | 2 sessions, all outcomes, reconciliation every 2 bars |
| `money` | both limits and both figures, equity basis | 3 prices, long and short, 2 days, 3 entries, 2 starts |
| `feed` | do bars reach the state in order, once and whole, is each tick tapped once and in time, does every bucket that trades have passed come out? | 2 timeframes, 4 trades, timestamps up to 1 late, 2 attempts, 1 death, live and fixture, with and without a resume point |
| `strategies` | does a strategy keep managing what it entered, respect refusals and caps, remember what happened? | 12 setups (every strategy and exit mode), 8 closes over 2 sessions, 2 starts, a kill at any step of the first, 1 teardown, 1 reconciliation |
| `router` | is every leg answered and settled, is the journal ahead, is the human first and told? | a human, a webhook, a dry run; 2 signals with edits of the file and a death; 2 signals and a death that may cut a record, which the next is appended to; 1 signal under a watcher that may die |
| `ledger` | does the ledger add up and keep step, through drops, imports and overlapping rebuilds? | `Crossing`: 3 fills of up to 2 contracts, with a fee; `Tied`: 3 fills of one moment in every order of ids; `Rough`: a drop and a failed call; `Imported`: 3 fills and a CSV; `Shared`: two groups and a CSV |
| `desk` | do limits hold, is what is told whole, does work end? | 11 scenarios: the watcher over two days, outages, its coroutines at their limits, a page, the checklist, a chat of 5 questions (10 rows, a summary every 4 of the last 6), chats at once and behind, the grader |
| `flow` | are live records the offline ones, are files whole, is each tick profiled once? | `Once`: 3 ticks of any side; `Twice`: two sessions; `Again`: stops, kills, restarts; `Profile`: the state engine |
| `studies` | does a find stay a find, could a trade have been made, does a study report what it defines? | 22 scenarios over 15 studies, files of up to 12 minutes or 8 sessions |

| Property | Parts |
|---|---|
| `WholeBars`, `TapExact`, `InOrderAndOnce`, `EveryBarComes` | bars of ticks; taps once (`TapOnce`) and in time (`TapBeforeBar`); `BarStream`'s specification; liveness |
| `MemoryExact` | `AssertionsHold`, `BankedOnce`, `MemorySurvives` |
| `PositionsManaged` | `OpenIsManaged`, `FadesTheAggressor`, `FlatByClose` |
| `EntriesWithinCap`; `NeverTakenBack` | the latter `RefusedIsFinal`, `StopOnlyTightens` |
| `LegsAccounted` | `EveryLegAnswers`, `RejectedNeverFills`, `ToldOfFailure`, `SessionsReleased` |
| `JournalLeads` | `OnRecordFirst`, `OneDeathOneRecord` |
| `OrdersInTurn` | `HumanFirst`, `SwitchedOffGetsNothing`, `DispatchReturns` (liveness) |
| `PingedPerLife` | `OncePerLife`, `EveryTradePinged` (liveness) |
| `LedgerAddsUp` | `TypeOK`, `Accounted` |
| `LedgerInStep` | `StoredOnce`, `LagIsMarked`, `ManualStays` |
| `NothingLost` | `TradesStay`, `SnapshotBackfills` (liveness) |
| `LimitsHold` | `RateLimited`, `OncePerOccasion`, `FoldedOnce`, `HardBlock` |
| `ToldInFull` | `FeedShows`, `StaleToldFirst`, `ViewsRest`, `OpinionsOfReplies`, `ContextKept` |
| `DayReadPosted`; `WorkEnds` | liveness; the latter `TurnEnds`, `EveryOpinionGraded` |
| `RecordsExact` | `TypeOK`, `RecordsFinal`, `NothingMissing`, `CalibratedWhole` |
| `TicksKept` | `ProfileOnce`, `RecordKept` (liveness) |
| `Causal` | `NoHindsight`, `HindsightOnlyOfLimits`, `ForwardOnly` |
| `Tradable` | `AdverseFirst`, `OneAtATime`, `FadesFollowBreach`, `WalksAgree`, `FlatAtDeadline` |
| `AsDefined` | `BlocksWhole`, `OneEventPerSweep`, `SetupsEarned`, `AbsorbedOnlyUnseen`, `FlagsHonest`, `TriggersAgree`, `OneTrigger`, `ZeroLookahead` |

Violated, a statement of the repository that the code does not keep
(`PROJECT.json` "findings" quotes it): `v_unknown_entry`, where an UNKNOWN entry
is reconciled while the tracker is still flat, agrees, and then opens a phantom
with entries open (`UnblockedMeansAgreed`).

### Edges

What the code does at the edge of a property is recorded here. The runs avoid
it by their instance or by an exception the property states, never by a changed
definition.

The bar loop and the money figures:

- the session's only cutoff flatten is used up on a warmup bar, where it is
  suppressed, and the position stays on (session.py:136; `FlatAfterCutoff` in a
  live restart over the cutoff);
- the reconciliation block is not in the snapshot (limits.py:184), though the
  runbook (`docs/RUNBOOK.md`:208) says it holds until an agreement: a restart
  clears it (`NoEntryInDoubt` with `MaxStarts = 2`);
- a position carried over a rollover that closes on the next bar is charged to
  the new day in full (main.py:780, limits.py:114; `DailyIsToday` with
  `Carry = TRUE`);
- a live start on a new date begins with an account at zero, and the lifelong
  drawdown is forgotten (main.py:943; `NoEntryPastDrawdown` with `Live = TRUE`);
- the cutoff bar's strategy sees the position just flattened, and a strategy
  that exits on that bar flattens again and reverses the account
  (`BrokerHoldsBelief` with `Exits = TRUE`);
- a teardown in the skip window saves an older bar time beside a newer state,
  and the next process applies bars twice (`AppliedOnce` with `MaxStops = 1`);
- a position adopted after the session's cutoff flatten stays on
  (`FlatAfterCutoff` with a source and `Interval # 0`);
- a kill between dispatch and save forgets the duplicate window and the count,
  and the entry may be repeated: `SavedEntryNotRepeated` and `EntriesBounded`
  therefore speak of what was saved.

The feed:

- after a reconnect the first bar of a timeframe longer than the base lacks the
  ticks from before the resume point (`JoinedInside`, which `WholeBars` excepts);
- a process that dies between two bars of one tick resumes after the first. The
  second is lost: at the same close it counts as reflected (main.py:729), at a
  later one its ticks lie before the point the live feed resumes at
  (`presumed`, which `EveryBarComes` excepts).

The strategies:

- a kill between the dispatch of an entry and the save of its bar forgets the
  entry, or that it was refused: the process that comes back may send one more,
  also after a veto (main.py:557; `lost` in `EntriesWithinCap`, `forgotten` in
  `RefusedIsFinal`);
- the paths on which a position is left to its bracket are the values of
  `KnownOrphans`, a suppressed exit in warmup and a missing decision book among
  them; `tfr` counts the bars of a decay also for a later trade (`fd_count`).

The order path:

- notifiers are told of a signal when every account is off, and a notifier's leg
  that fails counts as a failed leg of the signal;
- after a death in the middle of a line the next record is appended to it and
  both are unreadable (`OneDeathOneRecord` says that it stops there).

The ledger:

- a rebuild that does not answer 200 drops its groups until the next fill
  (fill_pump.py:96; `LagIsMarked` excepts it);
- a group marked while a rebuild is on the wire is marked, and no task is started
  for it: its trades lag until the next fill or fee of any group
  (fill_pump.py:86; the mark is all that `LagIsMarked` asks for);
- a fill's or fee's request that is carried out and then raises leaves its group
  unmarked, and its trades lag (fill_pump.py:57, 83; a `mishap`);
- two overlapping rebuilds of one group prune by what each read, and a trade
  with its tags may go (rebuild.ts:106; `TradesStay` excepts them);
- a fill that arrives after one it sorts before, imported, looked up or ranked
  late (the ids of one moment are compared as strings), may regroup the trades:
  the next rebuild prunes those it no longer finds, with what a user attached
  (`late`, which `TradesStay` excepts);
- a CSV without execution ids is deduplicated by its values: two equal fills are
  one (`CsvHasIds = FALSE`).

The desk:

- a ping inserted between the backlog's query and the subscription is shown by
  neither (api.py:142);
- the key of the last lean is never cleared: the first flip of a day may be
  against yesterday's read (watcher.py:224);
- overlapping submissions pass the checklist's hard block (route.ts:22; no run
  has them, and `HardBlock` excepts them);
- an opinion is logged before its turn has written its rows: a turn that then
  fails leaves an opinion to be graded of a reply that is not in the chat
  (loop.py:219; `OpinionsOfReplies` looks at failed turns too);
- a reply that is written again keeps the classification of its first wording
  (loop.py:180; `garbled`, which `ViewsRest` and `OpinionsOfReplies` except);
- a reply that begins "data is" or "i can't see" counts as saying that its data
  is stale, whatever follows (postcheck.py:157; `excused`);
- a summary is written of the last forty rows and replaces the one before: what
  only that one had is gone (loop.py:289; `ContextKept` speaks of those rows);
- two chats at once, or an append that fails half-way, step over the row count a
  summary is due at, and old rows are in neither summary nor window (loop.py:287);
- 200 opinions that cannot be graded stay in front of every night's run
  (grader.py:50); the weekly scorecard is stored and published by nobody;
- the day's read is marked posted before the calls that make it (watcher.py:136).

Flow: a shadow run restarted on one day counts the minutes it replays twice and
drifts from the offline record (flow.py:11, run_shadow.py:54); one that is
killed leaves a truncated record that is not marked partial; a restart of the
state engine overwrites the cells of the minutes it replays.

The state engine runs for days and never starts a new one: its flow minutes are
keyed by the minute of the day without a date (engine.py:61, flow.py:94), and the
session's high and low, its open, VWAP and profile are never cleared. From the
second day on, impulse and cumulative delta add the days up, against engine.py:5
("so the numbers match fc_t13"). `Flow` models its price cells, which carry the
date, and not these.

The studies (a study's own statement is quoted in the property's comment):

- `ict1_studies` fades: a breach in the first minute of a five-minute bar starts
  the reclaim window at the close before the breach (447); gaps are scanned gap
  by gap, so a later gap's trade vanishes if an earlier limit fills later, and a
  target may be credited from prices of the fill bar before the fill (348);
- five-minute bars (`ict1_studies`:152, `sdd_study`:182, `sfb_study`): a missing last
  minute of a block drops the next block or mixes the two;
- `run_vpc`: the "absorbed" flavour is unreachable but for a bar without VWAP or
  the control's fixed trend (238); missing flow bars count as quiet;
- `sfb_study` merges a sweep with the last merged event only, in rank order
  (385), and flags a merge of one class with itself as confluent;
- `sdd_study` does not see an ES extreme at a minute NQ lacks (499);
- `fmb1`, `ssx` and the MAE overlays book a stop the bar gapped through at the stop
  less a tick, the engine's bracket at the open (`WalksAgree`); `fmb1` leaves at
  the open after its deadline;
- `diagnose_sme` (97): without a 15:55 bar "flat at the deadline" is the file's
  last close, however late;
- `fmb1`'s overnight study keeps a session by its minutes up to 08:30, after the
  03:00 entry;
- `fit_regimes`: the label pool mixes labels of different fits.

### Bounds

`MaxTime`, `MaxGap`, `MaxStarts`, `MaxStops`, `MaxDeaths`, `MaxDay`, `MaxEntries`
and the counts of a scenario bound what the code does not. Two sessions are
enough for a rollover, a session with a row and one without, and a restart into
either; two starts for one loss of memory and three for a loss of what a restart
itself restored; two accounts for every disagreement of a consensus; seven bars
put closes before the open, inside the window, on the cutoff and after it, in
both sessions. Three fills reach a flip and a scale-in with different sizes, and an
import of the last before the first; three ranks every order of three ids; two
rebuild jobs an overlap; two pings the session's limit; four rows of a chat the
summary, eight the one that replaces it, and the fifth question finds rows that
have left both (a window of 4, a summary of 6). The one death of a scenario with
two signals can cut the first record and leave the second to be appended to it.
A study's file is long enough for its longest pattern and one more trade; the pieces of a scenario are the bars its steps tell apart, and longer
files would repeat them. The closed basis of the drawdown is left to the proofs,
which cover both.

Deadlock is not checked: the process does end when its stream or its
supervisor's restarts do, a study's file is complete, and every instance ends at
its bounds.

### Fairness

`Engine`'s `FairSpec` is weak fairness of the engine's own steps together:
every await of the loop has a timeout (router, position source) or is local,
and a feed that keeps running delivers its next bar. Nothing is assumed of
the broker, the operator, crashes or restarts, so `fair` has one start: a
process that dies is not promised to return. It assumes no particular
choice: the strategy may stay quiet for ever and no bar need touch a stop. The
feed's is weak fairness of the reader (connect, take the next
record, yield) and assumes nothing of the market or the connection: the
attempt budget alone rules out a connection that drops for ever. The router's
is that of a leg's timeout and of the loop around it, `TradePing`'s that launchd
starts the watcher again and its loop runs; the ledger's that the websocket is
retried and frames are handled; the desk's that the clock, a turn and the
grading go on, for each call they make returns or raises; the flow's that a tick
is delivered and the run's timeout fires. `replay`, `accounts`, `money`,
`strategies` and `studies` check safety only and use `Spec`.

Every property of a passing run has a mutant: a plausible slip of the mapped
code under which TLC finds the property violated by the same run. Mutated
operators stand before the operator they replace and are used nowhere else.

## 4. Proofs

### The money figures

`RiskManagerProofs` proves for every set of prices and sizes, both limits,
either basis, and any bounds:

- `TypeCorrect`: `Spec => []TypeOK`.
- `HighWaterAlwaysCovers`. `HighWaterInv` adds to the property that every
  saved row has a mark at or above its equity and zero: `Restored` reads rows,
  so the property alone is not inductive.
- `DailyFigureIsToday`, from `~Carry`. `TodayInv` adds that the opening
  mark is zero, in memory and in every row, and that each row's own figures
  satisfy the property against the opening saved with it. Without `~Carry` it is
  false, see the edges above.
- `DailyLossStopsEntries` and `DrawdownStopsEntries`: the two action
  properties, from `TodayInv` and from `PeakInv` (the mark equals the peak
  of the account's life). The second assumes `~Live`: a live start on a new
  date forgets it, see the edges above.

They rest on one lemma per operation (`RecordFacts`, `MarkFacts`,
`BarFacts`, `ExitFacts`, `SaveFacts`, `RestoreFacts`): what it does to the
differences the invariants are about. The assumptions are the named ASSUMEs of
`RiskManager`: prices are integers, sizes non-zero integers, commission,
limits and bounds natural numbers.

### The bar loop

For every calendar, horizon, set of accounts, set of order outcomes, broker
behaviour and number of starts and teardowns:

- `TypeCorrect`: `Spec => []TypeOK`, which includes that the
  trade count stays within its limit. `TypeInv` adds what `TypeOK` lacks to be
  inductive: a session that is open has a last bar (or a save would store none),
  a process past its bar has a session, and an order on its way out is a signal
  and, for an entry, leaves room under the trade limit until it is counted.
- `BeliefsFromBroker`: a startup or interval pass that
  changes the size believed leaves what every account holds. It needs no
  invariant beyond the types: it rests on `ChangeComesFromAll`, that an adopted
  position comes from a consensus of all reports.
- `EntriesFromAgreement`: the invariant is `BlockedUnlessAgreed`, that an
  unblocked process has had no answer or one that agreed. It rests on
  `UnblockedAgrees`, that a pass which does not block found agreement.
- `NoEntriesInDoubt`, from `MaxStarts <= 1`: `DoubtIsBlocked` adds that the
  doubt is blocked except in the one step of `_handle_signal` between the
  answer and the reconciliation it triggers. With a restart it is false: the
  block is not saved.

What follows rests on `ClockInv`: the session is the one of the last bar, a saved
row is of the session of its last bar, and no row is of a later session than the
process has reached, so what a process rolls into it starts from nothing.

- `HaltHolds` and `NoSavedEntryAgain`. `MemoryInv` ties memory to disk: the row of
  the session a process is in, if there is one, is reflected in what the process
  believes of its halt and of the entries it remembers.
- `EntriesStayBounded`. `CountInv`: the entries of a date are at most the count
  held for it (in memory for the session at home, in the row for another) and
  those whose count was lost with a process.
- `AppliedAtMostOnce`, from `Live \/ MaxStops = 0`. `AppliedInv`: the last bar
  the state has seen is not after the last bar the process or the row remembers,
  nor after the one it resumes from.
  The hypothesis excludes one edge above: the teardown of a replay, still in its
  skip window, saves a position short of the state beside it.
- `CutoffFlattens`, from `Unbroken` (no position source, and one process or a
  replay without an orderly teardown). `FlatInv`: past the cutoff of its session
  a process believes nothing open, or has yet to flatten. The three paths that
  break it (a position adopted late, a cutoff in warmup, a teardown in the skip
  window) are edges above.
- `BeliefIsHeld`, from `Mirrored` (orders fill, brackets fire together, no account
  is switched, strategies leave exits to the bracket). `HoldInv` says, account by
  account, what is held at every step from belief to order to belief, in the
  first process of a run (the property's own scope).

The assumptions are `CalendarAssumption`, `ConfigAssumption`,
`AccountsAssumption` (at least one order account, or `reconcile.py` indexes an
empty tuple) and three that keep `None` apart from signals, positions and rows.

### The feed

For any market, timeframes, skew, attempts, deaths and cutoffs, from the named
ASSUMEs of `Feed` only:

- `TradesCountedOnce`. `TapInv`: what the tap counted lies at or before its
  high-water mark, a tick not yet met lies after it or was met on an earlier
  connection, and a cutoff leaves out only what was met. A tick that is late is
  the hard case: it lowers nothing, and is counted by one connection or none.
- `BarsAreWhole`. `BuiltInv`: a builder holds exactly the ticks of its bucket
  since its connection's start, and the stream's positions are ordered.
- `FeedKeepsPromise`, the refinement of `BarStream`. `OrderInv`: bars closed and
  not yet yielded come after the last one delivered, or are skipped, and a
  reconnection starts where nothing delivered is built anew. Each action is shown
  to be a step of `BarStream` or to leave its variables alone.

### The order path

For any destinations, brokers, signals, edits of the file and deaths, from
`RouterAssumption` (among it, that `None` is not a number):

- `NothingForgotten`. `RouterInv` joins `LegInv` (where each leg of a group may
  be at each step), `PlaceInv` (an order on the wire or placed is one of a leg
  that was set off and not reported rejected), `ToldInv` (who was told of a signal
  is told of its failures) and the property's own parts.
- `HumanBeforeBroker` and `OnlySwitchedOn`: the safety parts of `OrdersInTurn`.
- `RecordBeforeOrder`. `DeathInv`: garbled lines, with the one a torn end still
  owes, are at most the deaths; `RecordInv`: a signal past `emitted` is a line.
- `OncePlusDeaths`: the safety part of `PingedPerLife`. `PingInv` counts, for a
  trade in the queue or beyond the saved position, one notification less.

### The strategies

For any windows, caps, bars, setups and numbers of restarts:

- `TypeCorrect`: `Spec => []TypeOK`.
- `EntriesCapped`. A pending entry is not counted until the next bar shows its
  fate, so the cap on what was counted is not inductive. `Room` says what was
  sent, as the process knows it: at most the count while nothing is pending, one
  more while an entry is; and nothing is said of a strategy that is done, for a
  refused entry was sent and never counted. `WireInv` carries that over to what
  really left: a process knows of all that left in its session but what a kill
  took (`Known`), a row also lacks what is due (`KnownByRow`), for every date not
  before the row's, which `CalendarInv` says a process never goes back behind.
- `MemoryIsExact`, the whole of `MemoryExact`. `CalendarInv` is to the strategies
  what `ClockInv` is to the bar loop: the session is the one of the last bar, a
  row's date the one of its last bar, and a live process is never in an earlier
  session than the row it may be restored from. On it rests `BankInv`: in memory
  and in the row, a session before the present one is counted at most once more
  than there were teardowns, the present one only where a teardown filed it
  (`Books`), and a process has all that the row has (`Covers`).
- `NothingTakenBack`. `Spent`: after a refusal the strategy is done, or pending
  with no trade counted since, which the next bar reads as refused; by `WireInv`
  a refusal that left and was not forgotten is one it knows of. `SameSide`:
  the direction sme trails in is that of its own position.
- `PositionsAreManaged`, the whole of `PositionsManaged`. `MindInv` says of a
  position of its own, in memory and in the row (`Minds`): the strategy manages it,
  and if it is still pending the engine has counted the trade, or the note says
  which of the known releases let it go; and, for the 5m bar that follows the 1m
  bar of a close (`FlatByNow`), that what was not closed from 15:55 on is noted.
  A release is told from a loss by `Tends`: a strategy starts to manage with an
  entry only, and one that quits a confirmed position without a FLATTEN is done.

Each strategy has a lemma for a bar and one for its session callbacks and
restore: a bar keeps its memory well formed (`Fit`) and moves phase and count
as `Moves` allows, or sends an entry as `Enters` does (`NaimBar`, `AfrBar`,
`TfrBar`, `SmeBar`, `OrbBar`). `MovesKeep` and `EntersKeep` show once, for all of
them, that this keeps `Room` and `Spent`; the host's actions then need not know
which strategy runs. `NaimTends`, `AfrTends`, `TfrTends` and `SmeTends` do the same
for what a bar does to a position; `TendsInStages` cuts an `on_bar` into what it
settles, manages and tries. The assumptions are the named ASSUMEs: `SetupAssumption`
lists the strategies there are, `StrategyAssumption` and `SignalAssumption` keep
`None` apart from numbers and signals, and `WindowAssumption` ends the entry windows
(15:00, sme 15:30, the defaults `main.py` runs with) before the flatten at 15:55.

### The desk

For any days, slots, leans, requests, forms, rounds, retries and bounds, and any
interleaving of the watcher's two coroutines, the turns, the forms, the page, the
grader, failing calls and restarts:

- `ToldWhole`, the whole of `ToldInFull`, from `ToldInv`. `TypeInv` says what a
  coroutine holds at each step (`CoFits`: a ping from the step that makes it, the
  row it wrote at the step that publishes it). `TurnsSound`: nothing of a turn is
  told or on record before it is checked, a reply whose view and class differ is
  known as one, what a turn is about to log may be recorded (`Recordable`), and
  stays so in a turn that fails. `FeedInv`: what the page awaits is a ping, shown or held by the
  coroutine about to publish it.
- Of the chat's memory, `ChatInv` says, for one turn at a time and no failure: a
  turn has left an even number of rows except between its two, and the summary
  was written from the last `Transcript` of the rows up to a multiple of `Every`
  (`SummedUpTo`), with fewer than `Every` after it, or exactly `Every` while the
  turn at work still owes it. Of the last `Transcript` rows those that are not in
  it are then no more than the window holds.

- `LimitsAreKept`, the whole of `LimitsHold`, from `LimitInv`. The limits of the
  table are not inductive: a ping is booked in memory before it is inserted, and
  the step that lets it through may have read what the other coroutine has since
  changed. `BookInv` therefore speaks of the pings `Told`, those in the table and
  those on their way to it: what the memory has of each while its process lives
  (`Known`: a later or equal time in its cooldown, its flag set, an outage's flag
  set while the outage lasts), that any two are `Apart`, and that those of the
  session are no more than the count (`Counts`). `ClockClear` and `EventClear` say
  of the tasks a coroutine still holds that each is due once, and that a one-shot
  ping it has made up its mind to send was not told before; only the clock sends
  those, only limited ones come from the event loop. `FormInv`: with one submission
  at a time, a form that was let through finds room. `FoldInv`: a refused ping is
  counted in a posted row, in one on its way, in memory, or among what went.

Each action of `Watcher` and `Agent` has a lemma that says what it makes of the
record of its coroutine or turn (`TakeEffects`, `SendEffects`, `CheckEffects`,
...); types, soundness and the chat use the same ones. `AgentAssumption` says of
the chat's numbers what `loop.py` fixes (20 rows to a summary, a window of 20, a
summary of 40): a summary falls due after whole turns, within the window and the
rows it is written from. `WatcherAssumption` keeps `None` apart from days, leans
and moments.

### The ledger

For any groups, jobs and scenarios, an export with execution ids or without, and
any order and ranks of fills, fees, lost connections, replays, imports, rebuilds
and failures:

- `LedgerInvariant`: `LedgerInv` is inductive. `InboxInv`: a frame speaks of what
  the broker has executed, a fee frame of what it has charged, whichever
  connection brought it. `FillsInv`: a row is the fill as executed, once per key.
  `GroupsInv`: only groups with rows are marked, asked for, worked on or have
  trades, but for the trade entered by hand. The rest is claimed until the first
  mishap: a group has one job (`Alone`); a job works on the rows its group has, or
  the group is marked again (`RowsRead`); the trades a job has written are there
  until it has pruned (`Written`); and a group that lags is marked or worked on
  (`Remembered`). `Written` carries the argument over the two statements of a
  rebuild: pruning leaves the keys of the rows read, and if those are the rows
  still, no lag.
- `LedgerKeepsStep`: the whole of `LedgerInStep`. What a rebuild computes from the
  rows enters as an operator of the rows alone, so the proof holds whatever
  `Reconstructed` returns; that it adds up is `Accounted`, which TLC checks.

The assumption is `LedgerAssumption`: finite sets, and `None` and `Manual` no
groups.

### Tick flow

For any prices, spans, windows, sessions and days, and any number of ticks,
stops, kills and restarts:

- `FlowInvariant`: `FlowInv` is inductive. `TapeOrdered`: ticks come in time.
  `AuditInv`: the recomputation after a tick is that before it and the tick, a
  later tick changes no earlier minute, and takes nothing away. `RunInv` and
  `RowsInv`: a run is fed the day's ticks in order, and only what lies behind a
  processed minute is left out. `LiveInv`, for sessions of one run: the engine
  holds what the recomputation holds at its position, and what it decided was
  past. `FilesInv`, for runs that were not killed: what was fed is in the engine
  or in the file, and a file that is not partial was made at the end of its day
  and stays.
- `RecordsAreExact`: the whole of `RecordsExact`. A record decided at a boundary
  is that of the whole day, because it reads minutes before the boundary and
  those no later tick changes.

The assumptions are `FlowAssumption` and `FileAssumption` (that `None` is no
file).

### Only model-checked

All of `Studies`, and of the other runs:

- liveness: `EventuallyFlat`, `EveryBarComes`, and a part of `OrdersInTurn`
  (`DispatchReturns`), `PingedPerLife` (`EveryTradePinged`), `NothingLost`
  (`SnapshotBackfills`), `TicksKept` (`RecordKept`), `DayReadPosted` and `WorkEnds`;
  the prover does neither fairness nor ENABLED. The safety parts of `OrdersInTurn`
  and `PingedPerLife` are proved;
- what a recursive definition computes for every input, for the library's
  induction theorems take an operator as a parameter: what `Reconstructed` makes
  of a group's fills (`LedgerAddsUp`, of which the types of the trades' keys are a
  part, and `TradesStay`), the sums of the profile (`ProfileOnce`), and the scans
  and folds of the studies (`Tradable`, `AsDefined`, `Causal`);
- `UnblockedMeansAgreed`, which does not hold.

RECURSIVE operators, which would take the SMT backend away from a module, are not
used: recursion is by folds and recursive functions.

## 5. Not modelled

Formats, HTTP, SQL and logging; configuration checks; the percentiles and prices
a strategy decides by, beyond the classes its steps tell apart; `gex.py`, the
market state's levels, tape read and percentiles, bootstraps and panels of
statistics (floating point); the minutes of `sfb_study` before the scan window
and a session `run_vpc` has no quantiles for, which has no setups; `backtest.py`, which runs the engine over a fixture
and reads its journal, and the launchers over fixtures; what a tool of the agent
reads and what a prompt says; the web's pages and SQL migrations; the entity
cache and the token of the user sync; `get_bars`. Each is listed in `PROJECT.json`
with its reason.

## 6. Plan

Done: `Reconciliation`, `Engine`, `RiskManager`, `Feed` over `BarStream` with its
restarting caller; the strategies and their host; `Router` with `TradePing`;
`Ledger`; `Watcher`, `Agent`, `Desk`; `Flow`; the studies and decision files.
Proved: the safety of the money figures, the bar loop, the feed, the order path,
the strategies, the desk, the ledger's bookkeeping and tick flow.

Left:

1. The market state's levels and session extremes over a process that runs for
   several days.
2. Should the provers learn induction over data: that `Reconstructed` accounts for
   every contract and keeps the trades of a prefix, and the studies' scans.
