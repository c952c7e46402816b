# A verification project for mispricing-agent

The agent trades short-lived binary markets of Polymarket: it looks for
mispriced outcomes, lets a council of checks review each finding, buys with a
fill-and-kill order, watches the position and sells it or waits for the
settlement. One asyncio process does this; SQLite is its memory across
restarts, an operator steers it through Telegram and a kill file, and the
exchange is a remote party whose answers get lost. Beside the loop the
repository holds offline pipelines that collect, approve, store and replay
evidence, each with its own files and databases. This directory holds TLA+
models of the parts where failures, restarts and interleavings are dangerous,
the TLC runs that check them and the proofs TLAPS checks.

## The system

| component | state | operations | what makes it correct |
|---|---|---|---|
| order intents, live entry (`execution/order_intent.py`, `clob_executor.py`, `emergency_pause.py`) | rows of `order_intents`, `positions`, `execution_state`, `execution_state_events` | `execute`, `classify_fak_fill`, `confirm_fill_atomic`, `_recovery_ladder`, trip, clear and resolve of the pause | no dollar the exchange took is forgotten, no second order while the first is in doubt, no position without proof |
| position exit (`main_loop.py`, `execution/position_store.py`, `execution/reconcile.py`, `db/logger.py`, `position/manager.py`) | `open_positions`, `closed_today`, rows of `positions` | monitor, flatten, websocket settlement, heal, startup reconcile | every held position is known, every closed row is of a position that is gone and records what it earned |
| gates of the main loop (`main_loop.py`, `monitor/*`) | flags of `monitor/state.py`, kill file, risk row, session counters | one iteration, telegram commands, risk sync, UTC rollover | an entry starts only when all limits allow; commands are served |
| websocket feed (`data/ws_prices.py`) | three subscription sets, a price cache, a connection | subscribe, unsubscribe, flush, reconnect | every wanted token is streamed |
| Araf reconciliation (`data/clob_reconcile.py`, `execution/araf_*`) | shadow rows | order fetch, trade pages, `decide_araf_resolution`, zero-fill stability | an intent of unknown fate is resolved only on proof |
| paper tracker (`execution/paper_tracker.py`) | paper trades in memory, their rows and exit models | open, mark, close, recover | rows and memory agree; a profit is booked once; every paper ends |
| managed position runner (`tools/gateg9_managed_position_runner.py`, `analysis/forensic/gateg9_managed_exit.py`) | managed positions, overlay events, terminal rows | admit, poll, trigger, sell, settle, resume | each leg is booked once, a restart forgets nothing |
| approval (`approval/*`) | approval ledger, S1 container, blob directory | preflight, review, initialise, append; persist a blob | what is reported is what is stored, also after a death |
| phase 5 (`phase5/*`) | none, carriers passed by the caller | ten evidence boundaries | what is let through is sound, refusals are justified |
| phase 6.1 and 6.2 (`phase6_*`) | audit log, manifest, collection ledger | runs over the stream, replay, bounded collection, ingestion | the log is the stream, a replay is the charter, reports add up |
| raw acquisition (`raw_acquisition/public_raw_capture.py`) | captures and attempts | fetch and commit | a capture has one attempt and its bytes |
| council, market data, pricing, notifications, tools, analysis | mostly none | findings, reviews, quotes, reports | arithmetic |

How they interact. `main()` is one loop: stop flags, flatten, monitor, queued
resolutions, pause check, risk sync, scan, council, gates, `execute()`, heal.
Everything that is awaited lets the telegram task, the websocket task and the
paper monitor run: they share module-level flags, sets and lists with the loop. The loop
hands a finding to `execute()`, gets an envelope back and appends the position
to `open_positions`; the exit paths take it out again. After a death the rows
are all that is left, and `_load_open_positions` and `startup_reconcile`
rebuild the rest. The offline pipelines share nothing with the loop but
files: raw captures feed the S1 ingestion, the event stream feeds the audit
log, the audit log feeds the replay, the G8 ledger feeds the managed runner.

Hard behaviours: a reply of the exchange that is lost or says nothing; a
process that dies between two writes; a COMMIT that is durable but reports an
error; a command that arrives between the check of a flag and its use; partial
fills chained over restarts; a send that is cancelled half way; a page of trades
that is older than the order record it is combined with; a directory entry
that only memory holds. PROJECT.json lists them as hazards, each at its line.

## Modules

* **OrderIntent**: the states of an intent, the monotonic guard of
  `transition()`, and `classify_fak_fill()`. Pure. An amount is a number in
  units of USD, `Missing` (None) or `Unparsable` (an empty string makes
  `Decimal` raise). Shares only matter by being positive.
* **EntryLedger**: the abstract specification of the entry: a line is
  reserved, exposed, and then booked with exactly what was filled or void. It
  does not mention replies, connections, crashes or pauses.
* **ClobExecutor**: `execute()` from await to await (`pc`), the four tables
  it writes, the exchange (`order`, `filled`) and `open_positions` (`memory`).
  Every write has the outcomes of SQLite: committed, failed, committed but not
  acknowledged. `Truthful` says what a reply allows to be true at the exchange:
  a matched FAK is dead with the amounts it names, "no orders found to match"
  means nothing was filled, anything else may hide anything. A dead process
  restarts with the rows. The variable `unrecorded` is history.
* **PositionExit**: the wallet (`held`, `cash`) is the truth, `row` and
  `mem` are what the program believes. A sale is `StartSell`, `Answer`, then one of
  `Unsold`, `PartialFill`, `PartialRaises`, `CloseSold`, `CloseRaises`, and a
  write to the row that may fail. Settlement by poll, by websocket, by the
  late heal and by `startup_reconcile` write first and forget afterwards, each
  at a price of its own: the websocket settles at 1.0 or 0.0 by the name of
  the winner, a request at whatever `outcomePrices` says at that moment. A
  close that commits without being acknowledged leaves the position in
  memory, and the next settlement writes the row again, maybe at another
  price; `ClosedIsFinal` says that this is the only way a price changes. The
  history `unbooked` names the positions with a sale that the program was never
  told of or lost on the way; the accounting properties are about the others.
* **EntryGates**: one iteration of `main()` as a sequence of awaits, the
  commands between any two of them, the persisted risk row with its blockers
  and its rollover at UTC midnight, the session counters, restarts. `today` is
  what the program believes was earned today, `booked` what the rows say.
* **WsPrices**: `_pending`, `_subscribed`, `_pending_unsub`, the batch whose
  send is awaited, and the tokens the server streams. The history `lost` is
  the set of wanted tokens of batches no send delivered.
* **PaperTracker**: `_active` (memory), the rows of the paper and of its exit
  models, the take-profit ladder that is measured later, the monitor's cycle.
  A database write answers in time, fails, or commits after its timeout.
* **ArafResolution**: the exchange (fates of trades, what the feed shows,
  which orders rest) goes on between the two requests of a decision; the
  driver's batch, its decision over the record and the page, the shadow row.
* **ManagedExit**: the managed runner commit by commit. Each overlay holds a
  residual, triggers at one poll and sells at a later one; a run that dies is
  resumed by `Rehydrated` from the rows.
* **BlobStore**: directory entries and files as the processes see them and as
  the disk has them; `persist_snapshot_blob()` system call by system call.
  `PowerLoss` keeps what was synced and any part of the rest.
* **S1Append**: preflight and recording of approvals by several callers, the
  decision over a snapshot of the caller, the initialisation of the container
  in several transactions, and the append circuit with a guard that its callers
  share or do not. That an approval is in the ledger is a Boolean of the
  snapshot and the circuit compares only the status and the digest of the
  decision: nothing ties a row to the ledger, and one decision serves any
  number of commands.
* **RawCollection**: the raw capture, the bounded collection of two legs per
  cycle with its ledger and report, and the S1 ingestion by the scheduler
  and by an operator at once.
* **NetEdge**: the units and the net edge, pure; used by the next two.
* **NetEdgeChain**: the boundaries of phase 5 in the order of their contracts.
  A boundary is an operator that answers a verdict; the caller is the
  environment and brings any carrier the factories can build, at any time. The
  envelope is tied to nothing of the observation before it, as in the code. Only
  the last boundary refuses padded labels and units and figures in other digits
  than ASCII; the factories and the gates before it take them.
* **PassiveShadow**: the runner over an event stream, the audit log, the
  manifest, and the replay of the log through the lifecycle of hypothetical
  intents. Several runs append to one log.
* **..._proofs**: the theorems about the module they are named for, or about
  a group: **MainLoop_proofs** (EntryGates, WsPrices), **Stores_proofs**
  (S1Append, BlobStore), **Fills_proofs** (ManagedExit, ArafResolution),
  **Evidence_proofs** (RawCollection, PassiveShadow). The second module of a
  group names its specification with a prefix (`WSSpec`, `BSSpec`, `ARSpec`,
  `PSSpec`). The **MC** modules name the values of the constants.

Definitions whose comment begins with "Mutant" are plausible mistakes in the
definition that follows. No action uses them; they show that each property
can fail. Definitions whose comment begins with "Violated" are what a doc or
a comment of the repository says and the model refutes; they are findings.

## Runs

| run | shows | bounds |
|---|---|---|
| clob_executor | money is accounted, one order in doubt per token, no phantom rows, write-ahead, the pause stops orders, terminal is final, and EntryLedger is implemented | 2 intents, 2 tokens (both on one token, or one on each), `Requested = 3`, `Dust = 1` |
| position_exit | positions are never orphaned, closed only when gone, booked as earned, never reopened, priced again only after an unacknowledged close | 2 positions of 100 shares, sales of 49, 98 or everything, one sale price, resolved at 0 or 3 by a request and at 0 or 4 by the stream |
| entry_gates | the cap, the known loss, the pause before the scan; a flatten is served | cap 1, 2 trades, 2 findings per scan, 2 days, daily sum within 1, 1 hidden row |
| ws_prices | `_subscribed` agrees with the server, only batches in flight are lost, wanted tokens are streamed | 3 tokens, 2 broken connections |
| paper_tracker | memory and rows agree, a profit is booked once, a measured level was reached, every paper ends | 2 keys, 2 ids, the break-even model, returns -46 and 20 %, one level |
| araf | a fill is recorded only on confirmed trades, a zero fill only of a dead order | 3 intents (one unnamed), 3 trades, orders of 2 |
| managed_exit | legs add up to the profit, a sale follows its trigger, a restart forgets nothing | 1 position of 4 shares, 2 simple overlays and 3 tranches, 4 polls, 2 runs, 3 books |
| blob_store | a target is never torn, a reported blob survives a power loss | 2 processes, 2 blobs of the same shards, 3 calls |
| s1_append | reports agree with the rows | 3 commands over 2 pieces of evidence, 2 snapshots, 2 callers, 2 initialisers, 8 calls |
| raw_collection | the report agrees with the ledger, evidence is whole | 2 cycles, budget 1, 2 bodies, 1 fetcher, 3 fetches |
| net_edge_chain | stages are sound, refusals are economic, later stages agree | clock 0 to 2, 3 values, 4 units, 2 labels and 2 units of size (one of each padded), figures in ASCII or other digits, sizes to 2, 2 costs |
| passive_shadow | the log is the stream, the replay is the charter, results only advance | 3 lines, 2 runs, times 9, 10, 11, 3 manifests |

Why these bounds. *clob_executor*: with `Requested = 3` and `Dust = 1` a reply
can be below the dust threshold (1), within it (2) and full (3); the
properties relate at most two intents, and the theorems hold for any number.
*position_exit*: 49 is partial, 49 twice leaves 2 shares, 98 is the first size
that closes; the loop handles one position at a time, so a second one is
enough to have another change meanwhile. *entry_gates*: every limit can be
reached and passed by one; all limits are thresholds of a single counter.
`Findings`, `MaxSum`, `MaxHidden`, `MaxDay` and `MaxBreaks` are bounds of the
model, not of the code. *ws_prices*: one token in flight, one subscribed, one
queued, and a break in the first or in a later flush. *paper_tracker*: two ids
under one key let a late commit meet the next paper of the key; -46 and 20 are
on both sides of the exit rules. *araf*: an order that two trades fill, one
filled in part, and pages that miss or repeat a trade. *managed_exit*: a book
of nothing, of one share and of more than the residual; four polls hold
trigger, partial leg, another trigger and the rest, with a death at any of
them; the last tranche is twice the others. *blob_store*: the third call finds
what the first two and a death left. *s1_append*: same evidence twice, same
window twice, one command that expects a row; one decision that serves all
three commands and one that is blocked. *raw_collection*: bodies repeat
within a cycle and across cycles, the budget runs out, a third capture comes
between the two reads of an ingestion. *net_edge_chain*: every comparison has
a value below, at and above it; one label differs from the other by a blank
only, and so do the units.
*passive_shadow*: 9 and 10 are ordered differently as text and as numbers; the
manifests hold a rise, a fall, an inert intent, one in another unit and a file
out of order.

Intents, tokens, positions, processes and blobs are interchangeable where
symmetry is used (clob_executor, position_exit, blob_store); the runs with
liveness properties use none. Deadlock is checked except where the program
ends: bounded runs (raw_collection, managed_exit, passive_shadow) and a chain
that has answered for good (net_edge_chain).

Fairness. *EntryGates* assumes `WF(Loop)`: every await in an iteration has a
timeout or ends in an exception that the loop swallows, so the loop goes on.
Nobody is obliged to send a command, to restart the process, or to close a
position. *WsPrices* assumes `WF(Run)` and that connections break finitely
often; with infinitely many breaks nothing can be promised. *PaperTracker*
assumes that the monitor's steps go on (each await has a timeout), that a paper ages,
and, with strong fairness, that requests about it do not raise for ever: an
exception leaves the paper for the next cycle, and nothing else would end a
paper whose every look raises. The other modules promise no liveness: an
order of unknown fate may stay so for ever, because no wired code resolves it,
and offline runs are started by hand.

## What is proved

Every safety property and every action property that a run checks is also a
theorem, about all values of the constants that the named assumptions allow
(TLC evaluates them all). For each specification there is an inductive
invariant, `IInv` where no other name is given, lemmas for its actions and a
theorem `Inductive`; the rest follows from it.

* **ClobExecutor_proofs**: `TypeOK`, `MoneyIsAccounted`, `RowIffOpen`,
  `OneInDoubtPerToken`, `WriteAhead`, `MemoryIsBacked`, `TripIsAudited`,
  `PauseStopsOrders`, `TerminalIsFinal`, and `ImplementsLedger`, that is
  `Spec => Ledger!Spec`. `IInv` adds three things. `Accounting` says for each
  status what must be true of the order and the row: nothing was sent before
  SUBMITTED_UNKNOWN, nothing is booked while the intent is unresolved, and a
  terminal intent belongs to an order that is dead and booked exactly.
  `Locals` says what `execute()` knows at each step: no other intent of the
  token is unresolved from the check to the creation, the current intent is
  SUBMITTED_UNKNOWN while a reply is handled, and the reply is truthful about
  the exchange as it is now (lemma `TruthIsStable`: later fills touch open
  orders only, and no reply that books or voids an order leaves it open).
  `PauseIsQuiet` says that a pause that is on found `execute()` at rest: only
  its own ladder, its last step, sets it, which is why reading the pause once
  at the entry is enough in this process. The steps of `execute()` map to
  Reserve, Expose, Fill, Book, Void or a stutter. `NeverDuplicate` is a
  by-product: the DUPLICATE answer of `confirm_fill_atomic` cannot occur here.
* **PositionExit_proofs**: `NothingOrphaned`, `ClosedMeansGone`,
  `BooksMatchCash`, `ClosedIsFinal`. A fill is booked in three places at three
  times: wallet, memory, row. `BeliefInv` says which of them agree between
  sales, `DealInv` while an answer has not reached memory; `RowInv` carries
  the finality of a close, because a position that memory keeps after its row
  got a price is resolved: the exchange fills nothing of it any more, and only
  another settlement can touch its row. No relation between the price of the
  stream and those of the requests is assumed.
* **MainLoop_proofs**, EntryGates: `CapHolds`, `KnownLossStops`,
  `PauseReachesScan`. While a scan goes on the risk row is the one of its sync,
  with the known loss and the pause among its blockers (`RowInv`); a command or
  midnight between its awaits changes neither the row nor what `closed_today`
  adds up to. WsPrices: `ServerMatches`, `OnlyBatchesAreLost`, with `Streams`:
  what the server streams while a send is awaited.
* **PaperTracker_proofs**: `MemoryMatchesRows`, `ProfitOnce`, `LadderBacked`.
  The monitor holds one paper at a time: what it has at hand is open, or closed
  and about to be forgotten (`MonitorInv`). A model leaves the list of profits
  to be written when its line is written, and only a closed row has such a list
  (`ProfitInv`); the peak of an open paper only rises until the row takes it
  over, so a level reached once is below it for good (`LadderInv`).
* **Fills_proofs**, ManagedExit: `LegsAddUp`, `FillFollowsTrigger`,
  `RestartForgetsNothing`. The rows of an overlay say all there is to say about
  it. The runtime in memory is the one its rows make (`MemoryIsRows`), which is
  why a resumed run is the same run; what the latest leg calls left is what all
  legs have not taken (`Balance`); every attempt has its own trigger
  (`Follows`); and no two events of a type share a poll, because a run is ahead
  of what it polled (`SeqsAhead`), so that sums over events are sums over legs.
  ArafResolution: `FilledIsProven`, `ZeroFillSound`. A row of a page repeats
  the size of its trade or has none (`Honest`); honest rows without a clash are
  those of distinct trades (`Genuine`), so what they add up to is what trades
  of the order add up to. Both rest on a small library: a sum over a finite set
  does not depend on the order in which `CHOOSE` yields its elements, and it
  moves along an injection.
* **Stores_proofs**, BlobStore: `TargetIsWhole`, `PersistedSurvives`. A
  temporary file belongs to the process that made it and is whole and synced
  when it is renamed (`TempInv`), so a target is synced in what is shown and on
  disk (`TargetInv`), and a blob is reported only after both had it
  (`DoneInv`). S1Append: `ReportsMatchRows`. A command is in the circuit as
  long as it holds the guard; with one guard for all, no row is added between
  its verification and its append (`CountInv`), also when it dies after the
  commit. `DuplicatesBounded`, which no run checks, is proved too: the records
  of a command and the callers that hold a preflight's yes for it never exceed
  the threshold plus the callers but one (`DuplicatesInv`).
* **Evidence_proofs**, RawCollection: `EvidenceIsWhole`, `ReportMatchesLedger`.
  Captures and attempts only grow, so what an ingestion has read stays true
  while another goes on (`IngestInv`). Of the scheduler (`SchedulerInv`) the
  step and the cycle say how long the ledger is, and what is pending is exactly
  the captures of the cycle that have no row, oldest first (`PendingInv`): this
  is why popping the oldest capture of a digest is right even when both legs
  got the same bytes. The counters are the sizes of the sets of whole cycles
  with two, one and no good rows (`Tallied`), cycle by cycle.
  PassiveShadow: `AuditMatchesStream`, `ReplayIsReference`,
  `ResultsOnlyAdvance`. Each audit row is what its line becomes (`AuditInv`).
  The text of a number has its digits (`TextDigits`, from the quotients by ten),
  so comparing texts by length and first difference is comparing numbers
  (`TextOrder`), and adding them digit by digit with a carry is adding numbers
  (`AddTextAdds`). With that, a row changes a slot as the charter says
  (`SlotStep`), the slots of a replay are those of the charter for the rows it
  has read (`Reference`), and the charter says of a longer log the same or more
  (`LongerAdvances`), whichever run wrote the rows.
* **NetEdgeChain_proofs**: `StagesAreSound`, `RefusalIsEconomic`,
  `LaterStagesAgree`. What a boundary has let through it would let through
  again (`PassedInv`), and a final refusal is the verdict on the carriers kept
  with it (`HaltInv`). The sum of a tuple of costs is shown to exist and to be
  a number from the least index at which it would not be.

Assumptions that the proofs use and the code justifies: quantities of the
managed runner have at least three steps of 1e-8, so that no tranche is empty,
and overlays are named once; the Araf queue is a finite sequence and an order
has finitely many trades, which add up to no more than its size; times and
windows are not negative; bodies and digests correspond.

Where a definition is recursive (`Text`, the carries of `AddText`, sums), that
the function exists and what it computes is shown from the least argument at
which it would fail (`LeastNatural`, `MinimalSet`), since the induction theorems
of the library cannot be instantiated here.

Model-checked only: the liveness properties `FlattenServed`,
`WantedIsStreamed` and `PaperEnds` (temporal reasoning under fairness and
ENABLED are beyond the installed provers), and that the definitions marked
"Violated" are violated.

## Findings

Where a doc or a comment says what the code does not do, the statement is a
definition marked "Violated" in the module, and TLC refutes it on the instance
of the module's run (OnePerWindow needs two positions of one window). They are
not part of the passing runs. PROJECT.json quotes the lines.

| definition | module | what happens |
|---|---|---|
| LastLock | ClobExecutor | when neither RECOVERY_REQUIRED nor the pause can be written, only the token of the lost intent stays blocked |
| VerifiedMeansTerminal | ClobExecutor | the verified resolve checks the intent it is given, not the one that tripped the pause |
| PartialIsLogged | PositionExit | a partial fill of a flatten is not written to its row |
| HealIsCumulative | PositionExit | the late heal writes the profit of the whole stake |
| PauseStopsEntries | EntryGates | a /pause during a scan does not stop that scan's orders |
| DailyLossStops | EntryGates | losses of positions closed by this process count as 0 |
| WantedIsTracked | WsPrices | a failed send loses its batch; a queued unsubscription drops a token wanted again |
| OnlyPrePatchInvalidated | PaperTracker | every restart closes every open paper |
| PartialIsFinal | ArafResolution | a "final" partial fill is decided while trades of the order are pending |
| PersistedIsDurable | BlobStore | a shard found in place may not be on disk |
| QuotaHolds | S1Append | the quota of a window is never counted |
| SoftFailuresAreSurvived | RawCollection | the first failed request ends the run, whatever the budget |
| RefusalsBecomePackets | NetEdgeChain | a refusal without its source raises instead of becoming a packet |
| OnePerWindow | ManagedExit | a resumed run admits a second position of a window and leaves the first |
| SettledOnce | ManagedExit | a settlement event from before a death keeps an old residual |
| FilledIsReported | ManagedExit | an overlay sold out before a death is closed as a residual |

## What is not modelled, and assumptions

* DRY_RUN is off in PositionExit and ClobExecutor: the dry path writes no
  intents and no orders. `COUNCIL_DECISION_AUTHORITY_ENABLED` and
  `NEW_ENTRIES_ENABLED` are assumed on in EntryGates; the repository ships
  them off, in which case no order is ever started.
* `HARD_PAUSED` is never set in EntryGates, because `on_trade_closed` is
  always called with a profit of 0 (finding DailyLossStops).
* Which exit reason fires (`check_exit`), prices, quotes, fair values and
  council verdicts are choices: they are floating-point functions of real
  times and quotes, and the price cache of `ws_prices.py` is told apart only
  by such times.
* A market that never resolves is outside PositionExit, and with it the
  starvation that the limit of three heals per iteration would cause.
* In phase 5, foreign objects that imitate a carrier are excluded: the
  exact-type checks of the factories are a rule of the environment. A decimal
  string is a number of its last place or malformed.
* The verifiers of `approval/` that parse ratification documents and
  manifests, the sealed bytes of a phase 6.2 manifest, the paired projection
  and the depth artifacts of phase 6.1: pure functions of files, compared byte
  by byte.
* Ladders of the managed runner are one bid level; its Telegram report is left
  out. Of the G8 capture only its ledger is there, which the runner reads.
* Table definitions of `db/schema.py`: what they constrain is in the models
  that write the tables.
* Telemetry, shadow logging and notifications decide nothing. Research tools
  and analysis scripts are started by hand and share no state with the loop.
