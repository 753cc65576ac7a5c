# Pump Launch Trader: TLA+ specifications

TLA+ modules about the runtime of this repository (a Rust workspace that follows
Solana launch events, trades them on paper and ships what it records to R2), the
TLC configurations that check them on small instances, and TLAPS proofs of their
main properties for every value of the constants.

- [What is here](#what-is-here)
- [The system](#the-system): components, state, interactions, what is hard
- [Segments and Archive](#segments-and-archive): the spool of a run, its uploads, crashes and restarts
- [LiveRun and PaperTrading](#liverun-and-papertrading): sources, gaps, trades
- [ChainView](#chainview): what the stream makes the trader believe of a token
- [TentativeSells and Settlement](#tentativesells-and-settlement): sells seen early
- [ShredReconciler and FixtureRun](#shredreconciler-and-fixturerun): guesses, bounded
  buses, replay
- [RpcBudget](#rpcbudget): the gatekeeper of remote calls
- [What is proved and what is only checked](#what-is-proved-and-what-is-only-checked)
- [Where code and documents disagree](#where-code-and-documents-disagree)
- [Plan](#plan) and [what is not modelled](#what-is-not-modelled)

## What is here

| file | what it is |
|------|------------|
| `Segments.tla` | the segment spool of a run and its R2 uploads (`runtime/src/segments.rs`, `r2-storage/src/lib.rs`) |
| `Archive.tla` | abstract: what the documents promise of the records of a run; `Segments` implements it |
| `PaperTrading.tla` | what one trade event does to a token and to the paper positions (`state`, `risk`, `decision`, `executor`, the gate of `handle_event`) |
| `LiveRun.tla` | source tasks, channels, supervisor; extends `PaperTrading` |
| `ChainView.tla` | Geyser filter, normalizer, curve and holders of a token (`ingest-geyser`, `live_source.rs`, `state`) |
| `Settlement.tla` | abstract: what the documents promise of a signal seen ahead of the chain |
| `TentativeSells.tla` | `TentativeSellManager` with the token state it drives (`shred_exit.rs`, `runtime/src/lib.rs`, `state`); implements `Settlement` |
| `ShredReconciler.tla` | `ShredReconciler` (`ingest-shred`) |
| `FixtureRun.tla` | fixture suites on bounded buses and their replay (`runtime/src/lib.rs`, `event-bus`); uses `ShredReconciler` as its specification allows |
| `RpcBudget.tla` | `RpcBudgetManager` and the live executor that pays for its sends (`rpc-budget`, `executor`) |
| `MC*.tla`, `*.cfg` | their instances for TLC; `X_y.cfg` belongs to `MCX.tla` |
| `*Proofs.tla` | the proofs about the module of that name |
| `FoldLemmas.tla` | lemmas about sums over sets, whole and by class, and folds over sequences, proved by a minimal counterexample |
| `PROJECT.json` | components, runs, mutants, the map from definitions to source lines, findings, hazards, theorems |

Run from this directory:

    tlc -workers 2 -config Segments_crash.cfg MCSegments
    tlc -workers 2 -config LiveRun_all.cfg MCLiveRun
    tlapm SegmentsProofs.tla

Paths below are relative to `crates/`. Definitions keep the names of the code
(`CloseDueToAge` is `close_segments_due_to_age`, and so on). A definition whose
comment starts with "Slip:" is a plausible mistake in the definition that follows
it; it is not part of any specification, and `PROJECT.json` ("mutants") pairs each
property with a slip that breaks it. Every counter that the code leaves unbounded
is bounded by a constant whose name starts with `Max`.

## The system

### Components

| component | state it keeps | operations | module |
|-----------|----------------|------------|--------|
| Segment spool (`runtime/src/segments.rs`) | open files, closed files, `segment_manifest.json` in memory and on disk, sequence counters, retry state | append, close, upload, verify, prune, publish the manifest, restart | `Segments` |
| R2 client (`r2-storage`) | objects | prepare, put, verify with HEAD | `Segments` (answers) |
| Geyser and deshred sources (`runtime/src/live_source.rs`) | attempts, `emitted_disconnect_gap`, stream | connect, back off, read, announce outages and recoveries | `LiveRun` |
| Geyser ingest (`ingest-geyser`) | `last_slot_seen`, deduplicator, write versions | slot-gap detection; duplicate suppression | `LiveRun` (slots), `ChainView` (filter) |
| Supervisor of a live run (`runtime/src/lib.rs`) | `active_data_gaps`, channels, buses, run status | receive, publish, handle one event, stop, join, finalize | `LiveRun` |
| Fixture and replay runs (`runtime/src/lib.rs`, `fixtures.rs`) | buses, gaps, the persisted events | publish, drain, next scenario, replay | `FixtureRun` |
| Event bus (`event-bus`) | three bounded queues | `try_publish`, `recv` by priority | `FixtureRun` (capacity) |
| State engine (`state`) | tokens: lifecycle, curve, holders, pending tentative sells, statistics | apply an event, recompute transitions, expire | `PaperTrading` (lifecycle), `ChainView` (curve, holders), `TentativeSells` (tracking, armed flag) |
| Risk, features, simulator (`risk`, `features`, `sim`) | none of their own | scores, discard policy, simulated fills | inputs of `PaperTrading` |
| Decision engine (`decision`) | thresholds, kill switch | `evaluate` | `PaperTrading` |
| Paper executor (`executor`) | positions, ledger | `handle_decision`, `liquidate_all` | `PaperTrading` (positions) |
| Live executor (`executor`) | kill switch, blockhash cache | `submit` | `RpcBudget` (its sends) |
| Shred exits (`runtime/src/shred_exit.rs`) | pending tentative sells, observations, counters, calibration | detect, reconcile, expire, calibrate | `TentativeSells` |
| Shred ingestion (`ingest-shred`) | records, their order, expired signatures, counters | record, reconcile, expire | `ShredReconciler` |
| RPC budget (`rpc-budget`) | daily, monthly and per-method use, ledger, `known_budget_state` | `check_and_record`, `mark_budget_state_unknown` | `RpcBudget` |
| Storage, IDL, decoder, metrics, common | files, parsed definitions, counters, configuration | read and write | not modelled |
| Command line and autopilot (`cli/src/main.rs`) | dataset index, autopilot state | cycles of collecting, uploading and pruning; reports | not modelled |
| `scripts/`, `deploy/`, `fixtures/`, `research_output/` | - | offline analysis, service units, test data | not modelled |

### How they interact

A live run is three kinds of tasks. Each source task follows one stream and awaits
`sender.send` on a bounded channel of its own. The supervisor (`run_live_data_paper`)
selects over both channels, a disk tick and timers, takes one event, publishes it on
an internal bus and drains that bus at once; `handle_event` then goes through state,
tentative sells, risk, decision and executor without meeting another event. Everything
it records is appended to the segment spool, whose close, upload and prune passes run in
the same task. So the concurrency is between tasks that meet in channels, and between the
process and its own death: what the spool has on disk and in R2 when it dies is what
the next process finds.

A fixture run publishes whole batches before it drains, so that its buses can fill; its
records are what a replay reads. Before either, the filter and the normalizer turn what
the stream delivers, in its own order and more than once, into events.

### What is hard

- an outage and its recovery travel behind a backlog, while the stream goes on
  failing, recovering or giving up: the gate must be right when they arrive;
- the process may end between any two changes of durable state (write, unlink,
  save, put), and the next one starts from the manifest on disk alone;
- answers of R2 are lost, late or wrong while the object is or is not there;
- upload slots, retries and pruning are decided on the manifest in memory;
- messages of the stream come again, late, never, or before the launch that says
  what they are about, past filters that forget;
- one sell is reported by several sources, with and without its signature, and a
  confirmation, a balance, a revert and an expiry race to answer it;
- the manager, the state engine and the reconciler keep the same facts in three places;
- a bus, a deduplicator, a budget at its limit, and sums that saturate;
- events that must eventually be handled, segments that must eventually be uploaded,
  records that must eventually settle.

`PROJECT.json` ("hazards") lists each at its line with the properties that would
catch it, or a note that says why none does.

### What makes each component correct

- Spool: what the saved manifest lists exists; what it calls verified can be
  restored; a record is in one segment; nothing is uploaded before it is closed; the
  newest segments stay local; the manifest is never taken back; segments reach R2.
- Sources and supervisor: the gaps the supervisor knows follow the streams; no entry
  while one of them is lost; outages end; dead sources end the run.
- Trading: a token that was discarded is not entered; a risky position is left.
- Filter and token: a message is processed again only after a flood of others; the curve
  is the newest write heard; holders are those of the chain.
- Tentative sells: each signal is settled once, by the first answer, and truthfully where
  it names a transaction; what the deduplication lets through differs; the report's
  counters add up; an armed exit has a reason.
- Reconciler: every record can expire, and settles unless keys before it keep coming; no guess is counted twice.
- Fixture runs: an overflow blocks; gaps block what they name and nothing after their
  scenario; a replay sees the gates the run saw.
- RPC budget: used credits never pass the limit less the reserve, counters and ledger
  agree, and nothing is sent that was not allowed and paid in that step.

## Segments and Archive

**State.** Files and objects are sets of records (`{}` is no file): `openFile`,
`finalFile`, `remote`. Manifests are records: the position of an entry in the list,
the records its count and checksum stand for, and its flags. There are four views of
it: `manifest` (memory), `diskManifest`, `remoteManifest`, and the files themselves.
`damaged` is the set of closed files that no longer validate.

**Actions.** The manager is single threaded, so operations do not interleave; each is
cut where durable state changes, and `CrashRestart` fits into every cut. A step that
the code always takes after another (the save at the end of `close_segment`, the
manifest upload at the end of an upload pass) is forced by `stage`.

| action | code (`segments.rs`) |
|--------|------|
| `AppendLine` | `append_line`, `open_segment_mut` |
| `CloseDueToAge`, `CloseAll` | `close_segments_due_to_age`, `close_all_open_segments` |
| `WriteFinal`, `UnlinkOpen`, `RegisterClosed` | `close_segment`: rename into place; remove the `.open` file, which may fail unnoticed, and push the entry; save |
| `RejectBeforeWrite`, `RejectAfterWrite` | `close_segment`: the validations that put the segment back |
| `StartUploads`, `SkipUpload`, `RefuseDamaged`, `UploadSucceeds`, `UploadMismatches`, `UploadFails`, `UploadsDone` | `process_background_uploads`, `try_upload_segment` |
| `EnforceBudget`, `PruneSegment`, `PruneDone` | `enforce_local_footprint_budget`, `prune_verified_closed_segments` |
| `UploadManifest` | `upload_segment_manifest` |
| `DamageFile` | the environment |
| `CrashRestart` | the end of the process (also by `?` of a failed file operation) and `from_loaded` |

**Abstractions.** Records are distinct, so "the counts match" is "the sets match". The
order in which an age pass closes types, and a batch uploads, is left open. An empty
segment cannot be closed (a segment is opened by its first record). Free disk space is
abstracted: `EnforceBudget` may run at any time. A mismatching object is written as
`{}`: it holds nothing that can be restored. The branch for an upload error that starts
with `segment_integrity_failed:` is left out: no error of an upload starts so.

The result of the removal of an `.open` file is ignored (`segments.rs:1080`), so the file
may stay: `UnlinkOpen` leaves it or not. The next run counts its sequence numbers from the
manifest, past a segment that was saved, and never opens such a leftover for appending.
`NoUploadBeforeClose` therefore does not say that the `.open` file is gone, but that what is
in R2 was closed and saved first, and that nothing is appended to it afterwards.

**Archive** is the promise, told of records: one that was accepted is kept somewhere,
the saved manifest stands for some of the kept ones, and some of these are archived in
R2. None of the three goes back, except that after a crash records may be lost that were
accepted and not saved. `Segments` implements it (`ArchiveBehaves`) under the mapping

| `Archive` | `Segments` |
|-----------|------------|
| `accepted` | `appended` |
| `kept` | `KeptRecords`: the records in the `.open` file, the closed file or the object of any id |
| `saved` | `SavedRecords`: what the entries of the manifest on disk stand for |
| `archived` | `ArchivedRecords`: the objects of its verified entries |
| `crashed` | `crashes > 0` |

`AppendLine` is `Accept`, the saves of the manifest are `Save`, `CrashRestart` is `Crash`,
and the step of a restarted run that renames over an unlisted file is `Lose`; every other
step stutters, pruning and the removal of an `.open` file among them. The exception for
`Lose` is what the code does, and less than the documents promise
([below](#where-code-and-documents-disagree)).

**Runs.**

| run | instance | what it shows |
|-----|----------|---------------|
| `segments_crash` | 1 type, 4 records, 2 per segment, 3 sequence numbers, 2 crashes, 2 faults, 1 damaged file | the invariants, `DurableProgress` and `ArchiveBehaves` through every cut; `AcceptedRecordsKept` speaks of the time before the first crash |
| `segments_liveness` | 3 segments, 2 slots, 1 fault, 1 damaged file, 1 crash | `ClosedSegmentsReachR2` under `OrderedFairSpec` |
| `segments_overwrite` | minimal | see [below](#where-code-and-documents-disagree) |

**Bounds.** Two crashes are enough for a restart to be interrupted in turn; three
sequence numbers give a segment below, at and above the pruning window; two records
per segment let a crash leave a half-filled `.open` file; two faults make a failed
attempt and then a lost or wrong answer. Records are symmetric (`RecordSymmetry`, used
in the safety runs only). The liveness run cannot use symmetry; its `OrderedFairSpec` lets
the records be accepted in the order of their numbers only. Records are interchangeable
and appending is under no fairness, so those behaviours stand for all others. The proofs
lift all these bounds.

**Fairness** (`FairSpec`). Steps of a started operation are weakly fair: the process
runs. `StartUploads` is strongly fair: the disk tick competes with appends in an
unbiased `select!`, so it is not continuously enabled (an operation disables it) but is
chosen again and again. Backoffs elapse. Faults, damage and crashes are never obliged.
The instance has fewer faults than retries and fewer damaged files than upload slots:
without these a segment is given up, or the slots of every pass go to segments that are.

**Proofs** (`SegmentsProofs.tla`). The inductive invariant is

    IInv == TypeOK /\ JobOpen /\ ManifestSync /\ SequenceOrder
                   /\ ListedData /\ Flags /\ JobState

None of the safety properties is inductive alone. `PersistedSegmentRetained` survives a
close only because sequence numbers are not reused for a listed segment
(`SequenceOrder`), which survives a crash only because the manifest on disk trails the
one in memory by at most the segment being closed (`ManifestSync`); it survives a prune
because a verified entry has its object (`Flags`, `ListedData`), which survives an upload
pass because the batch only holds saved segments with a file (`JobState`). From `IInv`
follow `SegmentsTypeOK`, `PersistedSegmentsAreRetained`, `VerifiedSegmentsAreRestorable` and,
as an action property, `ManifestOnlyProgresses`.

Three more invariants stand on `IInv`:

- `DataInv` (`DataInvariance`): the records of different ids are apart; the closed file is
  a copy of the `.open` one until that one is removed, and is not empty; an object holds
  the records of its entry, marked uploaded or not; an `.open` file that outlived its
  segment holds those records and no others (`LeftoversAreCopies`). It gives
  `RecordsHaveOneSegment` and `UploadsFollowClose`.
- `UncrashedInv`: before the first crash every accepted record is held by a file or an
  object, and no closed file holds anything else under an id that is open or still to come
  (`Unreplaced`): the rename replaces nothing. It gives `UncrashedRunsKeepRecords`. That `Unreplaced` fails
  after a crash is the defect of `segments_overwrite`.
- `WindowOnDisk`: a segment that the manifest on disk lists, and that has no local file,
  has `KeepLast` listed ones after it there. It speaks of the disk because a restart reads
  it; `WindowInMemory` carries it over to memory, which lists one segment more at most.
  It gives `NewestSegmentsStayLocal`; the counting is in `WindowGrows` and `WindowAtPrune`.

`SpoolIsAnArchive` is the refinement, step by step: `ArchiveIsKept` (saved records are
kept, by `PersistedSegmentRetained`), `ArchivedStays` (no step replaces the object of a
verified entry), `ArchiveGrows` (from `Progress`, the body of `DurableProgress`), and
`ArchiveNext`, which maps each step to one of the abstract steps or a stutter. The only
assumption is `SegmentsAssumption` (types of the constants).

`ClosedSegmentsReachR2` needs fairness and is model-checked. What it needs of the code
besides fairness is proved: a saved segment waits until it is uploaded, through restarts
(`PendingUntilUploaded`, which fails for one that is not saved yet); a pass with more
slots than damaged files takes a sound one (`PassesServeSoundSegments`: ahead of the
first sound segment there are only damaged ones); a candidate leaves a pass uploaded,
damaged or with a backoff (`PassesForgetNoCandidate`); and with fewer faults than retries
none is given up (`RetriesOutlastFaults`, by `AttemptsCounted`: an attempt is counted
where R2 failed). With as many damaged files as slots, or as many faults as retries,
the property is false.

## LiveRun and PaperTrading

**State.** Per source: `phase`, `attempts`, `gapSent` (`emitted_disconnect_gap`) and a
`channel`; `lastSlot` of the Geyser ingest; `gaps`, the active gaps as pairs of a source
and a cause; `status` of the run. Of trading: the `lifecycle` of each token and the open
`positions`. `spiked` is a history variable: the token of the last trade when its risk
was over a threshold.

**Actions.**

| action | code |
|--------|------|
| `Connect`, `ConnectFails`, `StreamFails`, `StreamEnds`, `StreamTrade` | `run_geyser_source_with_connector`, `run_deshred_source_with_connector` |
| `DeshredUnimplemented` | the two `Code::Unimplemented` branches of the deshred source |
| `StreamSlot` | `process_envelope` and `detect_gap` of `ingest-geyser` |
| `Receive` | an arm of the `select!` of `run_live_data_paper`, with `publish_*`, `drain_pipeline` and the whole of `handle_event` |
| `UpdateGaps`, `Blocked` | `update_data_gap_state`, `token_trade_allowed` |
| `HandleTrade`, `IgnoreTrade` | `handle_event` for an event with a mint: `recompute_transitions`, `apply_risk_terminal`, `evaluate`, the tentative downgrade, `apply_runtime_safety_for_token`, `handle_decision` |
| `AllClosed`, `StopEarly`, `FinishRun` | the ways out of the loop; drain, abort, join, `finalize_run` |

**Abstractions.** Features and scores are a free choice, for every event, of a discard
policy and of the first branch of `evaluate` they lead to; the shred exits reach a
decision through the latter. The activity levels of a token are one lifecycle, the
discarded ones another. Prices, sizes and fees are left out; a simulated buy may fail.
A slot update has no effect on the supervisor unless it shows a gap (`normalize_output`
drops it). A task blocked on a full channel takes its step when there is room. The bus
holds one event at most in a live run, so its overflow (a Global gap), Token gaps and
Scenario gaps do not occur. `safety.paper_allowed` holds, the kill switch is off and the
run is not in edge-collector mode.

**Runs.**

| run | instance | what it shows |
|-----|----------|---------------|
| `live_run` | both sources, optional deshred, channels of 2, 2 attempts, slots to 4, liquidation, `FairSpec` | `OutagesFollowStreams`, `NoEntryUnderGap`, `NoEntryOnRejectedToken`; `OutagesEnd`, `DeadSourcesEndRun` under fairness |
| `live_slotgap`, `live_riskspike` | Geyser only | see [below](#where-code-and-documents-disagree) |

**Bounds.** A channel of two holds an outage behind an event, or an outage and its
recovery; two attempts reach both "retry" and "give up" from a failed connection and
from a broken stream; slots to 4 with a tolerance of 1 reach a jump within, at and over
the tolerance, and statuses that arrive late. One token is enough: tokens share nothing
but the gate. The proofs hold for any number of each.

**Fairness.** A task retries after a bounded delay (`Reconnect`), the supervisor polls
both channels (`Receive` for each source: the `select!` is unbiased), leaves its loop
when both are closed and finishes the run. A stream is never obliged to yield, to fail
or to end, and the connection is never obliged to succeed.

**Proofs** (`LiveRunProofs.tla`). `OutagesFollowStreams` speaks of the phase of a task
and of what the supervisor will make of the queue; it is not inductive, because a task
that gave up or ended has to be told apart. The invariant goes through the flag:

    IInv == TypeOK /\ AttemptsLeft /\ GapFlags /\ GapsSynced

`GapsSynced` says that `emitted_disconnect_gap` is set exactly when the last outage or
recovery queued, or else the list of active gaps, is an outage. Lemmas about sequences
(`AppendOutage`, `AppendRecovery`, `AppendOther`, `ReceiveOne`) say how appending and
receiving an event change that. `AttemptsLeft` is what bounds `attempts`. The theorems
`LiveRunTypeOK`, `OutagesAreAnnounced`, `NoEntryWhileASourceIsLost` and
`EntriesAreOnActiveTokens` follow for every capacity, tolerance, number of attempts,
slots and tokens, from `LiveRunAssumption` and `MintsAssumption`. The last two go
through `TradingSteps` (only an event received or the end of the run touches the trading
state), `BlockedTrade` and `EnteringTrade`. Both are about entries: what the documents say of
the exits under a gap the code does not do ([below](#where-code-and-documents-disagree)).

`DeadSourcesEndRun` is model-checked; its safety part is `RunsWindDown`: after both tasks
have returned no step refills a channel or goes back, so the events queued and two steps
more bound what is left. `ResultsTellOfFailures` (`ResultTells`, inductive by itself) is
about the join at the end: a run that completes had no source that failed.

## ChainView

**State.** The chain is outside and external: `ledger` lists its transactions with the
token accounts each touches and what every account holds after it. `heard` and `written`
say what the stream has delivered, `gapless` whether no transaction came before an
earlier one. Of the code: the `queue` of the deduplicator, `versions`
(`write_versions`, per slot), `pending` curve updates, the `curve`, the token `accounts`,
the balances of the `owners` and the `applied` keys. `passed` records what got through
the filter.

| action | code |
|--------|------|
| `Transfer`, `Assign` | the chain: a unit moves between accounts, an account changes owner |
| `HearTransaction` | `process_envelope` (`Deduplicator::insert`), `normalize_output`, then the launch, `apply_trade_cost_basis`, `apply_balance_update` and `rebuild_owner_balances_from_token_accounts` |
| `HearWrite` | `process_envelope` of an account write, the wait for the launch, `BondingCurveState::apply_update` |

**Abstractions.** One token, one curve. Filter, normalizer and state are one step: a
first-in first-out channel connects them and nothing flows back. Values of the curve are
the transaction that wrote them. A holder entry is its balance.

**Run** `chain_view`: 4 transactions in 2 slots, 3 token accounts (that of the curve and
two others), 3 owners, 2 units, a deduplicator of 2 keys, 5 messages past it. Five is
the first number with which a key can be forgotten and come again between others; two
slots give writes of the same and of different slots. The two accounts, and the two
owners, are symmetric. Safety only: the stream owes nothing.

**Proofs** (`ChainViewProofs.tla`). `RepeatsAreRare` needs four facts next to the types:
the queue is the tail of what passed (`QueueIsTail`), without repetition
(`QueueIsDistinct`), and every write that passed is no newer than what `versions` holds
of its slot (`WritesAreRemembered`). What is gone from the queue is then behind
`Capacity` different messages. `HoldersFollowTheChain` adds that owners are what
`Rebuilt` makes of the accounts (`OwnersMatch`), that whatever was heard was applied
(`HeardIsApplied`) and, without a gap, that the accounts are those of the last transaction
heard (`PrefixIsHeld`): so a transaction that comes again changes nothing, whatever the
deduplicator has forgotten. 

`CurveFollowsTheChain` is about the fold with which the launch flushes the pending
writes. `Believed` is the curve as these writes will leave it, from where it stands now;
`CurveInv` says that it is the newest write delivered, that nothing waits after the launch,
that `versions` holds the newest write delivered of each slot (`VersionsAreNewest`) and that
slots grow along the ledger (`SlotsGrow`). A write of an
older slot then changes nothing (`NewestAfterOldWrite`), and one that passes the filter in
the newest slot is the newest (`NewestAfterWrite`). `BelievedAppends` and `BelievedBegins`
take the fold apart, with `FoldLemmas`.

The holders are also checked as a whole, as `holder_invariant_violations` does.
`OwnersShareTheirAccounts` says that the balances of the owners add up to those of the
accounts, even with gaps: they are what `Rebuilt` makes of them (`OwnersMatch`), and
`TotalByClass` of `FoldLemmas` sums the accounts up by owner (`RebuiltSharesUnits`).
`SupplyInv` adds that every transaction of the chain leaves the supply what it was.
`HoldersHoldTheSupply` says that without a gap this is the supply; TLC refutes it with one,
so that the violation the code reports means a gap and not a wrong sum. Both need the
owners to be finitely many (`ViewAssumption`).

## TentativeSells and Settlement

**Settlement** is the promise: a signal that was taken in waits until one outcome is
recorded, and that outcome is never taken back, replaced or recorded again.

**State of TentativeSells.** A signal is a pair of a transaction (one sell) and a source
(one report). `pending` says when each expires and whether it armed an exit;
`observations`, `metrics` and `detected` are the manager's; `tracked`, `recorded`,
`counted` and `armed` are the token's; `fate` is what the canonical stream has said of a
transaction; `now` and `traded` are the clocks that expiry is measured by.

| action | code |
|--------|------|
| `Signal` | `handle_event` of a tentative sell: `detect_tentative_sell`, its deduplication, the arming, then `expire` |
| `CanonicalSell`, `RevertedSell`, `BalanceFell` | `reconcile` (`reconcile_pending_against_event`), then `expire`, with `apply_shred_sell_resolved` of the state engine for each derived event |
| `Buy` | a canonical event that answers nothing: it moves the clock and expires |
| `Finalize` | `finalize_run`: expiry at the last trade plus the time to live |

**Abstractions.** Whether a warning arms an exit is a free choice (confidence, impact,
latency and the position are arithmetic). Which reports decoded slots and amounts within the
tolerances of each other is a constant (`Alike`, symmetric, and free for two reports of one
transaction too), as is the switch `deduplicate_sources` (`Deduplicate`). The calibration file, the metrics per source and the reports are left out.
Events carry reception times that may lie `Skew` in the past, as those of two channels do.

**Runs.** `tentative_sells`: two sells of one wallet in one token, reported by a
source that decodes signatures and by one that does not, with the deduplication on; one
report decoded a slot or an amount far from the others', so that two reports of its
transaction are pending together; every signal at most once, a time to live of 1 and times to 2, so that an expiry falls before, at and
after each event. One wallet and token is the hard case: sells of others never match.
`tentative_doublecount`: [below](#where-code-and-documents-disagree). `SettledOnce` is
the refinement: `Settlement!Spec` with `waiting <- DOMAIN pending` and
`outcome <- observations`.

**Proofs** (`TentativeSellsProofs.tla`). `StepKinds` shows that every step leaves the
manager alone, settles some of what is pending, or takes in a signal and settles some of
what is then pending; each theorem is then shown for these three shapes:
`ManagerSettlesOnce` (the refinement), `WhatIsPendingIsTracked`, `WhatIsPendingDiffers`,
`ArmedForAReason`, `CountersAreTrue`, `AnswersComeFirst`, `OutcomesAreTrue`, and the types
(`TypesHold`). The invariant is `Inv == TypeOK /\ Waiting`, where `Waiting` keeps what is
pending apart from what is settled. The counters go through `DisjointSum` (cardinalities
of disjoint finite sets), for any finite sets of transactions and sources.

What may be said of outcomes is limited. `Truthful` speaks of signed signals: a
confirmation, a failure or a reorg is what the chain said of that very transaction, a
`DecodeMismatch` means that another sell of the wallet was heard of first (whatever becomes
of the one reported), and a fallen balance or an expiry says nothing of the transaction. A
signal without a signature is answered by any sell of its wallet. Likewise
`PendingReportsDiffer`: deduplication by signature keeps one signed report of a transaction
pending, and one without a signature is let through next to it when it decoded another slot
or amount.

How long a signal may wait is safety too. `NoSignalOutstaysItsTime` says that an event of
any token the state knows (`Reaches`) leaves nothing pending that had expired at its time,
which lies at most `Skew` before now: expiry does not wait for an event of the same token.
`FinishedRunsSettle` says that `finalize_run` leaves only signals taken in after the last
trade, and none in a run without a trade (there it takes the clock). `WaitBound`
is the invariant. TLC refutes the first with `Skew` left out, and refutes that every run
ends with nothing pending.

## ShredReconciler and FixtureRun

**ShredReconciler.** `pending` and `age` are the records, `order` the queue of their keys
(a key that is recorded again is queued again), `expired` the signatures that may still
be confirmed late, then the counters. `RecordTentative`, `ReconcileCanonical` and
`Expire` are the three methods; `Tick` is the wall clock, capped at the time to live
because nothing tells older records apart. `Expire(n)` names the number of places it
takes off the queue, which its guards determine.

**Run** `reconciler`: two signatures and one key without, a time to live of 2, 4
tentative and 3 canonical events: a key can be recorded, expire, be recorded again and be
confirmed, late or in time, behind younger and older ones. **Fairness**: time passes, and
`drain_pipeline` calls `expire` each time it runs dry. `RecordsSettle` needs both, and it
needs a premise the code does not ensure (`RepeatsEnd`): that keys in the queue stop being
recorded again. The unsigned events of one slot and kind share a key; while they come, the
head of the queue stays young and what is behind it stays pending. In the instance
`MaxTentative` ends all repetition, so every behaviour meets the premise.
`OverdueIsShielded` says how far a record may outlive its time: only behind a younger one.

**FixtureRun.** A suite of scenarios, each a timeline (drained after every event) or a
batch. `canonical` and `waiting` are the two buses, `gaps` the active gaps with their
scope, `log` the persisted events, `dropped` and `published` counters of the scenario;
the reconciler's variables belong to an instance of `ShredReconciler`.

| action | code (`runtime/src/lib.rs`) |
|--------|------|
| `IngestShred` | `ingest_fixture_shreds`: `process_packet`, `publish_tentative` |
| `Publish`, `PublishGuess` | `publish_canonical` with its overflow and `synthetic_gap_event`; `publish_tentative` |
| `EndBatch`, `HandleCanonical`, `HandleTentative`, `DrainEnds` | `drain_pipeline`, `handle_event` up to the gate, `update_data_gap_state`, `expire` |
| `NextScenario` | `reset_for_next_run` |

`ReplayGaps` is `run_from_store_selection`: it folds the log one record at a time
(`Replayed`), through the same `UpdatedGaps`; the supervisor of a scenario sees its records
only. Left out: what a trade does to its token. A
fixture run publishes each stream at one priority, so the priorities of the bus are left
out as well. Fixture packets are dated from 1970, so their records are overdue at once.

**Run** `fixture_run`: two scenarios, two tokens, a pause and a resumption of one token and
of all, buses of 2 and 1 places, 4 events. A bus of two is full while an event that raises
a gap, and one that clears it, wait in it; two scenarios are needed for anything to
outlive one. `ReconcilerBehaves` is the refinement: a run uses the reconciler only as
`ReconcilerSpec` allows.

**Proofs** (`ShredReconcilerProofs.tla`, `FixtureRunProofs.tla`). The reconciler's safety
invariants are inductive next to its types: `RecordsStayQueued`, `OutcomesStayDisjoint`,
`LateConfirmationsFollowFailures`, `ReconcilerTypesHold`. Of the run: `OverflowsBlock`,
from `RaisedStays` (only an overflow raises a Global gap, and no resumption names that
scope), and `RunRefinesReconciler`, step by step. `OverdueStaysShielded` is an action
property: `ExpiryStopsAtYoung` says what `Expire` leaves, from the invariant that what is
pending is queued.

`RunInv` (`RunInvariance`) is the invariant of a run. `RecordSteps` shows that a step adds
one record to the log and treats it as the replay will (`Adds`), starts a scenario, or
leaves log and gaps alone; so `ReplayFollows` (the gaps are those of a replay that has come
as far), `BlockedByRecord` (whatever blocks a token is in the log) and `RecordsAreDue` are
each shown for three cases. `NothingLost` counts: what was published is recorded or waits
on the bus. `WaitsToExpire` and `OverIsEmpty` say what the last drain leaves: fixture
records are overdue and queued, so it takes them all. From these follow `TheReplayAgrees`
(by `ReplayAppends` and `PrefixKept`, for every prefix of the log), `GapsNeverPoison` and
`NothingStaysBehind`.

## RpcBudget

**State.** The three counters, the `ledger` (one entry for each request, with its
verdict), `known` (`known_budget_state`), the executor's `killSwitch`, and `sent`, the
transactions it has sent.

| action | code |
|--------|------|
| `Request` | `check_and_record`: stream-only mode, the live gates, the four limits in their order, the charge, the entry |
| `Submit` | `LiveExecutor::submit` of an entry whose signal is fresh and whose fee fits |
| `MarkBudgetStateUnknown`, `SetKillSwitch` | the methods of these names |

Sums saturate at `MaxCredit`, which stands for the largest u64. Requests may come from
any module, `Requests` says which.

**Run** `rpc_budget`: a run that may call (stream-only mode requires limits of zero), a daily
limit of 6 with a reserve of 2, a monthly limit of 5, a limit of 3 on one method, and
`MaxCredit` 7: the reserve, the month and the method bind in turn, and a request of 7 credits
saturates every sum. Requests of each kind that the checks tell apart; five entries of the
ledger. `SendsArePaid` is about the step of a send: the kill switch, the state of the budget
and the charge are those of that very step.

**Proofs** (`RpcBudgetProofs.tla`). `Inv == TypeOK /\ LimitsKept /\ MethodsWithinDay`.
`MethodsWithinDay` (a method's credits never exceed the day's) is what `TheExecutorPays`
needs: a charge that passes the daily limit cannot then saturate its method's counter,
unless the limit is the largest u64 and there is no reserve (`RoomBelowMax`, a hypothesis
of that theorem). Then `LimitsAreKept`, `BudgetTypeOK`, and
`UnknownBudgetCloses`, which is proved and not run. `TheLedgerExplains` needs `RoomBelowMax`
as well: no counter saturates, so a charge adds the same to a counter and to the total of
its entries (`ChargesAdd`, with `TotalAdds` of `FoldLemmas` for the sum over a set).
`StreamOnlySpendsNothing` is about the configurations that `validate_stream_only` accepts
(`StreamOnlyValidated`, a hypothesis of it): the limits are zero and no flag is set but, perhaps,
that of emergencies. Nothing is then spent or sent, as `docs/STREAM_ONLY_CONTRACT.md` promises;
emergencies and, without `fail_on_unbudgeted_rpc`, calls of no category pass, if they are free.

## What is proved and what is only checked

| module | proved for all constants | checked only |
|--------|--------------------------|--------------|
| `Segments` | `TypeOK`, `PersistedSegmentRetained`, `VerifiedIsRestorable`, `NoUploadBeforeClose`, `OneSegmentPerRecord`, `NewestStaysLocal`, `AcceptedRecordsKept`, `DurableProgress`, `ArchiveBehaves` | `ClosedSegmentsReachR2` |
| `LiveRun` | `TypeOK`, `OutagesFollowStreams`, `NoEntryUnderGap`, `NoEntryOnRejectedToken` | `OutagesEnd`, `DeadSourcesEndRun` |
| `ChainView` | `RepeatsNeedAFlood`, `HoldersAreTrue`, `CurveIsNewest` | - |
| `TentativeSells` | `TypeOK`, `SettledOnce`, `PendingTracked`, `PendingReportsDiffer`, `ArmedHasReason`, `Accounting`, `AnswerBeatsExpiry`, `Truthful` | - |
| `ShredReconciler` | `ReconcilerTypeOK`, `RecordsAreQueued`, `OutcomesAreDisjoint`, `LateConfirmationsAreFailures`, `OverdueIsShielded` | `RecordsSettle` |
| `FixtureRun` | `OverflowBlocks`, `ReplayGatesAgree`, `GapsDoNotPoison`, `NothingLeftBehind`, `ReconcilerBehaves` | - |
| `RpcBudget` | `TypeOK`, `LimitsKept`, `SendsArePaid`, `LedgerExplainsCounters`, `NothingSpent`, `FailsClosed` | - |

Every safety property of a passing run, invariants, action properties and refinements
alike, is a theorem. The types of `LiveRun`, `TentativeSells`, `ShredReconciler` and
`RpcBudget`, `FailsClosed` and `NothingSpent` are theorems without a run. So are ten results that say what
the liveness properties and the totals rest on: `RetriesOutlastFaults`,
`PassesServeSoundSegments`, `PassesForgetNoCandidate`, `PendingUntilUploaded`,
`RunsWindDown`, `ResultsTellOfFailures`, `OwnersShareTheirAccounts`, `HoldersHoldTheSupply`,
`NoSignalOutstaysItsTime` and `FinishedRunsSettle`. What is only model-checked are
the four liveness properties: they need fairness and ENABLED, which are beyond the prover.

Sums over sets and folds over sequences are recursive in the community modules, and the
induction theorems of the library take an operator as a parameter, which the provers
cannot instantiate. `FoldLemmas` goes another way. The strict subsets of a finite set are
well founded, so a set of counterexamples has a minimal element (`MinimalSet`); for that
one the claim follows from the claim for a smaller set. Thus a fold exists, is unique and
keeps its type (`FoldExists`, `FoldUnique`, `FoldType`); a total is the sum of its parts
(`TotalAdds`, `TotalWithout`, `TotalUnion`, `TotalByClass`); a fold over a sequence is one over its places, taken from the
last one (`SeqFoldEmpty`, `SeqFoldAppends`). The modules restate `FoldLeft` and `MapThenSumSet`
in these terms (`ReplayIsFold`, `BelievedIsFold`, `LedgerSumIsTotal`).

The assumptions of the theorems are the ASSUMEs of the modules (types and finiteness of the constants), which
TLC evaluates for every instance, and `RoomBelowMax` for `TheExecutorPays` and `TheLedgerExplains`, and `StreamOnlyValidated` for
`StreamOnlySpendsNothing`.

## Where code and documents disagree

Each of these is a run whose property TLC finds violated.

- `segments_overwrite` / `UnverifiedDataKept`. "Never delete unverified run data."
  (`docs/EDGE_VPS_LOCAL_POLICY.md:37`). `close_segment` removes the `.open` file before
  it saves the entry of the closed one. After a crash in between, no entry lists the
  closed file, the restarted run takes the same sequence number, and its next close
  renames over the file.
- `live_slotgap` / `HealthySourceUnblocks`. "`Source`: blocks while a required source
  remains unhealthy." (`docs/ARCHITECTURE.md:51`). A slot gap is cleared only by the
  recovery that follows a lost connection. On a stream that stays up, one jump blocks
  trading for the rest of the run.
- `live_riskspike` / `RiskSpikeExits`. The test
  `exit_logic_fires_when_in_position_and_risk_spikes` (`decision/src/lib.rs:1474`) sets
  the lifecycle `InPosition` and gets an `EmergencyExit`. Only tests set it. In a run a
  held token whose risk passes a threshold gets `StopTracking`, and stays held. The same
  test keeps positions under a gap: `apply_runtime_safety_for_token` (`runtime/src/lib.rs:4284`)
  turns the decision into an `EmergencyExit` only for a token `InPosition`, while
  `docs/ARCHITECTURE.md:54` has the safety checks "forcing `StopTracking` or
  `EmergencyExit`". So no property here says what happens to a held position under a gap:
  it stays.
- `tentative_doublecount` / `CountedOnce`. Reports of several sources are deduplicated
  "instead of double-counting the same sell intent" (`docs/DATA_SOURCES.md:48`). The
  manager suppresses the second report (`shred_exit.rs:645`) but still derives its
  intent, and the token counts each intent in `tentative_sell_count_window`
  (`state/src/lib.rs:2024`).

Seen while modelling, and not checked by a run of its own:

- `finalize_run` expires what is overdue at the last trade of any token plus the time to
  live; a signal taken in after that trade stays open (`runtime/src/lib.rs:3753`), while
  `README.md:187` says every tentative sell is reconciled.
- The state engine drops events derived from a reverted one (`state/src/lib.rs:1607`), so
  a "reorged" resolution reaches the manager's counters and not the token;
  `docs/RISK_MODEL.md:55` says these outcomes are recorded. `ArmedHasReason` allows for it.
- One armed flag serves all pending sells of a token, and the first resolution clears it
  (`state/src/lib.rs:2225`), whatever it resolves.
- `daily_used` is never reset (`rpc-budget/src/lib.rs:267`): the daily budget of
  `docs/RPC_BUDGET.md:7` is that of the process.
- Expiry stops at the first young record, so a key that is recorded again shields older
  records behind it (`ingest-shred/src/lib.rs:373`).
- The drain between shreds and canonical events expires every fixture guess before its
  confirmation (`runtime/src/lib.rs:3154`): all are false positives that are confirmed late.
- Upload slots are given to the first pending segments, exhausted ones included
  (`segments.rs:908`): as many of them as slots keep every later one from being tried
  until a restart, while "closed segments are uploaded immediately"
  (`docs/R2_OFFLOAD.md:103`).
- `apply_balance_update` keeps the slot of an account and does not compare it
  (`state/src/lib.rs:444`): after a gap an older balance replaces a newer one.
- The creator's holding falls back to `creator_net_tokens` when the creator has no entry
  (`features/src/lib.rs:1383`), also after the account changed owner;
  `docs/HOLDER_METRIC_POLICY.md:20` asks for the owner-summed balance.
- A tentative buy is counted, and counted again when it is confirmed
  (`state/src/lib.rs:1715`).

## Plan

Done: `Segments`, `LiveRun` over `PaperTrading`, `Settlement` and `TentativeSells`,
`RpcBudget`, `ShredReconciler` under `FixtureRun`, `ChainView`, `Archive`, with the proofs
of all their safety properties. Open, in this order:

1. A composition of `LiveRun` and `Segments`: what a failed or stopped run leaves in the
   spool, and the final upload pass.
2. The blockhash cache of the live executor (`executor/src/lib.rs:381`), next to
   `RpcBudget`.
3. The relay sequence verifier and the material hunter of `live_source.rs`.
4. The autopilot cycle of the command line around the spool, with its locks.

## What is not modelled

- Scores and prices (`features`, `risk`, `sim`): decimal arithmetic over histories of
  events, without control state; their outcome is an input.
- Decoding and parsing (`idl`, `decoder`, most of the normalizer), storage layout,
  metrics, audit, reports, configuration: input and output of the modelled parts.
- `cli/src/main.rs`, more than half of the lines of the workspace: reports, audits and
  research over finished runs, which read files and write others; of control state it has
  the autopilot cycle and the dataset index, left for later.
- Of the state engine: trade statistics, wallets, funding, clusters and the developer
  state; of the tokens, their expiry.
- The UDP receiver and the fixture decoder of `ingest-shred`; the priorities of the bus
  (every run that can fill it uses one).
- Of the live executor all but its budgeted send; it is guarded off in this build.
- The low-disk stub path and export chunks of the spool, the restore command (its
  precondition is `VerifiedIsRestorable`), runs with uploads disabled.
- `scripts/`, `deploy/`, `fixtures/`, `research_output/`: no part of the running program.
