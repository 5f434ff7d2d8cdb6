# A verification project for the investment platform's data layer

TLA+ models, model-checking runs and machine-checked proofs of the data foundation in
`src/investment_platform/data`: how pages are fetched from providers, stored as evidence,
replayed, turned into canonical bars and actions, stored again, queried and compared, how fast a
metered provider may be asked for them, and the live study that does all of it once.
The reference is the Python source; every definition that models code is tied to its lines in
`PROJECT.json` under "map".

## 1. Inventory

The program is a local-first, synchronous library plus one live study that uses it. There is no
server and no thread of its own. Concurrency comes from several processes or threads over one
data root, failure from file operations, providers, interrupts and the death of the process.

| component | state it keeps | operations | hard behaviour |
| --- | --- | --- | --- |
| Raw store, `data/storage/raw.py` | one directory per published batch: payload and manifest | `RawBatchStore.write` | concurrent writers, rename against an existing target, kills, temporaries left behind, a batch under two layouts |
| Raw replay, `data/storage/raw.py` | none of its own; reads files | `replay_raw_artifact`, `open_binary` | files edited between the check and the use |
| Bar store, `data/storage/market_bars.py` | `part-<batch>-<n>.parquet` files per partition | `append` | several files per batch without a lock, rollback, `KeyboardInterrupt`, failing unlinks |
| Bar queries, `data/storage/market_bars.py` | none | `query` | listing and opening while appends publish and roll back |
| Validation, `data/validation/bars.py` | none | `validate_bars` | flags in several orders, duplicates inside a page |
| Pipeline, `data/phase1_bakeoff.py` | two stores | `EphemeralBarPipeline.process` | one of seven steps fails after earlier ones took effect; retries |
| Pacer, `data/phase1_bakeoff.py` | deque of reservations, two counters | `before_request` | a rolling window over a clock and a sleeper that may misbehave |
| Study plan, `data/phase1_bakeoff.py` | constants | windows, expected keys, request plan | totals that must agree with the approved budgets |
| Live study, `data/phase1_bakeoff_live.py` | a private temporary root, results | `run_live_bakeoff`, `main` | stages in order, one reservation for several HTTP requests, a deletion that fails, odd pages that must not end in "PASS" |
| Provider adapters, `data/providers/*.py` | position in a page loop | `get_bars`, `get_corporate_actions`, ... | links repeated, invented or unusable, a page lost between its arrival and its storing, chunks of symbols, bounds in the precision of the wire |
| HTTP, `data/providers/http.py` | none | `get` | bodies without end, redirects |
| Entitlement preflight, `data/providers/alpaca_preflight.py` | none | one request | a table of outcomes |
| Normalisers, `data/normalization/*.py` | none | `normalize_*` | records outside the request, sessions and early closes, three conventions for dates, daily bars, ticker events in any order |
| Comparison, `data/quality.py` | none | `compare_provider_bars`, `compare_provider_actions` | shifted timestamps, duplicates, missing keys counted twice or not at all, a difference blamed on the wrong cause |
| Models, provenance, instruments, features | immutable values | field validation | - |

How they interact: an adapter yields a `RawBatch` per page; `process` writes it to the raw store,
replays it from there, normalises the replayed bytes, validates the bars, appends them to the bar
store, queries them back and compares; the live study calls the pacer before every Twelve Data
request, gathers what `process` returns per segment and compares the two providers.

What makes each part correct:

- raw store: evidence is write-once, complete when visible, and never refused without a reason
  that is still on disk;
- replay: only the bytes named by the checksum ever reach a normaliser;
- bar store: a batch is appended as a whole or not at all, and an appended batch stays;
- queries: what was appended before a query is in its result;
- pipeline: evidence before interpretation, and what a call reported is what is stored;
- pacer: no minute and no study holds more than was approved, and no call waits for ever;
- adapters: the pages of a call are a gapless walk, the loop ends, and a page that arrived is
  stored or its loss has a known reason;
- normalisers: every record becomes a canonical value inside the request or an issue, and the
  bounds on the wire lose nothing that was asked for;
- comparison: each observation is reported once, only what can be meant is matched, and nothing
  is blamed on the venue that has another cause;
- live study: nothing unpaid is asked for, exit code 0 is earned, and the private root is gone.

## 2. Modules

| module | models | uses |
| --- | --- | --- |
| `EvidenceStore` | the promise of the raw layer: a write-once map with confirmations | - |
| `RawStore` | `RawBatchStore.write` | implements `EvidenceStore` |
| `RawStoreProofs` | six theorems | `RawStore` |
| `RawReplay` | `replay_raw_artifact`, `_IntegrityCheckedFilePayload` | - |
| `RawReplayProofs` | four theorems | `RawReplay` |
| `BarStore` | `ParquetBarStore.append` | - |
| `BarReads` | `ParquetBarStore.query` beside `append` | composes with `BarStore` |
| `BarStoreProofs` | nine theorems: five on appends, four on queries beside them | `BarStore`, `BarReads` |
| `Pipeline` | `EphemeralBarPipeline.process`, `validate_bars`, flag orders | the promises of `RawStore` and `BarStore` |
| `PipelineProofs` | four theorems | `Pipeline` |
| `Pacer` | `TwelveDataBasicPacer.before_request` | - |
| `PacerProofs` | four theorems | `Pacer` |
| `Paging` | the page loops of the three adapters and their consumer | - |
| `PagingProofs` | three theorems | `Paging` |
| `BarNormalization` | wire bounds, the three bar normalisers, the schedule and the expected keys | - |
| `ActionNormalization` | the action normalisers, ticker timelines | - |
| `Compare` | `compare_provider_bars`, `compare_provider_actions` | - |
| `ProviderDataProofs` | seven theorems: three on the comparison, two on each normalisation | `Compare`, `BarNormalization`, `ActionNormalization` |
| `Study` | the request plan, `run_live_bakeoff`, `main` | the promise of `Pacer` |
| `StudyProofs` | three theorems | `Study` |
| `MC*` | the instances TLC checks; `MCNormalize` puts both normalisations side by side | - |

Definitions marked `MUTANT` in a comment are plausible bugs of the definition they stand
before. They are not part of any specification; each shows that a property is able to fail.

### RawStore

A call of `write` is a process: `pc` is the place in the method, `temp` its temporary directory,
`outcome` what the `finally` block will let through. `published` is the tree of final
directories. `Begin` covers revalidation, sanitising and the extension check; `Scan` the
recursive search for the batch id; `MakeTemp`, `CopyChunk` and `WriteManifest` the temporary
directory; `CheckTarget`, `Rename` and `RenameBlocked` publication; `Compare` is
`_existing_artifact`; `Cleanup` the `finally` block. `Fail`, `FailCompare` and `FailCleanup` are
file errors at each of those places, `Kill` the death of the process, `Damage` any change to a
published file from outside. A SHA-256 digest stands for the content. Two facts of the platform
are assumed: a rename onto a free name is atomic, and one onto a non-empty directory fails.

### RawReplay

`handle` is the `RawArtifact` presented, `manifest` and `bytes` are the files, `got` is what the
current pass (digest or snapshot) has read, `parsed` what the normaliser has. Each bounded read is
a step, and `Tamper` may edit, truncate or remove either file between any two.

### BarStore and BarReads

A part is its name, `<<batch, partition, ordinal>>`, and the call that linked it; `temps` are the
temporary files on disk, by call and ordinal. `WriteTemporary` begins a file and `Stage` records it,
so that a failure between the two finds a file that nothing remembers. A call's counters `staged`, `linked`, `undone` and `unstaged` are the positions in the four loops of
`append`. `Preflight` visits partitions one at a time, as `rglob` does. The faults are told
apart because the code treats them differently: an `Exception` runs the rollback
(`FailStage`, `FailLink`), an interrupt skips it and runs only `finally` (`Interrupt`), an unlink
may fail in either block (`FailRollback`, `FailUnstage`), an interrupt inside `finally` ends it
(`InterruptUnstage`), and a kill runs nothing. `hits` remembers which call was hit by what, so that
`Remains` can say of each finished call what it may have left. `spoiled` holds the batches for which
such a fault came while parts were linked and not yet unlinked.
`BarReads` adds one reader that lists partitions one at a time and opens what it listed; DuckDB
is modelled only as opening each listed name once and raising when it is gone.

### Pipeline

One call of `process`, retried any number of times within a bound, over stores that keep the
promises above. A page is a sequence of records; a record is a key with the rules it breaks, or
one that the normaliser rejects. The validated frame keeps flags in the order of `_RULE_ORDER`,
the stored one in text order, as `list.sort()` leaves them. `AppendLeaves` is what an append
that does not return may leave: nothing, some rows, or all of them. `returned` remembers each
call that returned with the bars it handed over (`ProcessedBarBatch.bars`), so that
later states of the store can be held against them.

### Pacer

Time is in ticks. An event of cost c is c credits, so a sum of costs is the size of a set.
`Call` is the argument and budget checks, `Reserve` and `Wait` are one turn of the loop, `Wake` is
the return of the sleeper and the look at the clock. `Tick` lets time pass between calls.

### Paging

One call of an adapter and the consumer that drives its generator. `Page` is a response with its
next link: absent, blank, a token, or something unusable (a body that is no object, a link to
another host). Alpaca and Twelve Data yield the page and inspect it when the consumer comes back
(`Persist` before `Resume`), Massive inspects it first (`Inspect` before `Persist`). A call walks
`total` series: one for Alpaca, one per instrument for Massive, one per chunk of symbols for
Twelve Data. `seen`, `number` and `cursor` are the loop's variables. "lookup" is a reference
lookup, which takes one page and follows nothing.

### BarNormalization and ActionNormalization

A tick stands for the finest time that matters: a day has 48, a five-minute bar 8, Twelve Data's
second is 4 and Massive's millisecond 2, so that a request may begin and end between two units of
the wire. `OnWire` is the query an adapter sends for the half-open request: inclusive ends, whole
milliseconds, whole seconds, exclusive dates. An honest page has a record for each scheduled bar
`OnWire` selects; any other page maps any symbols to entries, each a list of records with any stamps and
bad ones among them, an error, or no object at all; or it is an object that names no symbol, or no
object. What the three normalisers make of these differs, and `Unusable` says when the whole call
raises: Alpaca and Massive raise for anything but arrays, Twelve Data for an entry that is no object.
`Interval` is `_bar_interval` of
the three normalisers and `Canonical` the checks in their order. A bar carries the record it was made
of. `RecordIssues` are the issues with a record index; `SeriesIssues` are those without, which only Twelve
Data gives, one for each symbol outside the chunk, error, absent symbol or nameless envelope.
`Expected` is `expected_keys_for_window`, the comparison's own idea of what a request should
bring. In `ActionNormalization` a page holds records of an Alpaca or Massive family, or a
ticker timeline in any order. The list of actions is a function on the positions, of the page or of
the sorted timeline, that gave one. The library's sort is stated by what it does: `SortedEvents` are
the arrangements of the usable events by date. `Changes` is the `pairwise` walk over one of them, and
spellings that differ in case only are told apart by `Folded`.

### Compare

A key is a group (instrument and timeframe, or instrument and kind of action) with a time. A side
says how many rows a provider has under each key: none, one, several. `Pairs` are the mutually
unique candidates of `_fuzzy_bar_pairs` and `_fuzzy_action_pairs`, `Partner` the key a left-hand
observation is aligned with. Each visit of a key is `Skip`, `Duplicate`, `Unavailable` or
`Matched`, as in the loops of the code, and adds a row; `Findings` is what that row reports.
`BarClass` and `ActionClass` are the classifications of the two functions, which differ: a currency
difference is definitional for bars and unresolved for dividends, a shifted time is one of timing
for bars and unresolved for actions. Splits, dividends and ticker changes compare different values
(`ActionMetrics`). `Missing` is `_missing_expected_count`. Numeric
tolerances are a choice of which metrics differ.

### Study

The run has the plan's real numbers: 16 securities, 22 windows, batches of 16 and 8, chunks
of 8 symbols, 8 credits a minute, 161 credits and 49 requests approved. `Work` is what
`run_live_bakeoff` asks for, in its order: references, windows, actions and evidence, each with its
targets and the size of its batches. `planned` counts the targets of the current item whose batches
are planned, `Batch` is the next one. `Plan` reserves, `Request` sends one chunk and
keeps of its page what the verdict looks at, `RequestFails` is any exception on the way. `root` is
the private directory: none, empty, written, gone, or left behind when its deletion failed.
`inside` says that the system's temporary directory lies in the repository. `exit` is the exit code
of `main`. `Kill` ends the process anywhere.

## 3. What the runs check

All runs finish within a minute or two. Deadlock checking is off because every model really stops: calls,
attempts, pages or time are used up.

| run | what it shows |
| --- | --- |
| `raw_store` | `PublishedComplete`, `AcknowledgedStored`, `CollisionJustified`, `SplitNeedsOverlap`, `CallsEnd`, and that the store implements `EvidenceStore` |
| `raw_replay` | `DeliveredIsEvidence`, `RefusalJustified`, `NothingSwallowed`, `ReplayEnds` |
| `bar_store` | `AppendedStays`, `AllOrNothing`, `NeverExtends`, `Remains`, `CallsEnd` |
| `bar_reads` | `AppendedIsRead`, `HalfReadsOverlap`, `RaisesOverlap`, `QueriesEnd` |
| `pipeline` | `EvidenceFirst`, `ReturnedIsStored`, `MismatchExplained`, `ProcessEnds` |
| `pipeline_flags` | violated: `FlagsNeverLosePages` |
| `pacer` | `WindowHeld`, `BudgetHeld`, `SleepsAreEnough`, `CallsEnd` |
| `paging` | `LostPagesExplained`, `ChainComplete`, `LoopEnds` |
| `massive_evidence` | violated: `EveryPageIsEvidence` |
| `compare` | `EveryObservationOnce`, `StandInsAreHonest`, `BlameIsEarned` |
| `study` | `PaidAndApproved`, `ExitZeroIsEarned`, `NothingLeftBehind` |
| `normalise` | `BarsAccounted`, `RequestedBarsArrive`, `ActionsAccounted`, `TimelineHolds` |

The type invariant of a module with proofs is proved there and not run; TLC checks the other
properties.

Some results worth knowing:

- **One batch, two places.** The search for the batch id is over before the rename, so two
  overlapping writers that disagree on provider, dataset or date can both publish.
  `SplitNeedsOverlap` says that only an overlap can do it; `docs/data/storage-layout.md` leaves
  multi-writer coordination for later.
- **Refused is not lost.** A leftover temporary directory never makes a retry fail
  (`CollisionJustified`); an `append` killed between two links does block its batch for good
  (`NeverExtends`), and then `process` can never return for that batch.
- **An append that raised may be complete**: when removing a temporary fails after every part was
  linked. `AllOrNothing` is therefore stated for batches that are not `spoiled`; `Remains` says what
  the faults it leaves out may do. An interrupt after the first link leaves half a batch and no
  temporary; a kill leaves half a batch with all of its temporaries; a failed write leaves at most
  one temporary and no part.
- **Half a batch may be read**, but only while its append runs or after such a fault
  (`HalfReadsOverlap`).
- **Missing and reported are two counts.** The missing count aligns a side with the schedule, the
  availability findings align it with the other side. `StandInsAreHonest` shows that they can only
  disagree about an expected key that has an observation of that side within alignment; every other
  absent key is in both.
- **A daily bar can lie behind its stamp.** Alpaca and Massive stamp a daily bar with midnight; a
  request that starts later on that day, before the session opens, contains the bar but does not
  ask for its stamp. `RequestedBarsArrive` names that exception and shows that there is no other;
  the daily windows of the study
  start at midnight UTC, before the stamp of their first day.
- **A duplicate across pages is nobody's flag.** Flags look at one page; a row that repeats one of
  an earlier page is only found by the comparison, which is why `ComparisonPass` has to look for
  it (`ExitZeroIsEarned`).
- **One reservation, one request.** The pacer counts planned requests and the adapter splits by 8
  symbols; `PaidAndApproved` holds because the plan's batches never exceed the adapter's chunk. Its
  mutants break exactly this agreement.

### Disagreements between code and documentation

`pipeline_flags` reproduces the first. `validate_bars` writes flags in rule order
(`validation/bars.py:178`), the store sorts them as text (`market_bars.py:247`), and
`_frames_match` compares lists in order (`phase1_bakeoff.py:778`). A bar that breaks two rules in
disagreeing order, say `ohlc_inconsistent` and `negative_volume`, makes `process` raise after its
rows were appended. `validation/bars.py:59` says that no severity removes an observation, and
`storage-layout.md:91` calls the flags non-destructive. `MismatchExplained` shows that this is the
only way a page reaches the comparison and fails it.

`massive_evidence` reproduces the second. `MassiveProvider._pages` parses the body and inspects
`next_url` (`massive.py:262`) before it yields the page (`massive.py:270`), so a page with a bad body or
link was received and is never stored. ADR 0002, line 15, wants each provider response persisted,
and `design-v0.1.md:169` the exact payload before downstream use; the Alpaca loop
(`alpaca.py:319`) and the Twelve Data loop (`twelve_data.py:380`) yield first.
`LostPagesExplained` shows that the other losses are the page in hand and one whose storing failed.

## 4. Bounds

| run | bounds | why they are enough |
| --- | --- | --- |
| `raw_store` | 2 writers, 3 calls, 1 batch id under 2 layouts, safe and unsafe metadata, payloads of at most 1 chunk (good or bad), 1 fault | every race is between two overlapping calls; the third call retries what the first two, or a fault, left; layouts only matter two at a time |
| `raw_replay` | 2 batch ids, payloads of at most 2 chunks over 2 values, 2 opens, 2 edits or failing reads | an edit between two passes and one inside a pass, before and behind the reading position |
| `bar_store` | 2 writers, 2 calls, 1 batch, 3 partitions, 1 fault | three partitions are the least for two frames to collide on a part that is not their first, and for a rollback to be broken off with parts on both sides; several faults of one call, a failed write and then a failed unlink say, are left to the proofs, which hold for any number |
| `bar_reads` | as above with 2 partitions, any number of queries | one listing or opening step before and one behind the part that changes |
| `pipeline` | 1 batch, pages of at most 2 records over 2 keys and 3 rules, 3 attempts, 2 faults | two records make a duplicate, two rules an order, three attempts a retry of a retry |
| `pacer` | window of 3 ticks and 3 credits, 6 credits and 4 requests in all, 8 ticks | the window fills and empties twice, and both budgets run out in some behaviours |
| `paging` | all adapters, 3 links, 2 series, 3 pages a series | three links repeat at once or after one between, and reach the page limit without a repetition; the second series starts behind any end of the first |
| `massive_evidence` | 1 link, 1 series, 2 pages | one bad page is enough |
| `compare` | 4 times of which 2 expected, at most 2 keys a side; five-minute and daily bars, dividends and ticker changes; bars differ in one of 4 sets of metrics, actions in any | one expected time with a near observation on each side of it, and one with two candidates; aligning needs two keys a side at most to be ambiguous; the 4 sets hold each sort of metric with and without its causes; a split is compared like a dividend without a currency |
| `study` | the real plan; at most 2 odd outcomes of requests | each conjunct of the verdict fails by one odd page, two tell whether one hides another |
| `normalise` | 2 days, the second closing early; requests at, one tick before and one behind the bounds of days and sessions; arbitrary pages of at most 4 series and records together (three records of one symbol, or two symbols with one each), timelines of 3 events on 4 dates | two records of one series and two series show whether one costs the other anything; an error, an empty list or a foreign symbol stands beside a good series; three events make a change and its reversal, out of order |

Bounds named in the modules (`MaxCalls`, `MaxFaults`, `MaxChunks`, `MaxOpens`, `MaxRecords`,
`MaxAttempts`, `MaxTime`, `MaxSeries`, `MaxKeys`, `MaxOdd`, `MaxEvents`, `PageSize`, `Points`, `Stamps`) stop
counters or choose inputs; none is in the code. `MaxPages`, `MaxPoints`, `MaxSymbols` and the credits
are the code's own limits, the first two with smaller values. The proofs hold for all values.

## 5. Fairness

Liveness is checked under weak fairness of the steps of a running call, and of nothing else: the
code has no wait but the pacer's sleep, so a thread that is scheduled goes on. Callers, faults,
kills and outside edits owe nothing. For the query of `BarReads` the reader alone is fair, so that
it ends beside any number of appends. In `Paging` every step belongs to the one call, whose
transport has timeouts: `WF_vars(Next)` says that a request is answered or fails. For the pacer,
fairness of `Wake` says that the sleeper returns at some time; it may do so early, or without the
clock having moved. Ticks are whole, so a sleeper that advances the clock by ever smaller amounts is
outside the model; how often a call may have to sleep is `SleepsAreEnough`, which needs no fairness.

## 6. Proofs

The proofs hold for every value of the constants that satisfies the modules' named assumptions
(finitely many partitions, groups and scheduled times, natural bounds, `None` outside the data). Two
assumptions say more. `CalendarAssumption` of `BarNormalization`: a session opens after midnight and
ends within its UTC day, a millisecond is no longer than a five-minute bar or than the time from
midnight to the opening. `BudgetAssumption` of `Study`: a planned batch is no larger than what the
adapter asks for at a time or one reservation may take, and the approved requests and credits cover the
references, eight windows of all securities, fourteen of one, two pages of evidence and the preflight;
with the code's numbers this holds with equality (161 credits, 49 requests), so the study has no slack.
TLC evaluates all of them on the instances.

- **RawStore.** `TypeCorrect`, `PublicationIsAtomic`, `AcknowledgementsHold`,
  `CollisionsAreJustified`, `SplitsNeedOverlap` and `Implementation`. The inductive invariant
  says what the temporary directory of a call holds at each place: a beginning of its payload
  while it copies, the whole artifact once the manifest is there. It is needed because `Rename`
  publishes whatever `temp` is. `SplitsNeedOverlap` also needs that what was published before a
  call's search began and belongs to its batch would have been found. `Implementation` maps
  `Rename` to `Publish`, the end of a call that returns to `Confirm`, `Begin` to `Offer`, the
  rest to stuttering.
- **BarStore.** `TypeCorrect`, `AppendsStay`, `AppendsAreAtomic`, `AppendsNeverExtend`,
  `RemainsAreKnown`. The invariant says that call numbers are unique, that a part's owner is a
  call that linked it (`Owned`), and that the parts of a running call are exactly those between
  its `undone` and `linked` positions, so that a rollback can only unlink its own.
  `AppendsNeverExtend` adds what the preflight has ruled out so far (`Cleared`): of the parts that
  were there when the call began, none of its batch is left in a partition already visited. A part
  cannot come back under an old number, because a call that runs links upwards (`Older`,
  `OwnLinks`). `RemainsAreKnown` needs the converse of `Owned`, that every part of a running call is one
  its counters know (`Exact`), and says of each running call which temporaries it has at each place, by
  the faults that hit it (`HitBy`, `Desk`). When a call ends its counters are gone, but the parts and
  temporaries with its number are never touched again (`Known`: numbers are not
  used twice), so what `Desk` said at the end stays true.
- **BarReads.** `ReaderTypeCorrect`, `AppendsAreRead`, `HalvesOverlap`, `RaisesNeedOverlap`. The
  proofs stand on `AppendsStay`: what was appended when the query began stays where it is, so each
  of its parts is in a partition still to be listed, or listed and still to be opened, or seen
  (`Collected`). A listed part that is gone belonged to a call the query overlaps (`Untouched`), and
  a part of a call that neither overlaps nor was hit by a fault is of an append that had returned
  (`Settled`).
- **RawReplay.** `TypeCorrect`, `DeliveryIsFaithful`, `NoSilentLoss`, `RefusalsAreJustified`. A
  reader exists only where a pass ended with the digest the handle names, and the snapshot it
  reads cannot be edited. `NoSilentLoss` needs that a pass stops only at the end of the snapshot;
  `RefusalsAreJustified` that without a fault the files are still those that were written.
- **Pipeline.** `TypeCorrect`, `EvidenceComesFirst`, `ReturnedStaysStored`, `MismatchesAreExplained`.
  The invariant says what a call has established at each place (the evidence is stored, the rows
  are those of the page, the store has them), and that rows in the store always have their
  evidence and are of a page that has rows. The last part matters for a page without rows, which is
  never appended: a later attempt must not find rows under its batch. A batch a call returned for
  is either full, and then refused by every later append, or has no rows to append.
- **Pacer.** `TypeCorrect`, `RateIsBounded`, `BudgetsAreKept`, `SleepsAreBounded`. The invariant says
  that what the pacer forgot is older than the window: every credit of the running window is in
  `events`. The history of all credits ever reserved then has at most `WindowCredits` in any
  window, though the deque is pruned. Sums of costs are cardinalities, via a bijection from
  `1..cost` to the units of a call. `SleepsAreBounded` counts down: the sleep asked for lasts until
  the oldest call has left, all credits of one call leave together, so each full sleep takes one
  call out of the window.
- **Paging.** `TypeCorrect`, `LossesAreExplained`, `WalksAreComplete`. The page in hand is the last
  one received (`InHand`), the next request continues the walk (`Ahead`), and `seen` with `Start`
  holds every cursor of the series (`Past`): a link outside `seen` is therefore new.
- **Compare.** `ObservationsCountOnce`, `BlameIsAlwaysEarned`, `StandInsAreAlwaysHonest`. Aligned
  pairs are one-to-one between observations the other side lacks, so no two keys that get a row share
  a partner, and a right-hand key is skipped exactly if the row of its partner has it. The same
  one-to-one pairing between absent expected keys and unexpected observations shows that as many
  keys are covered as there are pairs, so that `Missing` is the number of the rest; a key with nothing
  near has no partner, and its own row reports it. For `BlameIsAlwaysEarned` a report is quiet only if
  each row is matched with its own key (`QuietRows`), which makes both sides equal.
- **BarNormalization.** `EverythingIsAccountedFor`, `HonestPagesLoseNothing`, for any calendar, any
  length of a bar and any precision of the wire. The invariant `BarInv` says that the page is one a
  provider can answer with, and that a later stage is what the page gives. `EverythingIsAccountedFor`
  goes through what becomes of one record (`CanonicalCases`) and who reports what is not read
  (`ReportedRecords`, `ReportedSeries`); that no record has both its bar and an issue rests on the two
  kinds of issues being about different series (`IssueOfRead`). `HonestPagesLoseNothing`
  is arithmetic: rounding outwards to the unit of the wire keeps every stamp of the request, the
  stamp of a daily bar and the bar are on one date, and the starts the comparison cuts from the overlap
  of a session lie on the session's own grid.
- **ActionNormalization.** `ActionsAreAskedFor`, `TimelineIsKept`, for pages and timelines of any
  length. The changes are those of some arrangement by date of the usable events, which no longer
  disagree on a date. Between two neighbouring changes the ticker does not change (`Steady`), so each
  takes up where the one before ended; and the events on a date lie between the last event before
  it and the last one up to it, so only the first of them can be a change.
- **Study.** `PrivateDataIsDeleted`, `SuccessIsEarned`, `StudyIsPaidFor`, for any number of
  securities and any batch sizes the budget covers. `RootInv` says where the root can be at each
  place. `EarnedInv` says that a verdict is only reached with the work done and the root gone.
  `CreditInv` says that what is reserved is exactly what the work so far costs, in closed form
  (`Before` and `Owed`), and that while a batch is asked for its reservation is the one not used
  yet; no request splits, because a batch fits in a chunk. `WorkAt` computes which item of the
  work is where.

Every invariant the runs check is proved, and every action property that is no liveness. Only
model-checked is liveness (`CallsEnd` three times, `ReplayEnds`, `QueriesEnd`, `ProcessEnds`, `LoopEnds`): liveness
under fairness, ENABLED and induction over data are out of the prover's reach. No proof needs facts about
`SelectSeq`: `Pipeline` treats the bars of a page as some function and shows that it is kept,
`ActionNormalization` keeps the positions. What a sort computes is assumed, not proved: that every
timeline has an arrangement by date would need an induction.

## 7. Order of work, and what is left

The modules were written from the storage outwards: raw store, replay, bar store and pacer first,
with their theorems; then the pipeline, the queries, the page loops, the comparison, the study and the
normalisations; then the theorems about them. What would add most now:

1. The study over `Paging` instead of one request per chunk. Alpaca's paging is not bounded by the
   budget of the plan: `provider_bakeoff_design.md:458` wants a stop when pagination exceeds it, and
   the adapter stops only at its own page limit.
2. `Study` with symbols, so that an unmapped ticker and its evidence are told apart per security.

## 8. Not modelled

- Flushing to disk and power loss: the code never calls `fsync`; replay would detect a short
  payload but cannot restore it.
- Query filters and their SQL, Parquet encoding, column types: pure data.
- Query strings, headers, error wording, credentials, logging and progress events, the metadata of
  a request.
- The text of a payload: JSON parsing keeps the last of two equal keys (`normalization/common.py:127`),
  so the model reads a page as the map the parser hands over.
- Numeric tolerances, prices and volumes: a choice of which metrics differ or which rules break.
- The descriptive statistics of the result (`summarize_provider_runtime`, difference counts,
  adjustment behaviour): they decide nothing.
- The entitlement preflight: one request and a table of outcomes.
- The provider's own clock: credits are stamped when reserved, not when a request arrives.
- Instruments, features and market-time helpers: value types without state. The schedule is part
  of `BarNormalization`.
