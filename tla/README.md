# Replay divergence service: TLA+ models, checks and proofs

The service finds the first instruction at which a processor under test left
the architectural state of a reference implementation. A *replay batch* holds
two instruction trails (reference and under test) and some checkpoints. The
trails are aligned, replayed at each checkpoint and compared; a divergence is
traced back to its first instruction; a snapshot of the result is published
and seals the batch. The state is in SQLite. The requests arrive over HTTP,
each in a goroutine of its own, and nothing in the program keeps two requests
of one batch apart. That is what makes it hard: a method is a sequence of SQL
statements over rows it read earlier.

This directory models one batch and the requests that work on it, the store
they share, and the computations on trails of several resources; it
model-checks small instances with TLC and proves the main properties with TLAPS.

## The system

| Component | State | Operations | What must hold |
| --- | --- | --- | --- |
| Batch lifecycle (`service/batch_service.go`, `model/errors.go`, `store/batch_store.go`) | row of `replay_batches`: status, locked range | create, confirm, seal, and the last write of sync, compare, trace and publish | stages in order, sealed is final |
| Trail import (`trace/`, `store/event_store.go`) | `exec_events` | import a fragment of a trail | idempotent: stored events never change |
| Checkpoints (`store/checkpoint_store.go`) | `checkpoints` | register, mark unreliable | refused once sealed |
| Event exclusion (`service/compare_service.go`) | event status | exclude | an exclusion is kept; excluded events are out of the comparison |
| Alignment (`sync/aligner.go`) | event status, range | sync | the range covers what is aligned |
| Replay and fingerprints (`compare/hash.go`, `store/fingerprint_store.go`) | `state_fingerprints` | scan | a pair describes the two trails |
| Comparison (`service/compare_service.go`) | `divergences` | compare | one divergence per mismatching checkpoint |
| Backtrace (`backtrace/`, `store/dependency_store.go`, `store/divergence_store.go`) | `rw_dependencies`, `divergences`, `divergence_chain_edges` | trace | the instruction named is the first divergent one; chain and verdict agree |
| Snapshots (`service/snapshot_service.go`, `snapshot/`) | `loc_snapshots` | draft, publish | one published snapshot, immutable; publishing seals; supersession ends at the published one |
| Store (`store/store.go`) | connection pool (one connection), transaction mutex | statement, `WithTx` | a transaction is all or nothing, nobody waits for ever |
| HTTP API (`httpapi/`) | requests in flight | the routes | handlers of one batch may overlap freely |
| Statistics, lists, self check | none | read only | not modelled |
| Command, smoke test, build files | none | start over an existing database | only the restart is modelled |

Components meet in the tables and nowhere else: no channels, no callbacks, no
cache, no background jobs. A method reads the batch row (`BatchStore.Get`),
tests its status, issues further statements one after the other, and the
methods that change the status end with an `UPDATE` of the *whole* row they
read at the start. There are four transactions: the insertion of a fragment, the
replacement of the dependency edges, the replacement of a chain, and the
publication.

What is hard to test here:

- a row that is stale when it is written back (a sealed batch reopened);
- a guard read in one statement and used in another (writes after sealing, two
  divergences for one checkpoint, an exclusion overwritten);
- a method that stops half way (a chain without its verdict, a verdict without
  the batch status) and is sent again;
- publications that overlap;
- empty trails, whose range is 0..0;
- one connection and one mutex for everybody, errors included;
- computations whose correctness rests on an order: states carried from one
  checkpoint to the next, the first divergent instruction, a breadth-first walk.

`PROJECT.json` lists every such hazard at its line, with the properties that
would catch it, or the reason why none does yet.

## Modules

| Module | Models |
| --- | --- |
| `ReplayStore` | the tables as variables, one operator per SQL statement, the transition table, replay and backtrace as pure operators |
| `Requests` | `req`: for each goroutine the method it runs, the next statement and its local variables; `Begin`, `Goto`, `Finish`, `Fail`, `Restart` |
| `TrailService` | ImportEvents, AddCheckpoint, MarkCheckpointUnreliable, ExcludeEvent, Sync |
| `CompareService` | ScanFingerprints, Compare, TraceDivergence |
| `SnapshotService` | ConfirmBatch, SealBatch, CreateSnapshot, PublishSnapshot |
| `ReplayService` | the composition of the three: Init, Next, Spec, the type invariant and the properties |
| `BatchLifecycle` | abstract: what a client that keeps certain requests apart may rely on; `ReplayService` implements it |
| `RetryingClient` | a client on top of `ReplayService` that repeats its requests until the batch is published |
| `TxStore` | `store.go`: the mutex of `WithTx`, the pool of one connection, statements, transactions, errors, crash |
| `AtomicStore` | abstract: a call writes all its rows in one step or none; `TxStore` implements it |
| `Trails` | trails over several resources, replay, scopes, fingerprints, differences, last writers, as pure operators |
| `Locator` | scan, compare and trace as one computation over `Trails`, with the loop of `expandChain` |
| `MCReplayService`, `MCRetryingClient`, `MCLocator` | import requests, operation sets, trails and checkpoints of the TLC runs |
| `ReplayServiceProofs`, `SnapshotProofs`, `OverlapProofs`, `EvidenceProofs`, `LifecycleProofs`, `LocateProofs`, `TxStoreProofs`, `LocatorProofs` | theorems |

The service is modelled at three grains, each with what is hard there.
`ReplayService` has every statement of every method, the overlap of requests and
their failures, on one resource. `Locator` runs one scan, compare and trace
without interruption, on several resources, scopes and reads. `TxStore` opens up
what the other two take as one step: a statement or a transaction. That one step
is justified is what `TxStore`'s refinement of `AtomicStore` shows.

**Steps.** In `ReplayService` one action is one SQL statement or one transaction,
together with the computation on locals that follows it up to the next
statement. The action names are the method and what the statement does:
`SyncRangeRef`, `SyncRangeTest`, `SyncListRef`, ..., `SyncCommit`. In `Locator`
one action is one turn of a loop.

**Locals.** `req[w].b` is the copy of the batch row a method holds, `div` the
copy of the divergence, `ref` and `test` the trails it listed, `left` and `next`
what its loops still have to visit, `cfg` and `sum` the snapshot being built.
What the code reads once and uses later is a local here, so that it can be stale
here too.

**Failure.** `Fail(w)`: the next statement returns an error or the request is
dropped; the method returns and what it has written stays. `Restart`: the
process stops, all requests are lost, the tables are on disk. A client may send
any request again at any time, so a retry needs no action of its own. `TxStore`
has the errors of Begin, of `fn`, of Commit and of a single statement, and a
crash inside a transaction. A Commit that fails is taken as rolled back, with
the connection given back, which is what database/sql does with it.

**Overlap.** `Sent` is the set of operations the clients of a run send,
`Concurrent` those whose requests may overlap. A request of any other operation
*runs alone*: it begins when no request is running, and none begins beside it.
The program itself is `Sent = Concurrent = Ops`. `Concurrent = {}` is a client
that waits for an answer before it sends the next request, the way the
documentation describes the service being used. The sets in between say how much
of that waiting a property needs: the theorems name the operations that must run
alone (`Alone(ops)` in `OverlapProofs`), and the runs let all others overlap.

**Operators whose comment starts with *Mutated*.** They are no part of the model.
Each is a definition broken the way a bug would break it, and shows that the
property it is paired with in `PROJECT.json` fails when the code does.

### Abstract specifications

- `BatchLifecycle` knows a stage, a range, the selection of checkpoints and
  exclusions, a verdict, and snapshots that freeze and say something. Its steps are
  those a user of the API thinks in: collect evidence, sync, advance, draft,
  publish. The refinement mapping (`Lifecycle` in `ReplayService`) maps the batch
  row to the stage, the tables to the evidence, and the snapshot rows to `frozen`,
  `says`, `published` and `retired`. Publishing is one step of it although the
  method reads the snapshot, the divergences and the batch in statements of their
  own; a draft freezes one moment although its parts are read one after the other;
  and what a request that fails half way leaves behind only adds evidence. It
  holds while the six operations that change the stage, the verdict or the
  snapshots (sync, compare, trace, seal, draft, publish) run alone. Imports,
  registrations, marks, exclusions, scans and manual confirmations may overlap.
- `AtomicStore` has `Call`, `Apply`, `Refuse` and `Crash`. `TxStore` maps the rows
  of a call in progress to `writes`. It holds for any overlap.

### Abstractions

- One batch. Every statement carries the batch id, and a snapshot of another
  batch is refused.
- `ReplayService`: one architectural resource. Every instruction reads it and may
  write it (`Vals`), leave it (`nowrite`), or name it as written without giving a
  value (`novalue`, which import accepts and replay refuses). Every checkpoint
  has it in scope. So the first divergent instruction is modelled fully, and the
  chain is its root alone. `Trails` and `Locator` have several resources of two
  kinds, reads, scopes and chains, on trails whose writes have values.
- An event has values for resources it declares as written, and for no other.
  Import accepts others as well, against the comment at `trace/importer.go:25`. To
  replay they do not exist, but `writesDiffer` goes over the declared writes of the
  test event and looks the resource up in the values of *both* events
  (`tracer.go:112`). What is said here about the located instruction is said of
  trails without such values.
- A request that reads the batch and then, as its next statement, only asks
  whether a row exists makes both reads in one step (`MarkBegin`, `ExcludeBegin`):
  no row is ever deleted, and the second read has no other use.
- Fingerprints are compared as the states they hash: FNV-1a is taken as free of
  collisions. A resource with the value "" hashes differently from one that is not
  in the map, while `DiffState` does not tell them apart; values are not empty
  here.
- An import request holds at each sequence number any set of inputs, malformed
  ones included. `DedupeInputs` sorts with a sort that is not stable, so any of
  several well-formed inputs at a number may be the one kept.
- Counts, messages, names, PCs, opcodes and timestamps are left out, and with
  them the alignment counts and the `MaxDepth` that a publication reads.
- Requests with unknown ids are refused by the code and not sent by the model.
- `TxStore`: a row is a version that is counted up (modulo `Versions`), so a write
  that is lost or done twice shows.

## Runs

`CHECK_DEADLOCK FALSE` is set in the runs of `ReplayService` and `RetryingClient`
because the service may really have nothing left to accept: a sealed batch with
no draft refuses every request, and in the model the bounded tables fill up.
`Locator` and `TxStore` are checked for deadlock.

| Run | Question | Properties |
| --- | --- | --- |
| `Lifecycle` | all operations, failures, restarts; sync, compare, trace, seal, draft and publish alone, the others two at a time | `TypeOK`, `LifecycleOrder`, `SealedReadOnly`, `PublishedSealed`, `SummariesAgree`, `ExcludedStaysExcluded`, `PublishedSummaryKept`, `ImplementsLifecycle` |
| `Locate` | up to the located divergence, two instructions per side; sync, scan and compare alone, imports, registrations and traces two at a time | `OneDivergencePerCheckpoint`, `ConfirmedHasChain`, `ConfirmedIsFirst`, `ConfirmedIsLocated`, `AlignedInRange`, `RangeEndsAtEvents`, `VerdictsStand`, `ScanRepairs` |
| `Publish` | two requests at a time confirm, trace, seal, draft and publish | `AtMostOnePublished`, `SupersessionEndsAtPublished` |
| `Evidence` | two requests at a time import, register, sync, scan, compare and trace | `ImportedEventsKept`, `ConfirmedDiverges` |
| `Retry` | a client that repeats its requests, three errors or restarts | `PublishedEventually` |
| `Locator` | scan, compare, trace on three resources | `CandidatesAreMismatches`, `PairedIsLocated`, `FirstMakesStatesDiffer`, `ChainIsUpstream`, `ChainIsComplete`, `OtherSourcesHeld`, `EveryTurnIsProgress`, `TraceEnds` |
| `TxStore` | three callers on two rows | `HeldWhileUsed`, `SomeCallCanGoOn`, `CallsAreAtomic`, `EveryCallReturns` |
| `Unsealed` | confirm beside seal | `LifecycleOrder` is violated |
| `ExclusionLost` | exclude beside sync | `ExcludedStaysExcluded` is violated |
| `SummaryRewritten` | publish beside publish and trace | `PublishedSummaryKept` is violated |
| `ExcludedBlamed` | exclude, then sync, compare, trace | `ExcludedNotBlamed` is violated |
| `ChainCutShort` | an instruction that reads what it writes | `ChainHoldsSources` is violated |

What the passing runs show. As long as a few operations run alone, the service
keeps its documented promises even if any statement fails, the process restarts
anywhere and all other requests overlap (`Lifecycle`, `Locate`), and a client that
waits and only repeats what was not answered reaches a published snapshot
(`Retry`). Without any such restriction it still keeps the promises that the
publication transaction, the unique index of the events and the recomputation in
the trace give (`Publish`, `Evidence`). The others are lost as soon as two
particular requests overlap, which the first three violated runs show; the hazards of such an overlap are not
what the passing runs test, and their notes in `PROJECT.json` say so. What the
trace names is the instruction that made the states differ, and its chain is what
a breadth-first walk should find (`Locator`), except that an instruction that
reads what it writes hides its sources (`ChainCutShort`), and nothing else does
(`OtherSourcesHeld`). The store underneath is atomic and never stuck (`TxStore`).

### Bounds

- `Seqs`: `{1}`, or `{1, 2}` in `Locate` and `Retry`, where the order of two
  divergent instructions, trails of different length, partial alignment and two
  checkpoints matter.
- `Vals = {a, b}`: equal and different writes. The values are written out in
  `Fragments`, so no symmetry is taken over them.
- `Fragments`: the import requests. `OneSeqFragments` includes an event without a
  value, for the replay that fails, beside a malformed input at the same number.
  `TwoSeqFragments` lets the test trail be equal or differ at the first, the
  second or both instructions, and arrive in pieces in any order.
  `DifferingFragments` is the shortest way to a divergence.
- `MaxDivs`, `MaxSnaps`: rows of the two tables with generated ids. Two
  divergences make a duplicate possible. Three snapshots are what
  `SupersessionEndsAtPublished` needs to have a chain of two. In `Lifecycle` one
  divergence is enough because one trustworthy checkpoint is.
- `Workers`: one or two goroutines, symmetric (never in a run with a liveness
  property). Each violated run needs two at most; the theorems cover any number.
- `MaxFaults = 3` in `Retry`: an error in each of the three methods that write
  several rows, or three in one.
- `Locator`: `MaxSeq = 5`, two registers and one cell of memory. `Exhaustive` has
  all reference trails of three instructions that read and write two resources,
  each instruction with the same value, another value, or missing on either
  side; the other two programs have five instructions, with several paths from
  one to another and with instructions that read what they write. Three sets of
  checkpoints have every scope and one that is unreliable.
- `TxStore`: three callers, so that somebody waits for the mutex while another
  waits for the connection; two rows, so that a transaction can be seen half
  done; two versions.

`MarkCheckpointUnreliable` is sent in `Lifecycle` only, to keep `Locate` small. To a
scan or comparison that comes later a marked checkpoint is one that was never
registered, which `Locate` has; marks that overlap the other requests on two
checkpoints are left to the theorems, which cover all operations.

The largest run, `Locate`, has some 630 000 distinct states.

### Fairness

- `RetryingClient`: weak fairness of a goroutine that is in the middle of a method
  (the runtime schedules it, and no statement of another request can block it for
  ever, which `TxStore` shows), and strong fairness of the client's requests: a
  client that wants a request answered sends it again and again, and its
  preconditions in the service come and go. Errors and restarts are bounded by
  `MaxFaults`: nothing ends if the database fails for ever.
- `TxStore`: strong fairness of the steps of a call. The mutex and the connection
  are given up and taken again and again by others, and one that waits is not
  passed over for ever: `sync.Mutex` serves a starving waiter first, and
  database/sql hands a connection that is given back to a request that waits.
  Errors are never relied on.
- `Locator`: weak fairness of the next turn of its loops, which one goroutine runs.
- `ReplayService` by itself has no fairness. All its properties are safety
  properties.

The liveness of `Retry` has its limits, which the model makes precise: `Ready`
says that the client waits with Sync for both trails and a trustworthy
checkpoint, and it sends no manual confirmation. Without the first a batch may
be locked with nothing to compare, without the second it may be confirmed with
candidates that no trace will be accepted for.

## Proofs

`tlapm` checks each proof module from nothing. The assumptions are those of the
modules: `SeqsAssumption`, `ValsAssumption`, `BoundsAssumption` (in
`ReplayStore`), `SentAssumption`, `ConcurrentAssumption`, `FragmentsAssumption`
(in `Requests`), `VersionsAssumption` and `NoneAssumption` (`TxStore`),
`MaxSeqAssumption`, `UnsetAssumption` (`Trails`), `ProgramsAssumption` and
`CheckpointsAssumption` (`Locator`). `Workers`, `Callers` and `Rows` are
arbitrary sets: any number of requests.

| Theorem | Statement | Argument |
| --- | --- | --- |
| `TypeCorrect` | `Spec => []TypeOK` | `TypeOK` alone is not inductive: the statement a request comes to must find its arguments in range. `LocalsOK` adds that a trace holds the id of a divergence row, a publication that of a snapshot row, and that a trace about to save its chain holds a chain of sequence numbers. |
| `OnePublished` | `Spec => []AtMostOnePublished` | Only a draft's insertion and the publication write snapshots (`SnapshotWriters`), and what the publication leaves in the table has one published row whatever the copy it started from said. |
| `SupersessionSound` | `Spec => []SupersessionEndsAtPublished` | The publication points every row that it supersedes to its own, which is published; a set of superseded rows closed under `superseded_by` in the new table would give one in the old. |
| `EventsKept` | `Spec => ImportedEventsKept` | The writers of `exec_events` (`EventWriters`) are the insertion, which the unique index guards, and status updates. |
| `ConfirmedDivergesAlways` | `Spec => []ConfirmedDiverges` | `EvidenceInv`: the trails in the locals of a trace agree with the tables wherever they have an event, because events are only added and never change, and the verdict in its locals is right for these trails; hence right for the tables, then and ever after. Uses `EventsKept`. |
| `SealedIsReadOnly` | `Alone({"seal", "publish"})`, `Spec => SealedReadOnly` | `SealedInv`: a request that runs alone holds the batch row as it is (`CopyCurrent`), and no request that read an unsealed row is left when the batch is sealed. So a guard that a method tested on its copy holds of the table. |
| `PublishedImpliesSealed` | `Alone({"seal", "publish"})`, `Spec => []PublishedSealed` | By the step lemma of `SealedIsReadOnly` a sealed batch stays sealed, and a publication seals it. |
| `StagesInOrder` | `Alone({"sync", "compare", "seal", "publish"})`, `Spec => LifecycleOrder` | `StageInv` adds to `SealedInv` that no request that read an earlier stage is left when the batch leaves `syncing` (`EarlyQuiet`), and that what was read since the lock has the locked range (`LockedCopies`). Those that write the row and still overlap, traces and manual confirmations, all write the same next stage. |
| `SummariesKept` | `Alone({"publish"})`, `Spec => PublishedSummaryKept` | `PublishesCurrent`: a publication past its check holds the id of a snapshot that is still a draft, so it writes no row that is or was published. |
| `SummariesAlwaysAgree` | `Alone({"seal", "publish"})`, `Spec => []SummariesAgree` | `SummaryInv`: whatever was published says the verdict of the tables, and a sealed batch keeps it. |
| `ServiceIsLifecycle` | `Alone({"sync", "compare", "trace", "seal", "draft", "publish"})`, `Spec => ImplementsLifecycle` | `LifecycleInv` adds to `StageInv` that the parts of a snapshot that a request has read are those of the tables (`DraftsCurrent`). Each statement is then a step of `BatchLifecycle` or a stutter, method by method. |
| `ScansRepair` | `Alone({"scan"})`, `Spec => ScanRepairs` | `ScansOK`: the trails a scan holds are those of the tables, and every checkpoint that it has left behind has the pair of these trails, half of it at the checkpoint it is at. |
| `CandidatesAreUnique` | `Alone({"compare"})`, `Spec => []OneDivergencePerCheckpoint` | `CandidateInv`: until the batch leaves `syncing` all divergences are candidates, so that the look for an existing candidate, which passes over judged rows, finds every row; a Compare about to create one has found none. |
| `ConfirmedIsTheFirst` | `Alone({"compare"})`, `Spec => []ConfirmedIsFirst` | `VerdictInv` adds what each trace holds (`JudgeLocal`). A trace begins after `syncing`, when no import is left that could change a trail (`EarlyInv`), and an exclusion leaves contents alone: all traces judge the same trails, and what was first stays first. |
| `ConfirmedHasItsChain` | `Alone({"compare"})`, `Spec => []ConfirmedHasChain` | The same invariant: the chain is saved before the verdict, and another trace of the same divergence, later or at the same time, saves the same chain. |
| `VerdictsAreFinal` | `Alone({"compare"})`, `Spec => VerdictsStand` | The same invariant: a trace about to write has the verdict that is there already (`Backed`). |
| `ConfirmedBatchIsLocated` | `Alone({"compare"})`, `Spec => []ConfirmedIsLocated` | `LocatedInv` adds to `VerdictInv` that the row, and every copy that a request holds of it, is confirmed or sealed only if there is a confirmed divergence (`RowsLocated`). A trace confirms the batch after its divergence, and no later trace takes that back (`Backed`). |
| `AlignedStaysInRange` | `Alone({"sync"})`, `Spec => []AlignedInRange` | `AlignmentInv`: the range a Sync computes bounds all events that exist while it runs, it writes this range, the later writers of the batch row keep it, and after the lock no event becomes aligned. |
| `RangeIsTight` | `Alone({"sync"})`, `Spec => []RangeEndsAtEvents` | `EndsInv` adds to `AlignmentInv` where the ends of the range a Sync holds come from (`EndsLocal`): each is an event of one of the sides, or the 0 of a side without any (`UnionEnds`). Rows are never removed (`RowsStay`), so an end stays an event after the lock. |
| `ExclusionsKept` | `Alone({"sync"})`, `Spec => ExcludedStaysExcluded` | The same invariant: the events a Sync has still to align exist and are not excluded; an import inserts only rows that are new. |
| `NothingLeaks` | `Spec => []HeldWhileUsed` | `TxInv`, with `StoreIsAtomic`'s part: where a call stands says what it holds, on every path out of `WithTx`. |
| `StoreIsNeverStuck` | `Spec => []SomeCallCanGoOn` | From `HeldWhileUsed`: the holder of the connection never waits, and the holder of the mutex waits for nothing but the connection. |
| `StoreIsAtomic` | `Spec => CallsAreAtomic` | In `TxInv`, `view` is the committed table with the rows written so far counted up once (`ViewOK`). Since only the holder of the connection writes, a commit makes all its rows appear at once, and a rollback none. |
| `ScanIsExact` | `Spec => []CandidatesAreMismatches` | `ScanInv`: the states carried are those replayed from the first event up to a checkpoint already visited (`ReplayOfReplay`), because checkpoints come in order. |
| `EveryCandidateIsLocated` | `Spec => []PairedIsLocated` | On trails of the same instructions a state that differs has a last writer, and that differs in both trails (`SameWritersSameState`). |
| `FirstIsTheTrigger` | `Spec => []FirstMakesStatesDiffer` | The same lemma below the first divergent instruction; at it, the resource that it writes differently is not written again. |
| `ChainRunsUpstream` | `Spec => []ChainIsUpstream` | `ChainInv`: a new node is a writer at or before its reader, and not the reader itself, which is in the chain already. |
| `ChainIsClosed` | `Spec => []ChainIsComplete` | `QueueByDepth`: the queue is ordered by depth and spans two depths at most, so that the first depth at which a node is met is the least; each node is queued or has all its writers in the chain, and at the end the queue is empty. |
| `OtherSourcesAreHeld` | `Spec => []OtherSourcesHeld` | `ChainIsComplete` speaks of the last writer up to the reader, as the code does. Where the reader does not write the resource, that is the last writer before it. |
| `LoopsShrink` | `Spec => EveryTurnIsProgress` | `Work` counts the checkpoints left, the instructions that are not in the chain and those in the queue. An instruction joins chain and queue in the same turn, and the head of the queue leaves it (`ExpandShrinks`). |

`LocatorProofs` has `LocatorInv == TypeOK /\ ScanInv /\ DivInv /\ ChainInv` as its
inductive invariant (`LocatorCorrect`).

**What must run alone.** The program sets `Concurrent = Ops`, where no operation
runs alone: the theorems with a hypothesis `Alone(ops)` say what a client, or a
lock per batch in front of these methods, has to add. The operations in it are
those that the proof uses, and for three of them a violated run shows that the
property is lost without: `Unsealed` (`seal`), `ExclusionLost` (`sync`)
and `SummaryRewritten` (`publish`). `Compare` is in the hypothesis of the verdicts
for two reasons: two of them insert two candidates for one checkpoint, and an
import that began in `syncing` may arrive while the batch is traced. That the
hypotheses are the weakest ones is not claimed.

Two theorems delimit a finding: what `SummaryRewritten` shows needs a publication
that overlaps another request (`SummariesKept`), and what `ChainCutShort` shows
needs an instruction that writes what it reads (`OtherSourcesAreHeld`).

**Not proved.** Every invariant and action property of a passing run is proved, for
all values of the constants. Only model-checked are the liveness properties
`PublishedEventually`, `EveryCallReturns` and `TraceEnds`: liveness and `ENABLED`
are out of the prover's reach. For two of them the safety half is proved: the
loops of the locator cannot run for ever (`LoopsShrink`), and the calls of the
store cannot all be stuck (`StoreIsNeverStuck`). What a recursive definition
computes over all inputs would be out of reach too; no module declares a recursive
operator.

## Findings

Five disagreements between the code and what its documents or comments say, one
per violated run; `PROJECT.json` quotes both sides. In short:

1. A confirmation or trace that overlaps a sealing writes its older row back and
   unseals the batch (`Unsealed`).
2. Sync overwrites an exclusion made while it runs (`ExclusionLost`).
3. Two publications of one draft: the second rewrites the published summary
   (`SummaryRewritten`).
4. An excluded event takes part in replay and can be named as the divergence
   (`ExcludedBlamed`).
5. An instruction that reads what it writes is taken for its own source, and the
   chain ends there (`ChainCutShort`).

Seen while modelling, without a run of their own.

Of requests that overlap:

- a request that read the batch before it was sealed changes it afterwards;
- two Compare requests make two candidates for one checkpoint;
- two Sync requests may align a batch at once (`sync/aligner.go:30` relies on the
  status, which changes last);
- a superseded snapshot can be published again by a request that read it as a
  draft;
- a draft may freeze a range, checkpoints and exclusions of different moments,
  and a comparison may read a pair whose sides are of different scans.

Of a single request:

- a trace that stops between its writes leaves a chain beside a candidate until
  it is repeated;
- with one empty trail the locked range starts at 0, though `sync/aligner.go:41`
  speaks of the union of both sides; `RangeEndsAtEvents` confines it to that case;
- trails whose only number is 0 are reported as empty (`sync/aligner.go:53`);
- an import accepted in `syncing` leaves `raw` events that no Sync will align, and
  no code ever sets an event to `missing` (`sync/aligner.go:43`);
- a value for a resource that the event does not declare as written is accepted at
  import, ignored by replay and used by the trace (`trace/importer.go:29`,
  `tracer.go:112`), which may so confirm an instruction at which the reference
  declares no write;
- events without a value are accepted at import and make every scan and trace
  fail; a batch all of whose checkpoints are unreliable never gets past Compare;
- the counting loop of `Align` visits every number of the range, and overflows at
  the largest int64 (`sync/aligner.go:92`);
- an edge of `graph.go:36` may name a writer that comes after its reader; the
  edges are stored and never read;
- `Trace` tests whether any resource differs and not which, so it may name an
  instruction that is not the cause of the mismatch in the checkpoint's scope
  (`tracer.go:24` speaks of the divergent resources);
- `event.go:57` and `event.go:62` speak of removing duplicate resources, which
  the functions do not do.

## Not modelled

- Statistics, lists, get routes and the self check: they only read.
- HTTP decoding, path parameters, the mapping of errors to status codes: no state
  depends on them. What the routes add is that requests overlap, which is in
  `Requests`.
- The counts in `AlignResult`: they go to the answer only.
- Flags, the scripted smoke test, build and container files.
- Functions that nothing calls: `ValidateSequence`,
  `Comparator.CompareAtCheckpoint`, `Publisher.SupersedePrevious`.

## Plan

Done: the core, liveness, the two abstract specifications with their refinements,
the store, the locator over several resources; the proofs of all safety
properties, with as much overlap of requests as each allows. Left, in order:

1. The safety half of `PublishedEventually`: what each answered request brings the
   batch closer to its end by, as a theorem about `RetryingClient`.
2. History variables for what a fingerprint pair and a draft's configuration
   were taken from, for requests that overlap.
3. The alignment counts against a reference definition.
