# Formal models of RewardTxn

RewardTxn makes the rewards, attempts and training updates of an RL
post-training run transactional: what a run has retained survives a crash of any
of its processes, no sample is trained twice, nothing drawn from the data source
is silently skipped, and a result that belongs to a superseded attempt never
wins. This directory holds TLA+ models of the parts of `scripts/` that carry
these promises, the TLC configurations that check them, and proofs for TLAPS.

Run them in this directory with `tlc -config MCFTState_core.cfg MCFTState` and
`tlapm FTStateProofs.tla`.

## 1. Inventory

The system has two generations of code. `scripts/ft/` is the fault-tolerant
runtime; the rest of `scripts/` is the earlier reward-model and trace tooling,
the ablation control plane, and one-off experiment scripts.

### 1.1 Fault-tolerant runtime (`scripts/ft`)

| Component | State | Operations | Hard behaviour | What makes it correct |
|---|---|---|---|---|
| Run state contract, `state.py` | `control.json` (epoch, registered processes, attempts, accepted results, head hint), `generations/<g>/{intent,receipts,checkpoint,manifest,token,abandoned}` | `acquire_owner`, `authorize_attempt`, `accept_result`, `prepare_generation`, `record_evidence`, `commit_generation`, `select_recovery` | crash between three writes, failed writes, takeover while workers live, lock released inside recovery, late results | tokens form one chain, nothing is consumed twice, owners are fenced, recovery never loses a commit |
| Draw journal, `replay.py` | `genesis.json`, `draws/NNN.json`, blobs, the wrapped loader's cursor | open/resume, `__next__`, `state_dict`, `load_state_dict` | crash between advancing the base loader and publishing the draw; redelivery | every draw is published once, in order, and is redelivered under the same identity |
| Artifact workflow, `rlvr_replay.py` | artifacts of an attempt, set of active samples | `arun_episode`: response, reward, tensor, accept | the authority changes across an `await`; cancellation; retries | no result leaves without its artifacts, none from a superseded attempt |
| Batch identity, `batch_identity.py` | bound batches, prepared boundary | authorize, begin_update, at_train_batch | attempt superseded between binding and training | a batch reaches the trainer at most once, with current attempts |
| Fault controller, `run.py`, `faults.py` | append-only journal, ready/armed/fired/observed/release files | preflight, execute/resume, run_attempt, watchdog | the controller dies after killing and before recording it; worker dies first | a fault is fired at most once, and never without its evidence |
| Process isolation, `namespace_run.py`, `descendants.py`, `container_run.py` | namespace or container and the processes in it | launch, wait for exit proof, cleanup | forks racing the scan, pid reuse | an exit proof is given only when no descendant lives |
| Consistency oracle, `oracle.py` | none (pure) | judge a trace of a run | none (boundary cases) | accepts exactly what the contract allows |
| GPU adapters and probes (`areal_*`, `native_gpu.py`, `*_probe.py`) | in the GPU frameworks | hooks | outside this repository | not modelled |

Interaction: `FaultController` starts a run under `namespace_run`/`container_run`;
the run opens the draw journal, binds draws to attempts authorized by
`state.py`, the artifact workflow produces results that `accept_result` records,
the batch bridge groups them for `prepare_generation`; after a fault the
controller waits for the exit proof that the next `acquire_owner` demands.

### 1.2 Ablation (`scripts/ablation_*.py`)

| Component | State | Operations | Hard behaviour | What makes it correct |
|---|---|---|---|---|
| Control plane, `ablation_control.py`, `ablation_runtime.py`, `ablation_evaluate.py` | phase, budget deadlines, permits, witnesses, terminal files | register, transitions, fatal, finalize, shutdown | fatal racing shutdown, deadlines, late witnesses | exit is permitted only after quiescence and confirmed only with every witness |
| Reward service, `ablation_rm.py` | in-memory streams or files, CAS database, counters, fatal flag, export | score, guarded writes, cancel, finalize_export | a failure the wrapped code swallows; a limit reached inside a call; export racing a call | what was returned is in the export, nothing is returned after a failure |
| Batch, `ablation_run.py`, `resource_gate.py` | `freeze.json`, run directories, statuses | prepare, verify, smoke, screen, confirmation | a phase of days over a checkout that is edited; failed or abandoned runs | one fair run of every cell, on the frozen inputs, never a second try |
| Acceptance and analysis, `ablation_acceptance.py`, `ablation_analyze.py` | `smoke_acceptance.json`, `screen_report.json` | validate, analyze | artifacts that change after the run | a complete report says what the runs measured |

### 1.3 Reward transaction store and traces (`scripts/phase2_*.py`, `phase3_*`, `trace_*`, `paper_*`)

| Component | State | Operations | Hard behaviour | What makes it correct |
|---|---|---|---|---|
| Sealing reward model, `phase2_seal_rm.py` | SQLite CAS table, `rewards.jsonl`, `seals.jsonl`, `seen` cache, open groups | score, CAS insert, append, seal, correct | append succeeds and the commit fails; crash in between; duplicates beyond K | a sample has one record, a seal judges its whole group |
| Manifest and reconciler, `phase2_manifest.py`, `phase2_reconciler.py` | sidecar tokens, replay plan | watch, audit, build_plan, selective_replay | partial logs, torn sidecars | a lost reward is found and scored again |
| Checkpoint retention, auto recovery (`checkpoint_retention.py`, `phase3_auto_recover.sh`) | checkpoint directories, marker, attempts | prune, plan, restart | pruning races recovery; a marker torn by a crash | the checkpoint recovery needs is never pruned |
| Trace oracle, runner, gates (`trace_oracle.py`, `paper_trace_runner.py`, `paper_gates.py`, `validate_run_artifacts.py`) | output directory of a campaign | fixtures, judge, report, manifest, gate | two runners, deaths between files, edits of the checkout | verdicts match the truth, the gate passes what a run earned |

### 1.4 Not modelled

* Statistics, plotting, pre-registration freezing and validation
  (`paper_statistics.py`, `validate_prereg.py`, `summarize_gpu_pilot.py`, `freeze_*`):
  they read finished runs and write reports: arithmetic and comparisons of hashes,
  no state that another component acts on. `phase2_verifiers.py` is string
  normalisation and symbolic grading; the models use its verdicts.
* Data preparation, image building, evaluation of checkpoints, GPU launch scripts and
  one-off diagnosis (`e7_*`, `day*_*`, `prepare_*`).
* Adapters and probes for the GPU frameworks (`areal_*`, `native_gpu.py`,
  `*_probe.py`): most of what they do happens in code that is not in the repository.
  `EventWriter.flush` of `areal_pilot_hooks.py` (its `task_done` comes before the error is
  recorded, so a flush may miss it) is worth a module of its own.
* `phase3_archive.py`, which packs a finished run.

## 2. Plan

Done, in this order: the contract everything else relies on, then what feeds it,
what attacks it, what closes a run, then the earlier store and the judges.

1. `FTState`, `UpdateLedger`, `FTStateProofs` (section 3).
2. `DrawJournal` (section 4).
3. `FaultController`, `FaultControllerProofs` (section 5).
4. `Supervisor`, proved about in `VerdictProofs` (section 6).
5. `Episode`: artifact workflow and identity bridge (section 7).
6. `NamespaceRun`, `ContainerRun`: exit proofs (section 8).
7. `SealStore`, `RewardService`: the reward store and its adapter (sections 9, 10).
8. `Recovery`: checkpoints, retention and restart (section 11).
9. `TraceOracle`, `TraceCampaign`, `TraceGates`: the trace runs (section 12).
10. `ConsistencyOracle` (section 13), `AblationCampaign` (section 14).

11. Proofs about the modules of 2 and 5 to 10: `CampaignProofs`, `EpisodeProofs`,
    `ContainerRunProofs`, `EvidenceProofs`, `RetentionProofs`, `VerdictProofs`.

Four of these modules are about two components each: `CampaignProofs` about `DrawJournal` and
`AblationCampaign`, `EvidenceProofs` about `SealStore` and `ConsistencyOracle`, `RetentionProofs`
about `Recovery` and `RewardService`, `VerdictProofs` about `Supervisor` and the trace campaign
with its gate. So that one module can extend both, the definitions that would otherwise have one
name in both are called `CampaignInit`, `CampaignNext`, `CampaignSpec` in `AblationCampaign`,
`AdapterInit`, `AdapterNext`, `AdapterSpec` in `RewardService`, `TraceInit`, `TraceNext`,
`TraceSpec` in `TraceCampaign`, and `OracleInit`, `OracleNext`, `OracleSpec` in
`ConsistencyOracle`.

Next:

12. `phase3_archive.py` and the hook handshake of `areal_pilot_hooks.py`.

Every run is one question with one instance. The instances are finite because what
the code draws fresh (processes, directories, attempts) comes from finite sets and because
counters are capped in guards by the constants named `Max...`. A system that has used
them up may stop, hence `CHECK_DEADLOCK FALSE`. Where a `CONSTRAINT` selects a part of
the states it is given in the MC module and explained below: it limits how many things go
wrong in one history, never the order in which they may.

## 3. `FTState`: the run state contract

`FTState.tla` models `scripts/ft/state.py`. Disk state is one variable per file
kind (`epoch`, `registered`, `attempts`, `accepted`, `headHint` for
`control.json`; `intent`, `evidence`, `files`, `manifest`, `abandoned`, `log`
for the generation directories); `proc`, `worker`, `myEpoch`, `op`, `recovery`
are what dies with a process. Each call of the API is an action. The calls run
under `mutation.lock`, so a call with one write is atomic; `commit_generation`
is `CommitManifest`, `CommitToken`, `CommitHead` with `CommitFail` or `Crash`
possible in between, and `select_recovery` is `RecoverScan`, followed, outside
the lock, by its call of `commit_generation` (`CommitManifest(p, g,
"recovery")`, `RecoverCommitted` or `RecoverRefused`). `log` is the set of
token files together with the order in which they were published, a history
variable: the code orders tokens by their parents, which is what `ChainHead`
does. Hashes are the identity of what they hash; the policy and verifier version
are one value; the group check is by sample (`WholeGroups`).

`UpdateLedger.tla` is the abstract specification: an append-only list of updates
over disjoint samples and disjoint update ids, with a growing set of draws.
`FTState` implements it by reading the list off the committed intents
(`RefinesLedger`).

### The run `core`

| Property | Question |
|---|---|
| `RefinesLedger` | Do the tokens implement the append-only ledger? |
| `TokenIsFinal` | Is a token ever followed by an abandonment, or replaced? |
| `FencedOwner` | Does a worker of an earlier owner live beside a new one? |
| `RecoveryKeepsCommitted` | Does recovery ever return less than what was committed? |
| `ResultIsStable`, `TokenIsAuthorized` | Do stale, superseded or late results win, or enter a token? |

One instance, of which `Either` selects three corners, each in any order of its steps:
one owner over two groups drawn in either order and two generations, so that the second
can overlap, rewind or fork the first; two owners in turn with a registered worker,
which crash, close and fail between any two writes; two attempts and two bodies of one
sample. The corners overlap; their product
is out of TLC's reach. Processes,
generations and updates are interchangeable: the first is used first.

`LedgerIsChain`, `ConsumedOnce`, `DrawnNeverLost`, `OneCandidate` and
`AcceptedIsAuthorized` have no run of their own: they are proved, and what `RefinesLedger`
needs of them is checked with it.

### What the contract does not promise

* *A complete candidate can block a run.* `select_recovery` calls `commit_generation`
  outside its `try` (`state.py:574`). A complete candidate with a sample that was
  authorized again is refused there each time (`:529`), is never abandoned, and
  `prepare_generation` refuses to go on (`:388`), although
  `docs/experiments/rewardtxn-ft-20260916/P2_IMPLEMENTATION_PLAN.md:95` says that
  whatever is missing leads back to the verified parent.
* *An attempt name may come back.* `authorize_attempt` compares the new name with the
  current one only (`state.py:238`). After a1, a2, a1 under one owner the third record
  equals the first and may get another payload; the plan (`:85`) says that conflicting
  content for the same attempt is refused. The bridge draws names from uuids and does
  not meet the case; `ResultIsStable` is therefore about records, not names.

### Proofs

`FTStateProofs.tla` proves, for every value of the constants that satisfies
`ConstantsAssumption`, every safety property of the module and the
refinement of `UpdateLedger`. The inductive invariant `IInv` is

* `TypeOK` and `EpochInv`: epochs are natural numbers where they are used;
* `OwnerInv`: `FencedOwner` and the fact that a new process has no worker;
* `AttemptInv`: `AcceptedIsAuthorized` and the index of both maps;
* `StoreInv`: the chain (`LogInv`), the cursor arithmetic along it (`DataInv`),
  the candidate's parent and freshness (`CandInv`), and what a commit in flight
  has already checked (`OpInv`).

`StoreInv` is what makes the chain inductive: `LedgerIsChain` alone says nothing
of the candidate, and a token is only published two steps after its generation
was compared with the head. `HeadIsLast` connects the code's walk over parents to
the history `log`, `OneCandidate` (in `CandInv`) guarantees that no second
generation was prepared from the same parent, and `OpInv` carries the checks of
`CommitManifest` over to `CommitToken`.

`RecoveryKeepsCommitted` needs `ReturnInv` on top, which says where a recovery stands between
its scan and its return, while other owners may write: the floor it read is at most the length
of the log, a generation that it is promoting and that is committed lies behind the floor,
and a commit that has reached its head step wrote the last token. `ResultIsStable` follows
step by step from `IInv`.

## 4. `DrawJournal`: the data source

`DrawJournal.tla` models `scripts/ft/replay.py`. The disk is `genesis`, `blobs`,
`draws` and `durable` (how many records survive a power failure); the session
that holds `owner.lock` has `phase` (`poisoned` after an exception in
`__next__`), `records`, `pending`, `index`, `used` and `cursor`, the attributes
of `DrawLoader`. `__next__` is `Redeliver` or the chain `BaseNext`, `PutBlobs`,
`LinkRecord`, `SyncRecord`, `Yield`, cut where the code calls `_cut`: the process
may die at any seam (`Crash`), a write may raise (`Raise`), the power may fail.
`state_dict`, `load_state_dict`, `close` and the constructor with its `_scan` are
`TakeSnapshot`, `LoadSnapshot`, `Close` and `Open`. `got`, `seen`, `snaps` are
histories.

Abstractions. The base loader is deterministic (the contract in `genesis.json`
pins the source, the seed and the shuffle, and `Open` refuses another one), so a
batch is an interval of items and the state blob is the position it was taken
at. `Occurrences` is the last occurrence plus the length of its batch, the sum
that `_scan` recomputes and compares. `genesis.json` counts as durable. Checks
against symbolic links, forks and a second thread, and the coding of blobs, are
left out: they only refuse.

The run `journal` asks whether the journal lists the source (`JournalFollowsSource`),
whether everything recorded is redelivered before anything fresh, over any sequence of
crashes (`RedeliversAll`), and whether anything but a power failure takes back what a
snapshot counted (`SnapshotsAnchor`). It has 5 items in batches of 2 (two full, one
short) and 4 sessions: enough for a crash at each seam followed by a session that
redelivers, draws, and leaves work for another one.

`SnapshotsAnchor` is as strong as the code allows. `_publish` links a record and then
syncs the directory; a process that dies in between leaves a record that is there but
not durable, and the next session reads it and redelivers it without a sync
(`replay.py:272`), although `P3A_DRAW_IMPLEMENTATION.md` puts the sync before the delivery.

Proved in `CampaignProofs.tla`, for every `Items`, `BatchSize` and number of
sessions: `JournalFollowsSource`, `StableIdentity`, `RedeliversAll` and
`ReopenAccepts`. The invariant `JInv` adds to them that a session's records are a
prefix of the journal that the seam determines, that the cursor stands behind
the last record (before `BaseNext`) or one batch further (after it), that the
blobs of every record are stored, and that all identities ever delivered are
those of the numbering. The last is what makes `StableIdentity` inductive even
across a power failure: a record that was lost is drawn again with the same
content, because the source is the same. `SnapshotsAnchor`, a property of steps, follows: a
snapshot is taken with every counted record linked, and but for a power failure the journal
only grows.

## 5. `FaultController`: one injection per event

`FaultController.tla` models `scripts/ft/run.py` (`execute`, `run_attempt`,
`Journal`) and `scripts/ft/faults.py` (`barrier`, the worker side). The journal
is one variable per kind of record (`started`, `ended`, `fired`, `observed`,
`receipts`, `results`, and `torn` for an incomplete last line); `pc` is where the
controller stands in `execute` and `run_attempt`; `ready`, `released`, `phase`,
`pending`, `eof` are the local variables of `run_attempt`; `life` and `signalled`
are the worker processes as the kernel sees them; `toCtl` and `toWorker` are the
two directions of the socket pairs. The worker side calls `Arrive` (send
`ready`, wait), `Hear` (the answer) and `BarrierFails` (timeout or end of file),
and workers exit whenever they like.

Abstractions. The clock is `late` (the run deadline) and timeouts that may strike
whenever what they watch has not happened. A crash between the creation of the
run directory and `frozen.json` is left out, as is a `/proc` identity that stops
matching during the cleanup; an interrupt inside the `finally` block counts as a
crash. `pending_abort` keeps one abort per role in the code and all of them here,
which only delays the cleanup. A failing `pidfd_open` during launch is not
modelled (`P1_IMPLEMENTATION.md` lists it as a known gap).

The run `faults` asks whether events are injected at the cut and at most once
(`KillAtCut`), barriers hold until the kill is confirmed (`BarrierHolds`), attempts never
overlap (`AttemptsDisjoint`), a finished run has left no process (`CleanedUp`) and the
controller returns (`Terminates`). It has 2 attempts with an event each, 2 roles, 2 starts of
the controller, repeated barrier calls and writes that fail: one attempt with a waiter beside its target, one
with the target alone. `ResultIsFinal` and `CompleteMeansInjected` are proved.

`Terminates` is checked under weak fairness of the controller's steps (it is a
program that runs) and of `DeadlinePasses` (time passes); nothing is assumed of
the workers, of the kernel's delivery of signals, or of the disk.
`CleanedUp` says nothing of a record that raises in the `finally` block: the code then skips
the kills after it (`run.py:287`). The run lets such a write fail only where nobody is left
to be killed (`FailsHarmlessly`, in `FaultController`), and any other write anywhere.
`ResultIsFinal` is proved for a disk whose writes do not fail. With a failing one the
`fsync` of the `execution_complete` line may raise after the line is in the file; `execute`
catches the error and appends `technical_invalid` (`run.py:128`), so the journal holds two
results although a finished run is "immutable" (`run.py:111`). A torn last line makes each
later start raise in `Journal.__init__` (`run.py:72`) before it can mark the run.

Proved in `FaultControllerProofs.tla`: all safety properties of the run, for any number of
attempts, events, roles, starts and barrier calls; `ResultIsFinal` under the assumption that
writes do not fail, `CleanedUp` for the behaviours in which every step is `FailsHarmlessly`.
The invariant `FInv` consists of `TypeOK` and

* `WiresInv`: what the messages in flight say has happened (a `release` on its way
  means that the event was observed; only a linked worker has messages);
* `CutInv`: how far `pc` has got determines what the journal and the target show;
* `ReceiptInv`: receipts, `released` and `phase` agree;
* `OwnerInv`: only the current attempt has workers that live, and a run that was
  interrupted never starts another attempt.

Each property needs a message invariant because workers act between any two
steps of the controller. `CleanedUp` needs `CleanInv` besides: when the controller reaps or gives its
verdict nobody lives who was not signalled, and a result is followed by nothing but the
end of the start or a second, failing, verdict. `Terminates` is model-checked only.

## 6. `Supervisor`: the end of an ablation run

`Supervisor.tla` models `scripts/ablation_control.py`, server and clients, together
with the order in which `ablation_run.py` (the launcher), `ablation_runtime.py`
(driver, reward host, reward worker) and `ablation_evaluate.py` close. `Script`
lists the calls of each component. On the supervisor's side, `state`, `phase`,
`failed`, `final`, `shutdown` and `evalDue` are its fields, `cert` is
`shutdown.json`, `ack` is `shutdown_ack`, and `server` follows `serve` to the exit
status. On the components' side, `life` is the process, `done` counts the calls
answered, `req` and `alarm` are the requests and fatal messages in flight, and
`closed` the connections that are closed.

A request is handled under the lock of the supervisor, so `HandleAccepted` is one
step; it is refused (`HandleRefused`) when it is late or invalid and also when the
client does not wait for the answer, because then the answer cannot be written
and the handler fails the run. `RecordFails` is the journal raising in the middle of
a request, `HandleEof` the end of a connection, the four timeouts are `tick`.
`Acknowledge`, `ServeReturns` and `ServerExits` are separate because a fatal can
still arrive between any two of them: that window is why the launcher reads the
certificate again after the exit status. `Die` covers exceptions, kills and lost
answers of a component, `ReportFatal` what the exception handler of the worker's
loop and the reward model report while their callers swallow it, `LoseFatal` a
fatal that neither connection takes.

Abstractions. Time is left out: a timeout may strike whenever what it watches has
not happened. Events without a phase, sequence numbers, permit tokens and
manifests are in step by construction or fail like any other request (`MayFail`).
`READY_TO_CLOSE` lasts for one request, or for ever once its record failed, and
counts as `ACTIVE`; `QUIESCING` is never sent. The worker is a thread of the reward
host and dies with it. The containers, their exit status and the wrapper of the
driver are external. The supervisor limits connections to 32; five clients do not
reach that.

The run `supervisor` checks, for the five components of the code (there is nothing
to bound: 58 thousand states), that a failure takes the certificate back
(`CertificateHolds`), that success is published for a clean run only (`SuccessIsClean`),
that components close from the bottom up (`ClosesBottomUp`) and that every failure the
supervisor can see ends the launcher (`FailureStops`).

`FailureStops` is checked under weak fairness of the supervisor's handlers and of
its return, of the exit deadline, of heartbeats that fail once the supervisor has,
and of processes that end once they have to. The code has a thread per connection
and per heartbeat and a loop that ticks every 50 ms. No fairness is assumed of the
fatal messages: `FailureStops` holds although each may be lost, because the end of
the connection or a deadline reports the failure as well. What it leaves out is
real: a component that never registered is unknown to the supervisor, and a worker
that raises after its permit ends like one that returns.

Proved in `VerdictProofs.tla`: `TypeOK`, `CertificateHolds`, `SuccessIsClean` and
`ClosesBottomUp`. The invariant `SInv` adds three parts to them. `EntryInv` relates an
entry of the supervisor to what the component has done, above all that
`OFFLINE_CONFIRMED` is never given without evidence of the end. `OrderInv` says that a
component that has passed a confirmation has seen its target go, without which
`ClosesBottomUp` says nothing of the next permit. `VerdictInv` is the reason the
certificate is sound: certificate, shutdown permit and decision imply each other as
long as nothing failed, and the decision implies that everybody is offline.
`FailureStops` is model-checked only.

## 7. `Episode`: artifacts, results and batches

`Episode.tla` models `scripts/ft/rlvr_replay.py` (`arun_episode` and its writes in the
one I/O thread) and `scripts/ft/batch_identity.py` (authorization, the bridge that
attaches receipts to rows, `begin_update`, `at_train_batch`), over the `control.json` of
`FTState`: `control` holds its epoch, attempts and accepted results. `disk` is what is
published of each stage of an attempt, `ep` the episode of a sample and the `await` at
which it stands, `pool` the calls submitted to the I/O thread, `attaching`, `rows` and
`intent` the way of a result into an update. Every `await` ends an action: what an
episode read before one may be stale after it. `Supersede`, `Takeover` and `Cancel` come
at any moment; a cancelled episode leaves its call in the pool, which runs it as an
orphan. `returned` is a history. Digests are the values they are taken of.

The run `episode`: two samples of one group, two answers of the engine and two scores for
the first, at most two of {superseded attempt, replaced owner, cancelled episode}. That is
enough for two episodes of one attempt, one of them orphaned, to race for each stage, and
for a microbatch to be judged before and after its attempt is superseded.

* `NoConflict`: the stages of an attempt belong together, and no call finds another
  content in its place.
* `OneResult`: all episodes of an attempt return the same tensors, and an accepted receipt
  names what the current attempt published.
* `IntentIsCurrent`: a published intent names accepted results of current attempts, of
  whole groups.

All three are proved in `EpisodeProofs.tla`, with `TypeOK`, for any number of samples,
attempts, owners and cancellations. `EpisodeInvs` joins six parts. `PoolInv` says which
calls of the one thread an episode still awaits and which are orphans; `CallInv` that what a
submitted call publishes fits the stages before it and that its place is free; `EpisodeInv`
what an episode has seen published at the `await` where it stands; `DiskInv` that each stage
of an attempt is made from the one before; `ResultInv` that what was accepted or returned is
what is published; `RowInv` that a row names the accepted receipt for as long as its attempt
is the current one. The heart of it is that two episodes of one attempt cannot both put a first
response: the thread takes one call after the other, and an episode that starts while an
orphan of its sample is running loads only after the orphan is done.

## 8. `NamespaceRun`, `ContainerRun`: exit proofs

`NamespaceRun.tla` is the controller of `namespace_run.py` (PID 1 of a namespace) with
`descendants.py` and its client. `proc` is `/proc`: processes fork, exit, become children
of PID 1 and have their pids used again; `reg` is the registration being validated, one
`/proc` entry at a time, up to the launcher (`ReadUp`) and down again (`Recheck`). `state`,
`todo` and `shots` follow the events of the schedule through armed, killed, observed and
released. `ContainerRun.tla` puts the supervisor of `container_run.py` around it: `box` is
what the Docker daemon has, `starting` a start that timed out but is still to be carried
out, `sup` the supervisor's place and findings. Docker commands fail, or time out and
happen later; the controller may crash anywhere. A process is named by its start time,
which no other process has.

The run `exitproof`: three pids and four forks, so that a pid is used again; two roles
and two scheduled events.

* `AncestryHeld`: a process is admitted only if every link of its ancestry was there at
  one moment. The second pass (`Recheck`) is what makes it so.
* `KillsInOrder`: targets are killed in the order of the schedule, with all waiters at
  their barriers, once each.
* `SuccessIsClean`: a reported clean exit means that the container is removed and nothing
  in it lives, and, without a reported failure, that the whole schedule was executed. It is what
  `acquire_owner` of `FTState` takes as the proof that an earlier owner's workers are gone.

All three are proved in `ContainerRunProofs.tla`, with `TypeOK`, for any number of pids, forks,
roles and events. `ProcessInv` bounds start times by the forks so far, so that a new process is
none of those that were read. `ChainInv` is the ancestry being validated: if it was not whole
when the second pass began, a link that is gone is among those still to be read again, and what
is gone stays gone. `EntryInv` and `BarrierInv` say that nobody sends before it is registered
and that, until the target is killed, whoever is ready stands at the barrier; `CurrentInv` and
`OrderInv` that the events shot are the first of the schedule and no others have left the
barrier; `BoxInv` and `FindingsInv` what the container may still do given where the supervisor
stands and what it reports, a start that timed out and may still happen included.

## 9. `SealStore`: the reward store

`SealStore.tla` models the scoring path of `phase2_seal_rm.py` and, as operators over the
files, `build_plan` and `selective_replay` of `phase2_reconciler.py`. `log`, `claims`,
`size` and `seals` are `rewards.jsonl`, the tables of the CAS database and `seals.jsonl`;
`seen`, `regs`, `mode` and `done` are a process's memory; `call` is the call in progress. A
call is cut where another process may run, where it may die and where an operation may
raise: opening the database, importing the log, beginning the transaction, appending, committing,
sealing, correcting. A logical id is its sample; a response is what the two verifiers
say of it.

The run `store`: two groups of two samples, one in the skew window (a late sample is
judged by version 2), one in the crash window; processes p1 and p2 in turn.

* `OneLine`: a sample has at most one scored record, although an append may succeed and
  its commit fail. The size of the log stored with the claims is what detects the rest.
* `SealIsWhole`: a seal judges all samples of its group, each with its record.
* `CrashIsReplayed`: a record whose reward was lost is in the plan of the reconciler, with
  the reward it should have had.

`OneLine` is promised to one scoring process at a time (`Exclusive`): a second process whose
log was read before the first one's append scores the sample again. The other two hold for any
number of processes at once, and all three with or without `AutoFix`. `selective_replay`
gives a record that was corrected before the reward 0, because a corrected record carries no
response; `CrashIsReplayed` is about the records of the crash window only.

Proved in the first part of `EvidenceProofs.tla`: `TypeOK`, `SealIsWhole`, `CrashIsReplayed` for any number of
concurrent processes, `OneLine` under `Exclusive`. `StoreInv` consists of `RecordInv` (claims,
registered samples and the lines a call has dealt with are in the log), `CallInv` (a call
writes the record of one sample that has not returned, or of a whole group), `RegInv` (the
count of a group is the number of its registered samples until it is full, without which a seal
could be written early) and `WindowInv` (lost rewards and corrections belong to the windows of
their faults). `OneLine` needs `IndexInv` in addition: a stored size that equals the log's means that
every line is claimed, and an open connection claims every line but those between an append
and its commit.

## 10. `RewardService`: the adapter of the ablation

`RewardService.tla` models `ablation_rm.py`: `score` with every operation of the wrapped
code that can raise, the guards around them, the limits, cancellation and
`finalize_export`, for the variants O, R, DBM, LOGM and BOTHM (PAYLOAD and LITE differ in
the record only). `claims`, `seen` and `streams` are the CAS and the logs, in memory or on
disk; `failed` is the fatal state. The wrapped code swallows some failures; `Swallows` says which.

The run `service`: two groups of two samples, three calls (so one is a retry), two
faults, and limits of which each can be met in the middle of a call.

* `ExportIsWhole`: once an export was reported as prepared and nothing failed since,
  everything ever returned is in it, once where claims are kept.
* `ReturnsInOrder`: nothing is returned after a failure, a swallowed one included, after
  closing, during a cancellation, or beyond a limit.

Both are proved in `RetentionProofs.tla` for any groups that are not empty, limits, calls and
faults. `ServiceInv` says that a call only proceeds while the adapter is open and not cancelled
(`CallInv`); that the log and the claims are in step but for a call between its append and its
commit (`LogInv`); that what was returned, and what is about to be, is in the streams
(`ReturnedInv`); and that a prepared export holds the streams as they still are (`ExportInv`).
Of the streams it promises nothing after a failure.

## 11. `Recovery`: checkpoints and the restart loop

`Recovery.tla` models the loop and the injector of `phase3_auto_recover.sh`, the pruner of
`checkpoint_retention.py` and the watcher and audit of `phase2_manifest.py` over an external
trainer. They share file names only: `dirs` (a directory is absent, a part, or whole, with
the attempt that wrote it), `marker` (`latest_checkpointed_iteration.txt`, empty while it is
rewritten) and `tokens` (sidecars). `loop`, `trainer`, `injector`, `pruner` and `watcher` are
where each process stands; `high` is a history.

The run `recovery`: four steps, the newest two kept, one retry, one further crash, a
watcher that starts twice: enough to prune twice and to restart in each stage of a save.

* `FallbackKept`: the checkpoint the marker names and the one before it are whole, whatever
  the pruner is removing.
* `CommittedNotRetrained`: no committed step is trained again.
* `LoopSettles`: the loop ends with the target committed, out of retries, or at a marker it
  cannot read. It is checked under weak fairness of `Training` (the trainer computes or dies)
  and `Looping` (the shell goes on); nothing is assumed of the pruner, the watcher, the
  injector or the crashes.

`FallbackKept` and `CommittedNotRetrained` are proved in `RetentionProofs.tla` for any number of
steps, kept checkpoints, retries and crashes. `RecoveryInv` says that the marker, when it is
whole, is the last committed step, and empty only around its rewriting or after a crash in there
(`MarkerInv`); that the trainer works on the step after it (`TrainerInv`); and that all the pruner
has chosen lies `Keep` steps behind what is committed (`PrunerInv`): its marker may be an old
one, which is harmless, never one ahead.
`LoopSettles` is model-checked only.

Seen on the way. A crash while the marker is rewritten leaves it empty, and the
script then ends at `set -e` without its ALERT line. The subshell of the injector stays armed
beyond the first attempt (`phase3_auto_recover.sh:85`). A script started again over an
existing save directory starts cold. The watcher's token of a directory that is being
pruned hashes a part of it, and a sidecar torn by a crash makes each later audit raise: no
property promises more of the tokens.

## 12. `TraceOracle`, `TraceCampaign`, `TraceGates`: the trace runs

`TraceOracle.tla` is `trace_oracle.py`, an operator from events and an independent authority
to violations. `TraceCampaign.tla` models `paper_trace_runner.py`: the fixtures of the
twelve cut points as the sequences of events they emit, the schedule, and a campaign's
steps on its output directory, one per file it writes, with two runners on one path, deaths
and exceptions between any two of them, and a checkout that may move (`tree`). `dirs` holds
every directory that ever had the path, since a second runner renames the first one's.
`TraceGates.tla` holds what `paper_gates.py` and `validate_run_artifacts.py` say of a
directory, in any state of the campaign.

The run `campaign`: all twelve cuts, two levels of each dimension, two trials per cut in
formal mode and one in smoke mode, one edit. `FewMixes` leaves one of two overlapping
runners at the ends of its campaign.

* `OracleIsExact`: the violations found in the events of any trial, and in each of its
  single defects (an event dropped, doubled or changed), are none exactly when the trial is
  atomic; `Atomic` is a reference definition that knows nothing of the oracle's rules.
* `GateIsEarned`: the gate passes a directory only if one runner alone wrote verdicts into it,
  ran the whole formal schedule from a clean checkout and passed, if the report is that of a
  runner that did the same on the current commit, and if the checkout is still clean. The two
  are of one commit unless a third runner made the directory.
* `CompleteRunPasses`: a formal run by itself, on a checkout that stays as it is, passes both
  judges.

`GateIsEarned` and `CompleteRunPasses` are proved in `VerdictProofs.tla`, for any number of
runners and edits, any seeds, levels and strides. The proof of the first showed what two
runners cannot: with a third runner as the maker of the directory, the trials may be those of
an older commit than the gate says. `config.json`, `meta.json` and the report carry an identity
that the gate compares with the checkout; the event and verdict files do not, and a runner
that was identified before an edit opens them in whatever directory is at the path by then.
The hypothesis of the theorem is that a smoke run has another number of trials per cut than a
formal one: `--per-cut` could give it the same, and then its logs are those of a formal run.

The invariant `TraceInv` is about what several runners leave in a directory. `MixInv`: whoever
has written verdicts has written that of the first trial of the schedule, so where two have it is
there twice, and where one has the verdicts are what its schedule says. Hence the comparison of
the gate, verdict by verdict with the schedule, leaves room for one author. `ReportInv`: a
report says what some runner did that is over with its trials. `MakerInv`: the maker of a
directory is of no earlier commit than those who hold the logs of an earlier directory, which
bounds the commit of the trials where the maker is one of the two. `AloneInv` is about a
runner that nobody disturbs: every file is exactly what it has done so far (`Lone`). For
`CompleteRunPasses` there remains that the schedule itself satisfies the gate, above all that
the levels of each dimension are spread evenly over the trials of a cut: trial `t` has the
level with the index `(seed \div Stride + t) % L`, and the trials of one level are counted by a
bijection (`SpreadCount`, `SpreadEvenly`). This holds for one to `FORMAL_PER_CUT` distinct
levels, the assumption of the module; the code has at most four, and 2500 trials.

`OracleIsExact` is proved in two parts. `TraceOracleExact` is about the oracle alone: for every
sequence of entries and every authority that names its steps, each with a token and a hash, and
its rewards once (`Distinct`) and, if it has no steps, for entries that commit no checkpoint,
the oracle finds nothing exactly when `Atomic` holds. It goes check by check: `RevisionsExact`,
`CheckpointsExact`, `AppliesExact` and `RewardsExact` say of each group of checks what it
finds, `StepsExact` that the checks of checkpoints and of applied updates together are what
`Atomic` asks of both (that a step of the authority was never committed is found only after the
last entry, with the updates). The condition on an authority without steps is not a
convenience: `classify_event_log` compares a checkpoint with the steps only where there are
some, so a log with a commit and an authority with rewards alone passes. No fixture is of that
kind, at no cut point, and no single defect makes one.

The second part shows that the trials are within the first. `TrialExamined` goes through the
twelve fixtures, for groups of any size, any percentage of `kill_time` and any order of
attempts: the entries are legible, the authority is distinct, and where it has no steps the
entries are `Quiet`; `DefectsKeep` carries both over to every single defect. `FilesInv`, the
invariant, says that every trial in the event log of every directory is one of the schedule,
with a cut point the fixtures are written for, whoever wrote there or died. The assumption of
the fixtures (`FixtureAssumption`) is what `CUT_POINTS` and `SCHEDULE_LEVELS` pin: the twelve
cuts, a `kill_time` between 0 and 100 percent, groups of one sample or more. `EveryTrialExact`
says it of the trials of all directories, where the run looks at the one last judged.

Left out: `aggregate` (confidence bounds), the older generator, simulator and runner.

## 13. `ConsistencyOracle`: judging a finished run

`ConsistencyOracle.tla` models `audit_run` of `scripts/ft/oracle.py`. Trainer and observer are
external: they train, save asynchronously, crash, load any saved state and train on, and write
`events`, `states` and `updates`, the evidence. `content` is what the weights really contain,
which the oracle never sees, and up to `MaxLies` entries of the evidence are wrong. `Chain`,
`Sound`, `Passes`, `RecoveredAt` and `Judgement` are the oracle.

The run `oracle`: two groups, two updates, two saves, up to three loads (the first is
the start), one untrue entry. `Few` admits few odd things in one history, and a role that comes
back only beside updates that are apart from the saves; `Prompt` lets only what matters happen
inside an update or a save. Both exist because the evidence of a longer history is the state, and
neither is a hypothesis of the theorems.

* `PassIsTrue`: what passes is what the weights contain, as authorized, once per group.
* `TruthPasses`: a true account of a correct run passes.
* `RecoveryIsReal`: at the recovery time that is reported the role is up and an update of the
  target group that was trained after the fault is in a stored state which the final one extends;
  by a true account there was no such moment before. With an untrue account there may have been:
  one that leaves an update out of a save and names it in the next passes, and the commit is
  counted at the later one.

The properties carry the limits of the code. An update that ends while a save is being
stored is looked for in neither state (`Seen`), and the true account of such an asynchronous
save is judged `invalid_commit` (`apart`). A run that ends by reloading its final state is
unverifiable.

All three are proved in the second part of `EvidenceProofs.tla`, for any number of groups,
updates, saves, loads and untrue entries. What the oracle computes depends on where events
lie between each other, hence `OracleInv` is a set of statements about order, most of them about
the load an event is under, the last one before it (`Under`):

* `LoadInv`, `SaveInv`, `OrderInv`, `PendingInv`: a load takes a state that was stored; a save's
  parent is an earlier save, no load lies between its two events, and a save that was stored was
  so before the next is scheduled.
* `UpdateInv`, `TurnInv`, `RunningInv`, `EndInv`: the same for updates and their two events, with
  the epoch of the load they are under and the authority their group had.
* `ContentInv`, `LiveInv`: a state holds what the state that was loaded for it holds, and the
  updates that ended well between that load and its schedule event (`Done`); what the trainer
  has done since its base is what has ended well since. This is the hinge: the oracle never sees
  the weights, and the invariant says them in terms of the events that it does see.
* `AuthorityInv`, `FaultInv`, `FinalInv`: the authority of a group is its last `authorize` event;
  a fault is followed by a load at once; a finished run has a stored final state and a fault.
* `TruthInv` (as long as nothing untrue was said): a save names its base as parent and what was
  done since as its updates. `ApartInv`: what is apart from the saves overlaps none of them.

The rest is about one state. `Chain` and `RetainedTo` are recursive in the parents of the states;
they are proved to satisfy their equations (`Recursion`: a recursive function along smaller
arguments exists), and what they contain is proved by looking at the least state for which it
would be false (`NatLeast`). `SegmentIs` says where the weights of a save depart from those of its
parent; by `CutIs` a state of the chain is the final one without what ended later, from which
follow the order of the retained updates and the prefix in `RecoveryIsReal`. `PerformedIs` says
that the events the oracle counts are the updates that ended well since the parent was stored
and the trainer loaded.

## 14. `AblationCampaign`: a batch of the ablation

`AblationCampaign.tla` models `ablation_run.py` (`prepare`, `verify`, the phases of `main`,
`run_one` up to its preflight and its outcome), `resource_gate.py`, `ablation_acceptance.py` and
the contrasts of `ablation_analyze.py`. `batch` is the freeze, `launcher` the runs a started phase
still has to make, `runs` the run directories. `edits` and `changes` count what happens around:
edits of the checkout and changes of artifacts. What happens inside a run is `Supervisor`'s.

The run `ablation`: three arms (oracle, reference, one more), two seeds, a confirmation
seed, two accuracies, five readings of the host; `Short` lets one thing go wrong, at any
moment.

* `ReportIsEarned`: a complete report rests on one fair run of every cell, made once, on
  the frozen inputs and GPUs, after a fair smoke of every arm; it states what was measured,
  and its candidates beat the reference.
* `ReportsAgree`: a later complete report is the same one. A change can make a report
  incomplete, never another one.

Both are proved in `CampaignProofs.tla`, for any two or more arms, any seeds, schedules, readings of the
host, edits and changes. `CampaignInv` says that a run directory is made once, behind the freeze,
and, if the run was started, on the frozen inputs and GPUs past the gate (`RunsInv`); that a screen
run is due or there only after the acceptance (`QueueInv`); that the acceptance holds a valid
smoke of every arm (`AcceptInv`); and that a complete report holds what the runs measured
(`ReportInv`), which stays true when an artifact is changed since `measured` is not what changes.
The assumption of the module is what the code pins: `ARMS` starts with the oracle and the
reference, each seed's block is an order of all arms, there is a seed, accuracies are
integers. That the screen consists of every arm with every seed (`CellOf`) is a lemma
about the division of an index, not an assumption.

Inputs are verified at the start of each run: an edit that is reverted before the end of a run
is not seen. The candidate of a confirmation plan is not compared with the report, and a second
plan can start another confirmation. A batch with a failed or abandoned screen run can never
have a complete report. No property claims otherwise.

## 15. What is not shown

Proved for every value of the constants that satisfies the modules' assumptions: every safety
property of sections 3 to 14. Some of these theorems have a
hypothesis: on the environment `ResultsAreFinal` (writes do not fail) and `CleansUp` (a write
that fails leaves nobody to be killed), on the deployment `OneRecordOfASample` (one process
scores at a time), on the configuration `GateEarned` (smoke and formal runs differ in size).

Model-checked only, on the instances above, is liveness: `Terminates`, `FailureStops` and
`LoopSettles` need fairness and ENABLED, which the proof system does not handle.

The models end where the repository's code ends: the trainers, the reward functions,
Docker and the kernel appear only through what they may do to the modelled code.
Hazards without a property are two: that a refused candidate blocks a run, and that a full
disk skips the cleanup (sections 3 and 5); the code does not prevent either. Components
without a module are listed, with the reason, in section 1.4 and in `PROJECT.json`.
