# LabeloxAV: a TLA+ verification project

LabeloxAV is a data engine for driving footage: it labels frames by machine, sends
what it is not sure of to people, and retrains and promotes its own models.  This
directory models, in TLA+, the parts of it that are protocols: state that several
processes, people and crashes take turns at.

* **Model governance**: which model serves, who may replace it, and the kill switch.
* **Acceptance-sampled settlement**: the machine closes thousands of labels nobody
  looked at, because a random sample of them was judged and passed.
* **Review**: people ruling on labels one by one and in batches, from pages of
  different ages, and taking both back.
* **Jobs and the GPU**: auto-label and training jobs, the worker and its lock, the one
  graphics card.
* **Campaigns**: mine, label, train, evaluate, promote, until something stops it.
* **Agent runs and exports**: long runs that survive their process through a cursor
  or a checkpoint.

All are long transactions, spread over several commits, in sessions that cache what
they read, running against requests, workers, crashes and a kill switch.  The tests
of the repository call each function once, on its own database; the schedules in
between are what this project is about.  TLC checks every model on small instances;
TLAPS proves every safety property of the passing runs, the two refinements included,
for instances of any size.

Contents: [1. The system](#1-the-system) ·
[2. Modules](#2-modules) ·
[3. The models](#3-the-models) ·
[4. Abstract specifications](#4-abstract-specifications) ·
[5. The runs](#5-the-runs) ·
[6. Where code and docs disagree](#6-where-code-and-docs-disagree) ·
[7. Proofs](#7-proofs) ·
[8. What is not modelled](#8-what-is-not-modelled) ·
[9. Plan](#9-plan)

## 1. The system

All paths are under `src/`.  State lives in PostgreSQL; every component below is
Python code that opens a SQLAlchemy session, reads rows, works, and commits.  The
session maker (`db/session.py`) has `expire_on_commit=False`: what a session has
loaded it keeps until it is closed, whatever others commit, and a flush writes only
the columns whose value differs from the loaded one.  Several behaviours below
follow from this, so it has a module of its own (`Orm`).

| Component | State | Operations | Talks to | What makes it correct |
|---|---|---|---|---|
| **Model registry and gate** `services/govern/{registry,champion}.py` | `model_registry` rows: task, `is_champion`, `promoted_from`, gold metrics | register, evaluate_and_promote, set_champion, rollback | controller tick, training jobs, `POST /govern/promote`, kill switch | one champion per task, every one past the gate, each better than the one it replaces |
| **Kill switch and state** `services/govern/killswitch.py`, `drift.py` | the one `governance_state` row: loop, auto-promote, settlement, reason, champion | engage, release, pause and resume on drift | everything unattended reads it | stops what is unattended; nothing but a person switches an opt-in back on; a drift pause ends |
| **Controller tick, daemon** `services/govern/{controller,daemon}.py` | none of its own; one session per tick; advisory lock per daemon | drift scan, promote challengers, tally, settle, nightly workers | all of the above | one tick at a time (daemon), progress after a crash |
| **Settlement** `services/labelops/settlement.py`, `services/govern/settlement_agent.py` | `settlement_lots`, `settlement_spots` | plan_lot, tally_lot, settle_lot, revert_lot, spot check | ladder, agent runs, reviews | nothing closed but under a passed lot; all of it revertible; one owner per label |
| **Autonomy ladder** `services/govern/class_autonomy.py` | the active `class_autonomy` row of a class: level 0..2, pinned, cooldown | set by hand, promote, step down, champion change | tally, spot check, promotion | up only by a passed lot, never past a pin or a cooldown |
| **Review** `services/api/routers/review.py`, `review_{apply,policy,batch}.py` | `objects`, `reviews`, one `agent_runs` row per batch | single and bulk ruling, version check, verdict or batch taken back | lots' tallies, spot checks | no edit over what its page did not show; ground truth only by a reviewer; a batch comes back whole and alone |
| **Auto-label and training jobs** `services/autolabel/jobs.py`, `services/training/{jobs,worker}.py`, `services/job_{reaper,control}.py` | job rows: status, heartbeat, attempts, cancel request | start, enqueue, report, finish, fail, cancel, requeue, sweep | GPU worker, campaigns, governance | a job has one runner, labels a frame once, and ends |
| **GPU worker, lease, slot** `services/gpu_worker.py`, `services/training/gpu_lease.py`, `core/gpu_slot.py` | two advisory locks, the running rows | boot, recover orphans, claim, stop on SIGTERM, lose the lock | job rows | one worker at a time, no job orphaned |
| **Campaign runner** `services/flywheel/campaign.py` | the campaign's row, its steps | tick, approve, stop, six stages | training jobs, review, governance | spends its budget once, trains once per iteration, ends |
| **Agent runs** `services/agent/resume.py` and the four runners | run status, cursor, counts, heartbeat | launch, beat, sweep at start-up, claim, resume, revert | object store, training | a resume repeats nothing and leaves nothing out |
| **Resumable exports** `services/export/{resumable,dataset}.py` | job row with a checkpoint, shards on disk, dataset commits | run, run in chunks, resume, seal, upload | corpus, reaper, cancel | what is skipped is on disk; the archive is one slice |
| **Labelling jobs** `services/labelops/{jobs,quality}.py` | job stage, assignee, submissions | assign, submit, accept, bounce | annotators, review | not modelled yet: section 9 |
| **Sampling arithmetic** `services/labelops/sampling.py` | none | sample size, sequential decision | tally_lot | not modelled yet: section 9 |
| Everything else | rows written once | scorers, metrics, inference, import, geometry, front end, SDK | | not state machines: section 8 |

How they meet.  A tick (daemon, or `POST /govern/controller/tick`, which takes no lock)
opens one session, loads `governance_state`, scans for drift, evaluates every
challenger against the champion, tallies the open lots, promotes a class whose lot
passed, settles the lots it may, starts workers that plan new lots and check spots,
and ticks the campaigns.  A promotion calls `on_champion_change`, which steps classes
down.  A campaign enqueues retrains; the worker runs them between auto-label jobs and
asks for the promotion of what they produced.  People rule on labels, plan and revert
lots, pin rungs, approve stages and promotions, cancel and resume, and pull the cord
while it does so.

What is hard: state read before minutes of work and used after it; the cached state
row; checks and inserts in different statements; work settled in one commit per chunk;
a process that dies between two of them, and a row that goes on saying `running`; two
locks that vanish with a connection; the same label taken by a lot, a person, a revert
and a later lot.  `PROJECT.json` lists 40 such hazards at their lines, 27 with the
property that would notice them going wrong, the others with the reason there is none.

## 2. Modules

| Module | What it is |
|---|---|
| `Orm` | What one session's flush writes: changed columns only (used by `Governance`, `Settlement`, `Campaign`, `Review`) |
| `Governance`, `MCGovernance` | Registry, gate, promotion by three kinds of session, kill switch, drift pause |
| `Governance_proofs` | Six theorems about `Governance` |
| `LotPromise` | Abstract: what settlement promises |
| `Settlement`, `MCSettlement` | Lots, ladder, runs, reverts, reviews, the tick that drives them; implements `LotPromise` |
| `Settlement_proofs` | Eight theorems about `Settlement`, the refinement of `LotPromise` among them |
| `Review`, `MCReview` | Rulings, the optimistic version, batches, verdicts and batches taken back |
| `Review_proofs` | Five theorems about `Review` |
| `JobQueue` | Abstract: a queue of leases |
| `Jobs`, `MCJobs` | Auto-label and training jobs, the GPU worker, its lock and the slot; implements `JobQueue` |
| `Jobs_proofs` | Six theorems about `Jobs`, the refinement of `JobQueue` among them |
| `Campaign`, `MCCampaign` | The campaign runner, its steps, the retrains it waits for |
| `Campaign_proofs` | Three theorems about `Campaign` |
| `AgentRuns`, `MCAgentRuns` | One resumable run of each of the four kinds |
| `AgentRuns_proofs` | Four theorems about `AgentRuns` |
| `Exports`, `MCExports` | One export job, its checkpoint, shards, seal and upload |
| `Exports_proofs` | Three theorems about `Exports` |

The `MC` modules hold constants for TLC (and a symmetry); every other definition is in
the module it models.  `PROJECT.json` maps each definition to the lines it translates.
Definitions marked `Mutant of X` are not used by any action.  Each is a plausible bug
in `X`, placed beside it, and shows that a run's property is not vacuous: with `X`
replaced by the mutant, TLC finds that property violated.

No module has a RECURSIVE operator, so all of them can be proved about.

How they compose.  `Settlement` contains the tick, the ladder and the rulings a lot
meets; `Jobs` composes the tables, the API process, the worker and both locks.
`Governance`, `Campaign`, `Review`, `AgentRuns` and `Exports` meet the others at one
action each, and the fact the neighbour owes is named there: a campaign's retrain ends
because `EveryJobEnds` holds of `Jobs`; its promotion, like a training job's, is
`JobAsks` of `Governance`; the machine's writes to a label are in `Settlement`, whose
rulings abstract those of `Review`.

## 3. The models

### Governance

**State.**  `registry[m]` is the row of model `m` (known, task, champ, from);
`flags` the state row; `sess[s]` what a promoting session holds between two
statements, with `pc` for where it stands and `state` for its copy of the row;
`kill[k]` the same for a kill-switch request.

**Actions.**  `TickBegin`, `TickScan`, `TickEvaluate`, `TickEnd` are
`controller.tick` down to the promotion.  `TickEvaluate`, `PersonAsks` and `JobAsks`
enter `evaluate_and_promote` from its three callers: each reads the champion and
scores both models.  `Decide` is the gate and the flag, `Promote` is `set_champion`
(one transaction; `LoseRace` is its IntegrityError), `SaveState` the commit that
names the champion in the state row.  `Engage`, `RollbackRead`, `RollbackSet`,
`RollbackSave`, `EngageCrash` are the kill switch commit by commit; `Release`,
`ScanEndpoint`, `Register`, `OptIn` the rest.  `Crash` ends any session between two
statements.

**Data.**  A model is its score and whether it passes the gate's absolute conditions
(`Sound`: safety recall floor, Safe-mIoU, recapture).  `Home` is the task it was
trained for, `MayName` the tasks a request may name for it: `POST /govern/promote`
and `register` take the task from the request.  `Seed` are champions to begin with,
sound and one per task.

**Left out.**  Challengers without gold metrics (skipped); `auto_accept_enabled`
(always written with `loop_enabled` and the same value); audit rows, notifications and
webhooks; retrain scheduling; the fleet agents a tick starts; the step-down of the
ladder a promotion ends with, which is in `Settlement`.  A campaign that asks for its
own promotion does what `JobAsks` does.

### Settlement

**State.**  One class.  `objects[o]` is a label: its state, whether a person owns it
(`source = human`), and the agent run stamped on it.  `verdict[o]` is its latest
`Review` row, `spots[l][o]` a spot check, `lots[l]` the lot's row, `runs[r]` an
`AgentRun` with the labels it lists and what they were before.  `ladder` is the active
rung, `flags` the two switches settlement reads, `champion` the serving model,
`moved` a promotion that has yet to call `on_champion_change`.  `tick`, `plan` and
`undo` are what sessions hold; `tick[s].rows` and `tick[s].flags` are the session's
copies of rows, which `Flush` compares with what it writes.

**Actions**, in the code's order of a tick:

| Code | Actions |
|---|---|
| `controller.tick` start, list of open lots | `TickBegin`, `ListLots` |
| `tally_lot` | `Tally`, `TallyWaits` |
| `promote_to_settlement`, `step_down` after a rejected lot | `PromoteCheck` / `Promote`, `RejectCheck` / `RejectStepDown` (read, then write) |
| conditions of the agent and of `settle_lot` | `Permit` |
| `settle_lot`: its ids, each drive's SELECT, each drive's commit, spots and status | `SettleList`, `ReadChunk`, `WriteChunk`, `SettleEnd` |
| `maybe_build_lots`, `plan_lot` | `BuildLot`, `PlanCheck`, `PlanRefused`, `PlanInsert` |
| `maybe_spot_check`, its worker, `revert_lot`, the step-down after it | `SpotCheck`, `WorkerNext`, `WorkerEnd`, `ManualRevert`, `UndoRun`, `UndoEnd`, `StepCheck`, `StepDown` |
| `revert_run`, `revert_batch` by name | `RevertByName` |
| single and bulk review, ack, rung by hand | `Rule`, `RuleBatch`, `Ack`, `SetByHand` |
| promotion, kill switch, opt-in, cooldown | `ChampionPromoted`, `OnChampionChange`, `ChampionChangeLost`, `Engage`, `Release`, `OptIn`, `CooldownExpires` |
| death of a session | `Crash` |

`LoadedRuns` is the one place where Python rather than SQL matters: `settle_lot` binds
one list to `lot.run_ids` and goes on appending to it, so from the second flush on
the session compares the list with itself.

**Abstractions.**  The tally's arithmetic: an all-clean sample passes, an all-defect
one fails, a mixed one parks, and the increments it may ask for first are
`TallyWaits` (module Sampling of the plan).  Class edits, geometry and attributes; the
annotators' "submitted" state; the single-review verb that reverts; the once-a-day
limits of the nightly workers (a model without them has more schedules).  The reads
of `plan_lot` are one step, and the provenance it stamps on the sample is left out.
`revert_run` is one step: its own gap between reading a label and committing
(`services/agent/runs.py:103-138`) is a listed hazard and not modelled.  The ladder
is one row, although two `set_level` calls at once may leave two active ones.  A spot
check fails on any incorrect answer.

### Review

**State.**  `row[o]` is an object: class, state, source, version, and the batch that
stamped it.  `page[p]` is what a person's page shows, `request[p]` what a request has
read and is about to commit, `runs` the batches with the prior value of each change,
`verdict[o]` the row the latest ruling found, from which a withdrawal restores source
and provenance.

**Actions.**  `OpenPage`; `Single` and `Bulk` read the rows, check the version (when
the client sends it, `checked`) and compute what to write, with the clamp on what an
annotator may write (`Ceiling`) and the state a verb means (`StateFor`, from what
`web/lib/reviewVerdict.ts` sends); `RevertBatch` reads the rows that still carry the
stamp; `Commit` flushes any of them, writes the `Review` rows and the run; `Abandon`
is a refusal or a dead process.  Reading and committing are separate, so two requests
may overlap; the version has no lock behind it.

**Left out.**  Geometry, masks and attributes (they travel with the class); the control
samples and spot checks a ruling answers, and a machine's own writes (`Settlement`);
sessions and permissions other than the reviewer's role.

### Jobs

**State.**  `row[j]` is a job's row; `task[p]` what a process runs of it, a process
being a GPU worker or the API's task for an auto-label job; `worker[w]` is the worker
outside a job and `orphans[w]` what its recovery has read; `lock` is the lifetime lock
and `slot` the GPU slot; `asking` and `reaping` are a cancel and a sweep between their
read and their write; `labelled[j]` is how many frames have committed labels.

**Actions.**

| Code | Actions |
|---|---|
| start and enqueue, cancel, sweep, API restart | `Start`, `Enqueue`, `CancelRead` / `CancelWrite`, `ReapRead` / `ReapWrite`, `ApiDies` |
| an auto-label job | `Begin`, `TakeSlot`, `Label`, `Save`, `Finish` |
| a training job | `BeginTrain`, `AskCanceled`, `Epoch`, `EndTrain`, `Score` |
| an exception in either | `Raise`, `RecordFailure` |
| worker start and recovery | `Boot`, `RequeueOrphans`, `ResetTraining` |
| worker loop | `Claim`, `Launch`, `ExitUnlocked` |
| SIGTERM, idle and in each kind of job | `Stop`, `StopAutolabel` / `RequeueInterrupted`, `StopTraining` / `ThreadEnds` |
| death, poison, lost connections, other users of the slot, time | `Crash`, `PoisonCrash`, `LoseConnections`, `OtherTakesSlot` / `OtherFreesSlot`, `Age` |

A job that kills its process each time (`Poison`) is in the model because giving up
after `MaxAttempts` is the code's answer to it.  `_bump` is one step: it reads and
overwrites whatever is there.

**Left out.**  Cloud-parked jobs, the VRAM watcher's pause, a request's frame limit,
and a short session that a database restart catches between its two statements.

### Campaign

**State.**  `camp` is the row, `steps` the step rows, `call[d]` what a call in flight
holds (its copy of the campaign and its step), `jobs` the retrains, `reviewed` the
objects people decided.

**Actions.**  `Tick`, `Approve`, `StopCampaign`; one action per stage handler (`Mine`,
`Judge`, `Label`, `TrainPoll` / `TrainWaitsGpu` / `Enqueue` + `RecordJob`, `Evaluate`,
`Promote`), each of which ends in the commit of `Outcome`; `StageFails`, `Crash`;
`Review`, `JobRuns`, `JobEnds` around it.  Enqueuing is two actions, because
`enqueue_job` commits in its own session before the step learns the id.

**Left out.**  What the miner scores (objects are numbered by rank), the judge's flags
(they change proposals only), the gate (`Governance`).

### AgentRuns

**State.**  `run` is the `AgentRun` row (status, cursor, totals, child runs, whether
the heartbeat is recent), `trace[u]` what a unit carries, `worker[w]` a task's own
variables, which a crash takes, and `up`, `down` the API process and the object store.

**Actions.**  `Launch`, `Begin`, `Work`, `Skip`, `ListChild`, `Beat`, `Finish`, `Fail`,
`TrainingHoldsCard` are a runner; `Crash`, `Start` (the sweep at start-up), `Click` and
`Claim` (read and claim are two statements), `Revert`, `Age` the life of the row;
`StoreDown`, `StoreUp` the outage.  The four runners share this skeleton and differ in
what they select, what they do on an unreadable frame and what status they end in, as
the code's four do.

**Left out.**  What a runner finds; `relabel_all`'s wait for the card; frames with
nothing to relabel.  One API process, as the Dockerfile and the Makefile start it.

### Exports

**State.**  `label` is the corpus, `job` the row with its checkpoint, `disk` the
shards, `sealed` the `DatasetCommit` rows, `store` what was uploaded, `runner[r]` a run
of the export.

**Actions.**  `RunPlain` and `Resume`; `Fetch` (verifies the checkpoint), `WriteChunk`,
`RecordChunk`, `Assemble` (which reads the corpus again), `Seal`, `Upload`, `Done`,
`Note`; `ChunkFails`, `AssembleFails`, `Crash`, `Reap`, `Cancel`, `Edit`.

**Abstractions.**  A digest and a commit id are the set of object ids they hash, since
that is what they hash; a fingerprint is the labelled slice.  Splits, formats, the
datasheet and billing are left out.

## 4. Abstract specifications

`LotPromise` has two variables: where each lot is in its life, and who owns each label
(a lot, a person, nobody).  A lot is planned, decided once, closes labels nobody owns
and only between passing and being settled, gives back only its own, and never takes a
person's.  `Settlement!Promise` maps `lots[l].status` and `Owner(o)` to them, and the
run `settle_promise` checks `KeepsPromise == Promise!Spec`; `KeepsPromiseAlways` proves it.
It holds while ticks do not overlap and no batch of rulings is taken back by name, which
would give labels a person ruled on to the machine again.

`JobQueue` is what the job tables promise whoever submits a job: it waits, one process
holds it at a time, its lease may lapse when that process dies or be given back when
it is stopped, and only its holder, or a recovery that finds nobody, ends it.
`Jobs!Queue` maps a status to a place in that life and "the process that works on a
running row" to its holder; the run `jobs_worker` checks `KeepsQueue == Queue!Spec`, and
`KeepsQueueAlways` proves it.
The refinement holds while nobody cancels and the worker keeps its lock: a cancel ends
a job its process still holds, and a lost lock gives a job two holders.

## 5. The runs

Twelve configurations are listed in `PROJECT.json`.  Eleven pass; the twelfth checks a
sentence of the repository against the code's behaviour, and TLC finds the schedule in
which it is false (section 6).

| Run (`.cfg`) | Properties | Shows | Bounds |
|---|---|---|---|
| `gov_tick` (`Governance_tick`) | TypeOK, PromotionBeatsReplaced, NeverSilentlyRearmed, ChampionNotLost, DriftPauseLifts | With one tick at a time and the kill switch: every promotion beat the incumbent it replaced, the task always has a champion, no session that commits an old copy of the state row switches an opt-in back on, and a drift pause ends | 1 task, 3 models of rising score, a ticker, a kill switch; fairness |
| `gov_race` (`Governance_race`) | OneChampion, ChampionSound | A training job and a person, on two tasks between which models are re-registered: the index refuses what it must, nothing unsound serves | 2 tasks, 3 models, one of them unsound |
| `settle_lots` | TypeOK, SettledUnderPassedLot, SettledIsRevertible, NoDoubleClaim | Lots follow each other over the same labels, through reverts, single rulings, a run taken back by name, a crash, and a champion that moves | 2 lots, 3 labels in a sample and two drives, 2 epochs, 3 runs, 1 crash |
| `settle_promise` | SafetyLotWasAcked, KeepsPromise | A safety class judged in the grid, a spot-check worker and a manual revert at once: the refinement of `LotPromise`, and the ack | 2 lots, 3 labels, 4 runs, 2 reverters |
| `settle_resume` | AllowedLotSettles | A passed lot that everything goes on allowing settles, through two crashes at any two points | 1 lot, 4 labels, 2 drives, 2 crashes; fairness |
| `review_desk` | TypeOK, AcceptedNeedsReviewer, NoBlindEdit, LaterBatchStands, BatchComesBack | An annotator and a reviewer with old pages, singly and in batches, with verdicts and batches taken back and requests that overlap | 1 label, 2 classes, rulings up to version 3, 2 batches, 1 verdict taken back |
| `jobs_worker` | TypeOK, NotRunTwice, FrameOnce, EveryJobEnds, KeepsQueue | The executor is the worker; a poisonous job, failures, a crash and a SIGTERM at any point: one runner per job, no committed frame labelled twice, every job ends, and the refinement of `JobQueue` | 2 workers, 2 auto-label and 1 training job, 2 frames, 1 crash, 1 stop; fairness |
| `jobs_api` | ReapsOnlyDead, CancelSurvivesCrash, StuckRowClears | The executor is the API; its death, the worker's, a lost connection, a cancel of a training job, a slot that others use: the sweep fails only rows whose process is gone, a cancel outlives the process, a dead row does not block the next start for ever | 2 auto-label and 1 training job, 1 worker, 1 crash, 1 lost connection; fairness |
| `campaign_round` | TypeOK, LabelsCountedOnce, RetrainsPerIteration, CampaignEnds | People approve the expensive stages; a stage fails, a call dies, a person stops it: no batch is charged twice, no iteration trains twice but after a fault, the campaign ends | budget 3, up to 4 iterations, 4 labels, 1 crash, 1 failure, 1 stop, 26 steps; fairness |
| `agent_runs` (`AgentRuns_resume`) | TypeOK, CountsMatchCursor, WholeScopeRead, NoRework, EndsUnlessStranded | Each of the four runners, through crashes and outages: a resume repeats nothing, the totals are the cursor's, "committed" means the whole scope was gone through, and the run ends unless the restart outran its sweep | 6 units, windows of 4, 1 unreadable unit, breaker at 2, 3 crashes, 2 outages; fairness |
| `exports` (`Exports_resume`) | TypeOK, SkippedIsWritten, ShardsAreTheArchive, ListedExportEnds | The corpus changes, a crash cuts a shard short, the disk fills: what a resume skips is on disk, the shards uploaded are the archive's records, a listed export ends | 4 objects in chunks of 2, 2 edits, 1 crash, 1 failure, 1 cancel; fairness |
| `campaign_waits` | CampaignEnds | refuted: the retrain ends in `error` | budget 2, 2 iterations, no crash |

**Why these bounds are enough to be interesting.**  Three models are the fewest with
which a challenger can be compared with one champion and replace another.  Two drives,
two frames, two chunks are the fewest with a commit, and so a crash, between two of
them; a window smaller than the corpus is what lets a resume go beyond its scope.  Two
lots and two batches let a label be closed, reverted and closed again.  Two auto-label
jobs let one wait behind a poisonous one, two workers let one boot while the other
exits, and a training job is what stops either.  Four iterations leave room for the
budget, patience and the iteration limit each to be what stops a campaign.  Every bound
is a constant: the sets, `Max...`, `RunId`, `Ruled`, `Batches`, `Clicks`, `Hand`.
Between them the passing runs fire every action.  `Permutations(Lot)` is a symmetry
only of runs without liveness.  Deadlock is checked in the runs of governance and
settlement; the others say `CHECK_DEADLOCK FALSE` because their systems really stop: a
campaign ends, a run is committed, a job is done, a person has used up the rulings.
There, liveness properties say what a premature stop would be.

**What the passing runs do not contain**, each because it refutes a property of
theirs (section 6):

* `settle_lots`: batches of rulings, because taking one back refutes
  `SettledIsRevertible`.  `settle_promise`: runs reverted by name, because a batch
  taken back refutes the promise; and single rulings and crashes, which only make the
  run too long, and which the theorem covers.  Both: a second ticker.
* `gov_tick`: another requester, or another rollback, because two of either refute
  `PromotionBeatsReplaced`, and a
  second task, because a promotion under a task a model is not registered for refutes
  `ChampionNotLost`; `gov_race`, which has both, checks what holds of them.
* `jobs_worker`: cancels and lost connections; `jobs_api` has both, of the kinds its
  properties survive.  In `jobs_api` a job's wait for the slot is shorter than the
  reaper's window (`LongWaits = FALSE`); with a longer one the reaper fails a live row.
  Neither lets SIGTERM land on the await of the claim itself (`StopInClaim`), which
  leaves the claimed row to the next boot's recovery.
* `campaign_round`: retrains that do not end in `done`, two calls at once, approvals of
  a stage that is not waiting (`Careful`), and blocked campaigns nobody ticks
  (`TickBlocked`).
* `agent_runs`: two requests to resume at once, and an outage during the reanalysis
  (`OutageIn`), and training on the card at a resume (`MayTrain`).
* `exports`: objects that join the slice (`Moves`) and a sweep that takes a live run
  for dead (`Patient`); two runs of one job.
* `review_desk`: one object, so a batch of one; two objects multiply the state space by
  more than their interaction adds, which is only that a batch skips its stale members.
  A second verdict taken back refutes `HumanMeansRuled` and is bounded out.

The theorems carry the same conditions as hypotheses where they are needed.

**Fairness.**  Each module states its own, next to the sentence that justifies it.

* `Governance`: weak fairness of a ticker's steps and of its promotion steps, because
  the daemon ticks on a fixed cadence for ever (`services/govern/daemon.py:40-64`), and
  strong fairness of a scan that finds no breach, because a breach that lasted for ever
  would be a reason to stay paused.
* `Settlement`: weak fairness of a tick's steps; the daemon is restarted after a crash,
  and there are finitely many crashes.  Nothing is assumed of people, of reverters or
  of the nightly workers.
* `Jobs`: the worker's container is restarted, its loop and the API's tasks go on, time
  passes for rows nobody writes, the daemon sweeps, others give the slot back.  Nobody
  is assumed to start or to cancel.
* `Campaign`: the daemon ticks on, handlers end, reviewers finish a batch, the worker
  runs the retrains, and people approve if the campaign asks for it.
* `AgentRuns`: the event loop runs each task, a supervisor restarts the API, an outage
  ends, somebody resumes what is listed as interrupted.
* `Exports`: tasks run on, the daemon sweeps, somebody resumes what is listed.

## 6. Where code and docs disagree

Listed finding, quoted in full in `PROJECT.json`:

* **A campaign waits for ever for a retrain that failed** (`campaign_waits`).  The train
  stage knows the statuses `done`, `failed` and `cancelled`; a training job ends in
  `done`, `error` or `canceled`.

The configurations below stay beside the listed ones and are run the same way, for
example `tlc -config Jobs_card.cfg MCJobs`; TLC refutes each.  They are the regression
checks for the day the code changes, when each should pass.

| Configuration | Property | The code | The sentence |
|---|---|---|---|
| `Governance_stale_gate` | PromotionBeatsReplaced | Two persons: the incumbent is read, both are scored, and `set_champion` demotes whoever is champion by then.  The unique index refuses nothing, because the second `UPDATE` waits for the first and then demotes its winner. | `champion.py:383-386` "the loser's commit raises IntegrityError instead of silently creating split-brain" |
| `Governance_stale_flag` | UnattendedPromotionIsArmed | A tick decides on the state row it loaded at its start, and promotes after the kill switch was engaged | `killswitch.py:1` "One action pauses auto-accept and auto-promotion and rolls back to the last champion" |
| `Governance_cross_task` | PromotionTakesOffice | A promotion under a task the model is not registered for demotes that task's champion and crowns nobody there (`champion.py:426`) | `registry.py:71` "Make model_version the sole champion for the task" |
| `Settlement_half_revert` | RevertReturnsAll | Two chunks: `settle_lot` binds one list to `lot.run_ids` and goes on appending, so only the first chunk's run reaches the row and the revert (`settlement.py:559`) | `settlement.py:582` "Return every object the lot settled to 'review'" |
| `Settlement_stranded` | PassedLotPromotes | The promotion is attempted only in the pass that tallied the lot; a crash after the tally loses it | `settlement_agent.py:170` "The passed lot IS the 1->2 promotion for this class+epoch." |
| `Settlement_undone_review` | SettledIsRevertible | `revert_batch` restores the state `settled` and drops the run (`review_batch.py:116`) | `settlement.py`, header: every write carries a run, so that one revert returns the lot |
| `Settlement_override` | PromotionRespectsOverrides | A person pins the class between `promote_to_settlement`'s read and its write: the pin is gone (`class_autonomy.py:103`) | `models.py:2285` "A human-pinned level is never auto-promoted past"; `class_autonomy.py:9` "Two overrides a machine never crosses" |
| `Settlement_overruled` | HumanRulingStands | A person rejects a label between a chunk's SELECT and its commit: the chunk settles it over the ruling (`settlement.py:527`) | `settlement.py:41` "`accepted` keeps meaning 'a person ruled'"; `test_settlement.py:237` "a human-sourced object is never settled by a machine" |
| `Settlement_lost_spots` | SpotsCoverLot | The process dies between two chunks: the spot rows of the chunks already committed are never written (`settlement.py:519`) | `settlement.py:560` "an interruption keeps everything already settled" |
| `Settlement_two_ticks` | LotLifeInOrder | A manual tick and the daemon's both hold a judging lot: after one has accepted it and a person rules again, the other turns it into a rejected one (`settlement_agent.py:154`) | `models.py:2247` judging to accepted, rejected or parked, accepted to settled, settled "(maybe)" to reverted |
| `Jobs_cancel` | CancelStands | A job cancelled while it runs is `done` if its task reaches the end before its next report, because `_bump` overwrites whatever the row says | `job_control.py:11-12` "no window where a job reads its own status and then continues past a cancel that landed a millisecond later" |
| `Jobs_card` | CardNotShared | Training takes no slot and a runner looks for training before it takes the slot: both compute at once | `core/gpu_slot.py:1` "One GPU, one job at a time, across every process that wants it." |
| `Jobs_lost_lock` | NotRunTwice | The worker looks at its lock between jobs only; while it finishes a training job without it, another worker boots and takes the running row for an orphan | `autolabel/jobs.py:116-118`, `gpu_worker.py:172` |
| `Campaign_promote` | SuccessIsPromoted | `evaluate` sets `succeeded` (`campaign.py:339`), the next tick returns on it (`:114`), and the stage `promote` never runs | `campaign.py:40` "A campaign at stage N advances to N+1 when that stage completes" |
| `Review_late_edit` | LaterEditStands | A single ruling leaves the batch's stamp, so reverting the batch takes the ruling with it | `review_batch.py:16-18` "anything edited afterwards, by a person or by a later batch, is left alone" |
| `Review_nested` | BatchesNest | Reverting the second batch clears the stamp; the first can then no longer be reverted | `review_batch.py:58` "a committed edit is always revertible" |
| `Review_undo` | HumanMeansRuled | Taking back a verdict twice restores the source of the first verdict's row: a label reads as a person's with no ruling that stands | `review.py:222-226` "it must not leave the object marked as one" (a human judgement) |
| `AgentRuns_stranded` | EveryRunEnds | The API is back less than ten minutes after the crash: its only sweep still sees a recent heartbeat, and the row runs for ever | `main.py:192-193` "Startup is the one moment that is certain, so the sweep happens here rather than on a timer" |
| `AgentRuns_breaker` | WholeScopeRead | An outage during the reanalysis breaks the loop, and the run is committed with frames unread (`reanalyze.py:386-401`) | none but the word `committed`; `reanalyze.py:387` "Twenty in a row is the object store being down or full, not twenty unlucky frames." |
| `AgentRuns_orphan` | RevertTakesAll | A crash between the child's commit and the write of `child_runs`: reverting the corpus run leaves the child (`relabel_agent.py:363-367`) | `relabel_agent.py:368-370` "revert walks child_runs" |
| `Exports_stitched` | NotStitched | A label changed between the attempts: the digest covers ids only, so the old shard is kept beside the new files | `resumable.py:226-228` "the alternative is an archive stitched from two different versions of the corpus" |
| `Exports_seal` | SealFits | The commit id covers ids only too; the existing row keeps the old fingerprint while new files go out under it (`dataset.py:418`) | `dataset.py:250-251` "so a mutated annotation yields a distinct id" |

Four more need no configuration of their own: under the constants of a passing run,
with that property in place of the run's, TLC refutes them at once.

| Property | With | The code | The sentence |
|---|---|---|---|
| `Campaign!StopStands` | `Campaign_round` | A call in flight commits the status it read before the stop, if it changes it (`campaign.py:179`) | none but the name: `TERMINAL` holds `stopped` |
| `Campaign!CampaignEnds` | `Campaign_round`, `TickBlocked = FALSE` | A stage that raised leaves the campaign blocked, and the daemon ticks only pending and running ones | `models.py:3486-3488` "stops on its own terms rather than running forever"; the daemon's docstring (`campaign.py:542-544`) leaves it to a manual tick, which is the hypothesis of the passing run |
| `Exports!CancelStands` | `Exports_resume` | A cancel is overwritten by the `done` of the run in flight | `job_control.py:15-16` "stops at its next checkpoint" |
| `AgentRuns!SkipStands` | `AgentRuns_resume` | The status `skipped` is no terminal one, so the sweep at start-up turns the record of an unreadable frame into an interrupted run (`relabel_agent.py:335`, `resume.py:36`) | `relabel_agent.py:336` "It carries the error so the skip is auditable rather than silent" |

More was met on the way and is described here only, without a configuration:

* Two rollbacks at once let a promotion replace a model it never beat
  (`killswitch.py`, `registry.py:set_champion`).  One of them restores a weaker model, a
  promotion reads and beats that one, and before it crowns, the other, which read the
  registry earlier, restores a stronger one.  It takes four models, and the proof of
  `PromotionBeatsReplaced` asked for the hypothesis; TLC then found the schedule.

* A drift scan that began before the kill switch was engaged clears the reason the kill
  switch wrote (`killswitch.py:85-110`); a settling tick, and the spot-check worker, go
  on after it was engaged, against `settlement.py:480` "Every guard re-checked here
  rather than trusted from the caller" and `settlement_agent.py:19-20` (`settlement.py:496`,
  `settlement_agent.py:268`).
* The nightly worker and a person plan two open lots of one stratum (`settlement.py:205`).
  A lot of the old model's labels promotes its class after the champion moved
  (`settlement_agent.py:171`).  A single review leaves a spot check unanswered
  (`review.py:246`).  A lot passes on a verdict that was taken back (`settlement.py:248`).
* Two reviews of one object whose requests overlap: the version is compared and not
  locked, so the second overwrites the first; without a version a client is not
  compared at all.  `NoBlindEdit` speaks of the others.
* Two clicks on resume claim one interrupted run for two workers (`resume.py`, read and
  claim are two statements).  Training on the card at a resume commits a half-done run.
* On autopilot a campaign that waits for a retrain or for reviewers stays in that step:
  the blocking step is returned for ever, and only an approval runs it again.
* An export resumed in chunks is `done` before its commit id is written; a crash in
  between leaves it done without one.

## 7. Proofs

TLAPS proves these for every value of the constants, under the ASSUMEs of the modules,
which TLC evaluates on every run: null values are no model, lot, job or label; the maps
have their types; bounds are naturals; objects and units are finite sets of numbers
where they are counted; there is a class and a label value at all; seeded champions are
sound and one per task.  The hypotheses of a theorem are in its statement.

| Theorem | States | Under |
|---|---|---|
| `Governance_proofs!TypeCorrect` | `[]TypeOK` | |
| `OneChampionAlways` | `[]OneChampion` | |
| `ChampionSoundAlways` | `[]ChampionSound` | |
| `NeverRearmed` | `NeverSilentlyRearmed` | |
| `ChampionNotLostAlways` | `ChampionNotLost` | OwnNames |
| `PromotionBeatsReplacedAlways` | `PromotionBeatsReplaced` | OneRequester, OneRollback, OwnNames |
| `Settlement_proofs!TypeCorrect` | `[]TypeOK` | |
| `SettledUnderPassedLotAlways` | `[]SettledUnderPassedLot` | OneTicker |
| `SafetyLotWasAckedAlways` | `[]SafetyLotWasAcked` | OneTicker |
| `LotLifeInOrderAlways` | `LotLifeInOrder` | OneTicker |
| `SettledIsRevertibleAlways` | `[]SettledIsRevertible` | NoBatches |
| `SettledIsRevertibleBesideBatches` | `[]SettledIsRevertible` | OneTicker, RulingsStay |
| `NoDoubleClaimAlways` | `[]NoDoubleClaim` | OneTicker, RulingsStay |
| `KeepsPromiseAlways` | `KeepsPromise`: refines `LotPromise` | OneTicker, RulingsStay |
| `Review_proofs!TypeCorrect` | `[]TypeOK` | |
| `AcceptedNeedsReviewerAlways` | `[]AcceptedNeedsReviewer` | |
| `NoBlindEditAlways` | `NoBlindEdit` | |
| `LaterBatchStandsAlways` | `LaterBatchStands` | |
| `BatchComesBackAlways` | `BatchComesBack` | |
| `Jobs_proofs!TypeCorrect` | `[]TypeOK` | |
| `NotRunTwiceAlways` | `[]NotRunTwice` | `MaxLosses = 0` |
| `FrameOnceAlways` | `[]FrameOnce` | `MaxLosses = 0`, or `Executor = "api"` |
| `ReapsOnlyDeadAlways` | `[]ReapsOnlyDead` | `~LongWaits` |
| `CancelSurvivesCrashAlways` | `CancelSurvivesCrash` | |
| `KeepsQueueAlways` | `KeepsQueue`: refines `JobQueue` | QueueMode |
| `Campaign_proofs!TypeCorrect` | `[]TypeOK` | |
| `LabelsCountedOnceAlways` | `[]LabelsCountedOnce` | OneDriver, `Careful` |
| `RetrainsPerIterationAlways` | `[]RetrainsPerIteration` | OneDriver, `Careful` |
| `AgentRuns_proofs!TypeCorrect` | `[]TypeOK` | |
| `NoReworkAlways` | `NoRework` | `MaxClicks <= 1` |
| `CountsMatchCursorAlways` | `[]CountsMatchCursor` | the same, `"resume" \notin MayTrain` |
| `WholeScopeReadAlways` | `[]WholeScopeRead` | the same two, no outage in a reanalysis, `Cardinality(Bad) < Streak` |
| `Exports_proofs!TypeCorrect` | `[]TypeOK` | |
| `SkippedIsWrittenAlways` | `[]SkippedIsWritten` | OneRun, NoneJoins |
| `ShardsAreTheArchiveAlways` | `[]ShardsAreTheArchive` | OneRun, NoneJoins |

Each proof module opens with the types of the operators, proves `TypeCorrect`, then
takes the properties in the order of the table; a property's invariant stands above the
lemma that it is kept.  Most of them are not inductive as they stand.

**The arguments.**

* *Governance.*  `ChampionSound`: a rollback crowns a model on the strength of a
  `promoted_from` written long ago.  `IInv` adds that every `promoted_from` is sound,
  that the champion each session read and the challenger it cleared are, and the model a
  rollback found.  `NeverRearmed` rests on `Orm`: a flush changes a column to TRUE only
  if the session did, and no session but the operator's does, whatever it had loaded.
  `ChampionNotLost`: `OursInv` says that sessions and rollbacks only ever hold known
  models of the task they name, so whoever demotes crowns.  `PromotionBeatsReplaced`:
  `BeatInv` says that a model beat the one it came after (`PastBeaten`), that no
  champion is better than the one a session read (`SessionsMeasured`), and that what a
  rollback is about to restore is worse than both (`KillsWeaker`): a rollback during the
  minutes of scoring can only lower what the challenger has to beat.
* *Settlement.*  A session works from its own copy of a lot, so `LotInv` says what of
  that copy is still true: the stratum, the sample and a seen ack always (`Agrees`); the
  status of a lot it has yet to visit, while there is one ticker (`Fresh`); and of the lot
  in hand that it has passed, was acked or is not the first, and that what is to be
  written is of its remainder (`InHand`).  `UndoSound` says that only settled lots are
  undone.  `LotMoves` reads off it that a step moves one lot, along `LotPromise!Moves`,
  and no label with it, or labels and no lot.
* *Settlement, whose a label is.*  `OwnInv`: the run on a label was written
  (`StampKnown`); a lot's run closed labels in review; the runs that a row, a session's
  copy of it and a revert in flight name are that lot's (`RowsTheirs`, `CopiesTheirs`,
  `UndosTheirs`); what a chunk holds is in review or a person's (`HandOpen`).  So a
  revert gives back only what its lot owns.  `ClaimInv` adds that a claimed label is
  settled under its run or a person's, and that a chunk in hand is claimed by nobody.
  `PromiseStep` maps a chunk to `Close` (the labels of it that no person took since it was
  read), a revert to `Reopen`, a ruling or a batch to `Rule`, a lot's move to `Move`,
  everything else to a stutter.
* *Review.*  `ApprovedInv`: an accepted state that a request has read, or that a batch
  recorded as the prior one, was a reviewer's.  `VersionInv`: no page is ahead of its
  row, and every write advances the version it read, so an equal version is an equal row
  where writes did not race.  `StampInv`, `BatchInv`: the stamp names the last batch that
  edited the object, and each of a batch's records is what it found there.
* *Jobs.*  `NotRunTwice`: `LockHeld` (a worker between boot and exit holds the lock),
  `HostInv` (a worker's task needs a worker that is up, or is the thread it waits for; a
  task of the API's runs its own job), so a recovery that reads orphans is alone.
  `FrameOnce`: `FrameInv` carries the row's `resume` flag to the frame a task labels
  next.  `ReapsOnlyDead`: what the sweep read has no process and gets none.
  `CancelSurvivesCrash`: a doomed job (`Doomed`) has only tasks that have yet to ask.
  `KeepsQueue`: `QueueInv` says whoever works on a job works on a running one; each step
  is summed up as one job changing hands (`QStep`) before it is matched to `JobQueue`.
* *Campaign.*  `CampInv`: of a stage of an iteration only the last step is live, stages
  follow each other, and a call in flight holds the campaign as it is, or as it was
  before the stop it met.  `LabelsCountedOnce` then needs `spent` to be the cardinality
  of the batches of done steps; `RetrainsPerIteration` that every retrain is named by a
  step, in a call's hand, or paid for by a fault (`JobInv`).
* *AgentRuns.*  `OneInv`: one task at a time, and the row says running exactly as long
  as it does.  `CursorInv`: what a task has left is disjoint from what it has done, and
  that is the cursor once it is saved.  `CountInv`: the counts add up to the units done.
  `ScopeInv`: left, done and read together cover the scope.
* *Exports.*  Without joins the slice only shrinks, so a chunk with the digest of a
  later slice has it of every slice in between (`Between`): `PromiseInv` keeps, of the
  checkpoint, the disk and the runner, exactly what a later resume may conclude from
  that.  `ArchiveInv` says that a directory with a shard has all the shards of its slice
  and no other by the time it is sealed.

**The hypotheses.**  None restricts a type or a size; each leaves out a schedule or a
setting in which TLC refutes the property, so each theorem says how far its property goes.

* `OneTicker`: the daemon's advisory lock keeps daemons apart, but
  `POST /govern/controller/tick` takes no lock, and `Settlement_two_ticks` shows a lot
  decided twice.  The theorems say what holds where nobody calls it during a tick.
* `NoBatches` (nobody rules on several labels at once), and the weaker `RulingsStay`
  (no batches, or nothing is taken back by name): `Settlement_undone_review`.
* `OwnNames` (requests name a model's own task): `Governance_cross_task`.
  `OneRequester`: `Governance_stale_gate`.  `OneRollback`: section 6, the schedule with
  two rollbacks; `POST /govern/killswitch/engage` is one person's button.
* `MaxLosses = 0` (no worker loses the connection that holds its lock):
  `Jobs_lost_lock`.  `~LongWaits`: a job waits for the card less than the sweep's window.
  `QueueMode` is the worker as executor, no lost lock and no cancel: section 4.
* `OneDriver` and `Careful`: `POST /campaigns/{id}/tick` and the daemon's tick may meet,
  and approving a stage that is not waiting runs it again; TLC refutes both properties
  without either.
* `MaxClicks <= 1`: two requests to resume both claim the run (section 6).
  `"resume" \notin MayTrain`: a sweep resumed into training commits with no counts.  The
  last two of `WholeScopeReadAlways`: `AgentRuns_breaker`.
* `OneRun`: the reaper and a resume of a live run, or two resumes, put two runs on one
  directory.  `NoneJoins`: an object that leaves the slice and joins it again makes an old
  digest of the checkpoint fit once more, after a run in between has rewritten the shard
  from the smaller slice; TLC refutes `SkippedIsWritten` with it.

Each hypothesis is met by a passing run that checks the property; the listed runs satisfy
all the hypotheses of the theorems about their properties.

**Only model-checked.**  Liveness (`DriftPauseLifts`, `AllowedLotSettles`,
`EveryJobEnds`, `StuckRowClears`, `CampaignEnds`, `EndsUnlessStranded`,
`ListedExportEnds`) and everything under fairness, which are out of the prover's reach.
Nothing else: every invariant, action property and refinement of the passing runs has
its theorem above.

## 8. What is not modelled

* **Most of the source lines**, because they keep no protocol: scorers, detectors,
  trainers, metrics, geometry, map and calibration, ingest and export formats,
  embeddings, statistics, about a thousand files that read inputs, compute and write
  rows once.  Their results enter the models as `Score`, `Sound`, `Values`, `verdict`,
  `Poison`.  A model of their control would be a sequence of calls with nothing to
  interleave, and their arithmetic is on floats and tensors.  The share of lines the
  map covers is small for this reason.
* **Generated and declarative code**: the SDK's client, the ORM columns that no model
  mentions, settings, the demonstration's scenes, the web application (but for the
  verbs a review page sends).
* **Identity, permissions, billing, notifications, integrations**: they call the
  operations modelled here, or none of their answers is read back.
* **Schema and migrations**, but for the champion index (`UniqueChampions`).
* **Of the components marked partly**: cloud-parked jobs; an annotator's labelling-job
  state; the fleet's other agents a tick starts; the datasheet and the splits of an
  export; challengers without gold metrics.
* **Labelling jobs, the sampling arithmetic, the task queue**: not yet; section 9.

`PROJECT.json` lists every component with its files and the reason.

## 9. Plan

1. **Done**: `Orm`, `Governance`, `LotPromise`, `Settlement`, their runs and theorems;
   `JobQueue` and `Jobs` with the worker, the lease and the slot; `Campaign`; `Review`;
   `AgentRuns`; `Exports`.
2. **Theorems**.  Done: every invariant, action property and refinement the passing runs
   check.  Left, in order of what they would add: the same with fewer hypotheses
   (`PromotionBeatsReplaced` for several rollbacks of models that were champions in
   order; `FrameOnce` per holder of the lock when it is lost; `CountsMatchCursor` for
   two people who resume, of the run that claimed last); `SettledUnderPassedLot` for two
   tickers that never hold one lot at once; and the step of each liveness argument that
   is a safety fact, such as that a dead row stays sweepable (`StuckRowClears`) and a
   passed lot that may settle stays listed (`AllowedLotSettles`).
3. **`LabelJobs`** (`services/labelops/jobs.py`, `quality.py`): stages and assignees.
   Two assignments at once give both replicas to one annotator (`jobs.py:174-182`); a
   submission sent twice skips a stage (`:237`); `set_state` bypasses both.
4. **`Sampling`**: `required_n` and the sequential decision as recursive functions,
   checked against the binomial definition over small populations.
5. **`Ladder`**: rows instead of a rung; two writers at once (`class_autonomy.py:76`).
