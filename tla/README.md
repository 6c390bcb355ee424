# flink-siesta in TLA+

flink-siesta puts Flink deployments to sleep when their Kafka sources are quiet and wakes them
when input arrives. It is a controller-runtime controller: it patches `spec.job.state`,
`spec.restartNonce` and two annotations of a FlinkDeployment, keeps its memory in a ConfigMap, and
leaves the work to the Flink Kubernetes operator. This directory holds its formal model: TLA+
modules translated from the Go source, TLC configurations that check them on small instances, and
TLAPS proofs of the results that hold for every value of the constants. `PROJECT.json` lists the
components, the runs, the source lines behind every definition, the hazards and the theorems.

## The system

| Component | State | Operations | Talks to |
|---|---|---|---|
| decider, `internal/decide/decide.go` | none (pure) | `Decide` | called once per tick |
| job gate, `decide/jobgate.go` | none (pure) | `jobGate` | the job's gauges, Kafka's end offsets |
| restart budget, `internal/state/restart.go` | window start, attempts, last nonce, backoff end | `Exhausted`, `InBackoff`, `Consume`, `rolled` | decider |
| memory, `internal/state/state.go` | phase, snapshot, times, budget, reason, learned topics | `Initial`, `Data`/`FromData`, `Annotations` | decider, store |
| reconciler, `internal/controller/reconciler.go` | one tick; caches of answered jobs | load and repair, observe, decide, shadow (dry run), act, release, refuse an invalid policy | everything below |
| patcher, `controller/patcher.go` | none | suspend, resume, restart, annotate; one retry after a conflict | API server |
| store, `internal/store/store.go` | the ConfigMap last seen | Load, Save, Delete | API server |
| policy, `internal/policy/policy.go` | none (pure) | Read: annotations to a policy or an error | reconciler |
| predicate and watch, `controller/predicate.go` | the work queue | which updates start a tick | informer |
| FlinkDeployment view, `internal/flink/flinkdeployment.go` | none | `Live` and its predicates | decider |
| Kafka probe, `internal/probe/kafka.go` | client | `Observe`, `Lag` | broker |
| gap probe, `probe/gap.go` | ranges known to be empty | `Records` | broker |
| job REST probe, `flink/rest.go` | none | `Sources`: the topics of the running job; `Read`: its gauges | JobManager |
| OAuth tokens, `probe/oauth.go` | cached token | `token` | identity provider |
| metrics authorization, `internal/metricsauth` | cached review answers | the HTTP filter | API server |
| metrics, footprint, Kafka client configuration, `cmd` | counters, flags | set-up and observation; nothing decides from them | |

One tick reads the informer's copy of the deployment and the ConfigMap, repairs memory where the
object contradicts it, asks the broker (and the consumer group, and the job) what is pending, decides,
patches the object, and saves memory. The object comes first because the annotations alone are
enough to rebuild what matters.

What is hard:

* **Stale reads.** The copy may be older than the controller's own last write. The patch carries a
  resourceVersion; after a conflict the patcher reads the object itself and compares nothing but
  `spec.job.state`.
* **Partial failure.** Patch and save are two writes, and the process may stop between them.
* **Other writers.** The operator writes the status, humans anything, at any moment.
* **A savepoint in flight.** `running` written before the operator has reported the suspend races
  the savepoint.
* **Input while asleep or falling asleep.** It must stay visible as movement until somebody acted
  on it.
* **What starts a tick.** Events under our own prefix are filtered, so that the controller does not wake
  itself; a policy edit is then noticed by nothing but the requeue of an earlier tick. Watches break
  and lists leave versions out.
* **One name, many deployments.** The ConfigMap is found by name and belongs to a UID; the process
  keeps the one it saw last, and the garbage collector takes its time.
* **Topics that show up one by one.** A list that is learned too early is a list that does not wake.
* **Restarts.** A restart whose save was lost must still take its slot and start its backoff.
* **Offsets without records.** Transaction markers, aborted transactions and compacted records make
  "read to the end" different from "position equals end offset", and the log moves while it is read.
* **Bounds.** `drainedChecks`, `gapFetches` and the memory of empty ranges may cut an answer short.

What makes it correct: no record waits for ever; no resume races a savepoint; what siesta suspended
is recognisable as such; a job gets its minimum time awake; the restart budget holds; a removed
policy leaves the job awake and nothing of ours behind; a deployment with a policy is visited again and
again; its memory is its own; the topics learned are all the topics the job reads; a job is called idle only when it has read
everything, and a job that has read everything is called idle in the end.

## The modules

    RestartBudget <- Decide <- Siesta <- SiestaProperties <- MCSiesta -> Policy <- PolicyProofs
                       ^                        ^
                  DecideProofs <----------- SiestaProofs <- MarkProofs

    Gap <- JobView <- MCJobView
           JobView <- JobViewProofs
    Watch <- WatchProofs
    MemorySpec <- Store <- StoreProofs
    JobSources <- JobSourcesProofs

`Siesta` is the whole controller around one tick. The other four groups each take one thing that
Siesta leaves open or takes as a single step, and model it with the interleavings and faults of its
own: what the gate's answer is worth (Gap, JobView), what starts a tick (Watch), what a load and
a save are (Store), and how the topics of a job are learned (JobSources).

**RestartBudget** is `state.Restarts`: a window of at most `MaxRestarts` restarts, a backoff that
grows by `Multiplier`. Whole numbers stand for durations.

**Decide** is `Decide(policy, memory, live, observation, now)`, one operator per branch:
`DecideAsleep`, `DecideAwake`, `DecideFailing`, `DecideIdle`, `DecideUnlearned`, and the guards in
front of them. A snapshot is the number of records produced, since the code only ever compares
snapshots for equality (ADR 3). A reason is its kind, not its text.

**Siesta** composes the controller with the API server, the informer, the operator, the job, the
source, humans and the clock, for one deployment (deployments share nothing that matters here).

| Variable | Code |
|---|---|
| `obj` | the FlinkDeployment in the API server; `mark` and `reason` are the two annotations |
| `stale` | versions the informer has not delivered; `Cached` is what `r.Get` returns |
| `cm` | the ConfigMap's data, `NoMemory` when there is none |
| `tick` | the reconcile in progress: where it is, when it began, what it will write, the state it read, whether its resourceVersion is still right |
| `now`, `ends`, `consumed`, `committed` | the clock and the source: external |
| `used` | how much of the bounds on faults, edits and failures is used |
| `setBy`, `restarted`, `startedAt` | history variables for the properties |

`Reconcile` is everything up to the first write (load, repair, observe, decide, shadow, the choice
made in act): nothing in it changes shared state, so it is one action, whose reads are taken at one
instant; what the broker and the job do between two questions of a tick is the subject of JobView. `Patch`, `ReadFresh`, `RetryPatch` and `Save` are the writes and the read after a
conflict; `Abort` ends a tick at any of them, be it a failed call or a dead process. `Release` and
`RefuseInvalidPolicy` are the two other ways a tick can go. `Operator*`, `Job*`, `Produce` and
`OffsetsExpire` are external, as the code in `src/` relies on them; `Human*` are the edits.

Abstractions of Siesta:

* One unit of time is at least a second: `formatTime` keeps seconds, so shorter differences do not
  survive a save. The restart nonce, in milliseconds in the code, is the time of the restart.
* Load and Save are one step each on a memory of the deployment's own. That this is what the
  store provides is `Store!Implements`. Save with unchanged data skips the write, so a ConfigMap deleted
  by somebody stays deleted; here that is the save followed by the deletion, which reaches the same
  states. Memory that does not parse (`FromData`) is memory that was lost.
* `Outage`, `Reported`, `ResumedAt` and `Pending` of the memory feed events and are left out.
* The job gate's answer is an input here; JobView models how it comes about.
* A tick may start at any moment, and is certain only as far as the periodic requeue makes it so; Watch
  is about what starts one.
* The topics of a job asked with `sources: auto` are learned in one step or not; JobSources is about that.
* The REST client exists (`--flink-rest`); without it `sources: auto` is one more invalid policy.

**SiestaProperties** states what makes the controller correct. **MCSiesta** names the policies, humans,
failures and upgrade modes that the configurations choose from; its policies are what `ReadPolicy` makes of
annotations.

**Policy** is `policy.Read`: each annotation has one of the values the code tells apart, `Problems` are the
values it refuses. `ParseDays` is the arithmetic of `parseDuration` at a given width, guards included, and
`DaysAreExact` the reference it is held against. How a value is spelled is left out.

**Gap** is `Kafka.Records`. A log is a set of batches, each a range of offsets; a marker ends its
producer's transaction. A question goes through fetches, batch by batch, and tracks which producers are
inside an aborted transaction, while producers write and the broker compacts. `empty` is the memory
of ranges found empty, dropped when full.

**JobView** adds the reader of the job (external: `emitted` is `currentOffset`, `idle` is
`sourceIdleTime`) and one tick's questions: `Observe`, `MeasureLag` (`Lag`), `ReadJob`
(`REST.Read`), `Drain`/`Answered` (`drained`), `Gate` (`jobGate`). The group's commit is any
position up to the reader's. The reader is `read_committed`. The first state is a job that has
read one record of each partition.

**Watch** is `SetupWithManager`, `predicate.go` and what a tick leaves in the work queue, for one deployment name.

| Variable | Code |
|---|---|
| `obj`, `pending`, `cache` | the deployment in the API server, the versions on their way to the informer, the version it shows |
| `queue` | `dirty`: an event or a timer asks for a tick; `timer`: `RequeueAfter`; `retry`: the rate limiter after an error |
| `tick` | the reconcile in progress: the version it read and what it will write |
| `held` | memo, `Seen` or metrics hold something for the name |
| `memory` | the UID that owns the ConfigMap |
| `read` | history: the latest edit a tick has read |

`Passes` is the predicate of all events, `Deliver` applies it to one version, `Relist` to the last of several, and
`ProcessRestarts` to the list of a new process. What a tick decides is open (`Decisions`: any suspend, resume or
annotation the code could write for what it read); a release is modelled whole. A patch lands on any version
that has the `spec.job.state` the tick read, which is what `patcher.merge` comes to with its retry.
A deployment created under the same name after a deletion has another UID. Humans edit the policy, opt in by
`kubectl apply` (which changes an annotation outside our prefix, too) or `kubectl annotate` (which does
not), upgrade, delete and create.

**MemorySpec** is the abstract specification of the store: a memory per deployment, by UID; a load
returns it, a save that succeeds has written it and nothing else; memory may be discarded at any time, and once
somebody else has changed it during a tick nothing more is promised to that tick. **Store** is `store.go`,
one action per call of the API server: `Load`, the branches of `Save` (`SaveUnchanged`, `SaveSeen`,
`SaveUnseen`, `SaveReads`, `SaveCreates`, `SaveReplaces`, `SavePatches`, `SaveReturns`), `Delete`, `Forget`. `seen` is the
entry of `Seen`, `op` the tick with the ConfigMap it holds. A patch is a merge patch against what the process
believes to be there and carries neither resourceVersion nor UID, so it may land on a ConfigMap of
another owner. Between two calls deployments are deleted and created, the informer lags, the garbage collector,
a human or a restored copy change the ConfigMap, a call fails before or after its effect, or the process dies.
The refinement mapping takes as a deployment's memory the ConfigMap's data if it owns the
ConfigMap, and none otherwise.

**JobSources** is `jobSources` with the memo, the part of `observe` that checks an answer once per job
instance, `learnSources` and `verifySources`. A tick asks (`TickAsks`), is told up to `ProbeTimeout` later
(`TickIsTold`), and saves. The job (external) shows its topics one by one, all of them within `Discovery` of its start;
`Discovery + ProbeTimeout <= SourceSettle` is what the comment on `sourceSettle` assumes of a job. Instants are kept as
ages, no larger than anything compares them with. `spent` and `memo.failed` are histories for the properties.

## The runs

| Run | Shows |
|---|---|
| `sleep_wake` | `EveryRecordIsRead` on fresh reads: input before, during and after a suspend, through a failed probe or aborted tick and a deleted ConfigMap, for a job with a consumer group, one asked itself, one with learned sources and a stateless one on group offsets; `RefreshedInTime`: the last is woken in time to refresh them; `MinAwakeHonoured` |
| `stale_reads` | `SavepointSafe` and its invariant `SavepointInv`, `OursIsMarked` and its invariant `MarkInv`, with an informer two versions behind, an aborted tick and edits of spec, policy, nonce or memory |
| `restarts` | `RestartsLimited`, `RestartsSpaced` and their invariant `BudgetInv` for a job that fails in several ways; `MinAwakeHonoured` for a job that is restarted; `MarkInv` where jobs become unrecoverable; `TypeOK`; all of them also when a human suspends or resumes the job once |
| `job_gate` | `IdleMeansRead`, `RememberedStaysEmpty`, `NoLagMeansRead` and their invariant `GateInv`, with a transactional producer, aborts, compaction, a job restart and a failing call |
| `quiet_job` | `QuietJobSleeps` over two partitions |
| `store` | `Implements` (the refinement of MemorySpec), `StoreInv` (the invariant of its proof) and `Remembered` with two deployments of one name, two changes by others and a fault |
| `watch` | `Scheduled` and its invariant `WatchInv`; `EditIsRead`, `ReleasedAwake`, `ReleaseCleans`, `GoneIsForgotten` with three edits, two undelivered versions and a fault |
| `sources` | `AnswerIsWhole` and its invariant `SourcesInv`; `TopicsAreLearned`, with two job instances, an edit of the annotation and a fault |
| `input_absorbed` | violation, below |
| `suspend_after_edit` | violation, below |
| `opt_in` | violation, below |
| `mark_overwritten` | violation, below: `OursIsMarked` with humans who write `spec.job.state` and an informer two versions behind |

**Bounds.** The clock ends at 4 to 7 units, with `IdleAfter = MinAwake = 1`: enough for a job to fall
asleep, wake, stay awake its minimum and be due for sleep again. An informer two versions behind
(`MaxLag = 2`) still has the version before the controller's suspend and the one before the operator's
report. One fault per run puts an abort at every step of every tick in turn; two faults in a
row are two runs of the same recovery. One record shows whether it is lost. With `MaxRestarts = 2`, three failures and a window
of 4 leave room for a third restart (`BaseBackoff = 2`), which only the budget forbids; `Multiplier = 1` keeps the clock short, and that with
any other the wait is never shorter than `BaseBackoff` is proved (`BackoffGrows`). Four batches after the first record are a transaction of two records with its marker and one
thing around it, or two transactions. In `store` two deployments of a name are a predecessor and its successor,
and two keys let a merge patch write one and leave the other. In `watch` three edits are a
deletion, a creation and a change, or an opt-in between two changes, and two undelivered versions are what a relist can leave
one out of. In `sources` two topics are a part and a whole, two instances an old answer and a new job; `SourceSettle` is just what
`Discovery` and `ProbeTimeout` ask for. Where the clock has run out, nothing stops but time: the
controller, the operator and the job go on.

`HealthCheck` and `DryRun` are FALSE in the runs; dry run is exercised through a policy's own
annotation. Both are free in the proofs.

`CHECK_DEADLOCK FALSE` in `stale_reads`, `watch` and `opt_in`: a deployment that has been released, or never had
a policy, is left alone, and nothing is left to do.

**Fairness.** `WF(Controller)`: every reconcile of a deployment with a policy ends in a requeue, and
errors are requeued by controller-runtime; a tick that has started goes on to its end. `WF(Deliver)`:
the informer's watch catches up. `WF(Operator)` and `WF(JobReads)`: the operator reconciles its
deployments and a running job reads. No fairness for anything a human, a producer, a failure or
a fault does, nor for the clock. In JobView, `WF(Probe)` and `WF(AskBroker)` stand for ticks coming round,
`WF(Emit)` and `WF(Idle)` for a job that reads and is idle when there is nothing. In Watch the work queue hands out what is
in it (`WF(Tick)`; `controllerOptions` chooses a plain FIFO queue for that), timers and the rate limiter run out, the
informer catches up, the operator reports and the garbage collector collects; that a tick comes round is here
a property and not an assumption. In Store ticks come round and the informer catches up; in JobSources also time
passes and the job shows its topics.

**Limits the runs show.** `QuietJobSleeps` needs as many `drainedChecks` as there are partitions
that end in a marker: with `DrainedChecks = 1` and two partitions TLC finds it violated, because
the order of the partitions never changes. `NoLagMeansRead` is one-directional: `Lag` counts
offsets, so a group that has read the last record of a transaction keeps a lag of one for the
marker, and the job stays awake. `IdleMeansRead` is about partitions the reader has emitted from
since the job started; one that reports `InitialOffset` is taken for caught up when it is idle.
`ReleaseCleans` needs a release without a failed call: after one, the next release returns early at the missing
annotation, and the ConfigMap stays; the same when a mode comes back while a release is on its way.
`TopicsAreLearned` excepts two kinds of job instance (`spent`): one that was asked `sourceAttempts` times before it showed a
topic, which ticks in quick succession can bring about, and one that was checked against a written list
before the annotation became `auto`. Both teach nothing until the next instance. `AnswerIsWhole` excepts a job that
failed over while its answer was settling, which the code cannot see. `RestartsLimited` and `RestartsSpaced` count a
restart in the window its decision was charged to. So they do not see two limits of the restart budget: a restart on the very first tick
whose save is lost becomes the baseline nonce and takes no slot, and the next one opens a window of its own; and a repaired unrecoverable
mark is cleared by the generation of our own restart, which costs one more budget. `RestartsSpaced` excepts a restart that opens a
window, because `rolled` drops a backoff that is still running.

Some properties hold in fewer situations than one would like, and the runs stay inside them:

* `MinAwakeHonoured` holds with fresh reads and one fault (`sleep_wake`, `restarts`). With an informer one version behind it
  fails: a tick on the version before our own suspend repairs memory to active and saves that; when the save of the next
  resume is lost, memory says active since long ago and nothing tells that the job has just been woken. With fresh reads it fails
  when the saves of a suspend and of the resume after it are both lost. In either case the job is suspended again at
  once; `AwakeSince` lives in memory only, and no annotation could give it back.
* `OursIsMarked` needs fresh reads where policies restart jobs. With `MaxLag = 1` and a lost save a tick may find the mark
  `suspended` next to a memory that says unrecoverable, a case that `repair` (`reconciler.go:675-685`) leaves as it is;
  the tick then writes `unrecoverable` over the mark. With humans who write `spec.job.state` it is proved, for any
  number of edits, as long as the informer is at most one version behind; it fails at two (`mark_overwritten`).
* `RestartsSpaced` needs fresh reads. With `MaxLag = 1` and a lost save TLC finds it violated: a tick on the version before its own
  restart does not see the nonce, decides on a memory that does not know of the restart either, and the retry after the conflict compares
  `spec.job.state` only.
* `RestartsLimited` needs a backoff. With `BaseBackoff = 0`, `MaxRestarts = 3` and two lost saves it is violated: the tick that finds
  the first restart missing from memory may restart again at once, and its own save may be lost too.

## Where code and documentation disagree

* **`input_absorbed`.** A tick on the version from before our own suspend finds `state: active` next to
  a memory that says suspended. `repair` makes memory active, the tick takes in the snapshot with the
  record that has just arrived, and the next tick repairs the phase back to suspended with that
  snapshot. No movement is left to see, and the job sleeps on. `decide.go:228-229` says that the input
  is not absorbed. With fresh reads it is not (`sleep_wake`).
* **`suspend_after_edit`.** The retry after a conflict compares `spec.job.state` only: a suspend
  decided on `savepoint` is written over an edit to `stateless`. ADR 6 says that only deployments that
  keep their position are suspended.
* **`opt_in`.** The predicate ignores every key under our prefix, `mode` included. A mode that `kubectl annotate` adds to a
  deployment that does not change otherwise passes no event, and there is no earlier tick whose requeue would
  notice it: the policy is not read until the spec, the status or an annotation of somebody else changes,
  or the process restarts. `reconciler.go:90` says that objects that carry the mode reach `Reconcile`. With `kubectl apply`, which
  changes its own annotation, the policy is read (`watch`).
* **`mark_overwritten`.** The same comparison does not see a state that went away and came back. A tick decides to suspend; a human suspends
  the job and resumes it; the retry finds `running` as before and lands our suspend. The next tick is served the human's suspended version, marked
  `active`, takes the job for one suspended outside siesta, and annotates `active`; its retry finds `suspended` as in that version and writes
  `active` over our own suspend. `patcher.go:111-112` gives the comparison as the protection against this very write. From then on the job counts as
  somebody else's and is not woken. It takes an informer two versions behind and both flips within one tick.

## What is proved

Every theorem holds for all values of the constants under the named assumptions of the modules
(`BudgetAssumption`, `DecideAssumption`, `SiestaAssumption`, `WatchAssumption`, `StoreAssumption`, `JobSourcesAssumption`,
`GapAssumption`, `JobViewAssumption`): any policies, any informer lag, any number of faults, edits and failures, any clock bound.

* **`DecideProofs!DecideSound`**: `Decide` is total and well typed, suspends only a job whose spec says
  running, and resumes only a job whose spec says suspended and whose suspend the operator has
  reported as done. One lemma per branch; the typing of the budget is a lemma of its own.
* **`DecideProofs!DecidePhased`**: which phase follows which. A job is suspended only from an active memory that
  has been awake for `MinAwake`, given up only if it runs and its policy restarts, and what sleeps stays asleep
  unless it is resumed.
* **`SiestaProofs!TypeCorrect`**: `Spec => []TypeOK`, one step per action.
* **`SiestaProofs!SavepointInvariant`** and **`SiestaProofs!SavepointIsSafe`**: `"state" \notin Humans` implies `Spec => []SavepointInv` and `Spec => SavepointSafe`: as long as
  only the controller writes `spec.job.state`, no resume races a savepoint, whatever is stale,
  conflicts, is retried, crashes or is released.

`SavepointSafe` is about one write and not inductive, since the decision behind the write was made on
another version of the object. The invariant `SavepointInv` says what the distance between the two can be:

* `FlipInv`: the versions still to be delivered are at most one change of `spec.job.state` away from the
  object, and a tick whose state still matches the object has no version with another state to come.
  This is what the patcher's comparison of `spec.job.state` is worth: equal before and after means
  not changed in between.
* `DoneInv`: a suspend reported as done in an old version of a job still suspended is done, also
  for a resume decided on that version.

The proof shows that each way to start a tick leaves it `Prepared` (`ReconcilePrepares`,
`RefusePrepares`, `ReleasePrepares`, from `DecideSound`), what a new version does to the undelivered ones
(`UpdateShifts`), and then one lemma per kind of step: those that leave the object alone (`UnmovedInv`),
writes by others that keep `spec.job.state` (`KeptInv`), the controller's own write (`ApplyInv`), and
delivery (`DeliverInv`). With a human writing `spec.job.state` the theorem fails, as it must: the state may
go away and come back between read and retry.

* **`MarkProofs!MarkInvariant`** and **`MarkProofs!SleepersAreMarked`**: `FreshOrNoRestarts` and `AloneOrClose`
  imply `Spec => []MarkInv` and `Spec => []OursIsMarked`: whatever the controller suspended carries its mark, through stale
  reads, conflicts, retries, lost saves and repairs. `FreshOrNoRestarts` says that the informer is never behind or that no policy
  restarts, `AloneOrClose` that nobody else writes `spec.job.state` or that the informer is at most one version behind.
  Neither can be dropped, see the limits above and `mark_overwritten`.

`OursIsMarked` is not inductive, since every tick writes the mark, from a version and a memory that may both be old.
`MarkInv` adds what such a tick can still write:

* `MatchInv`: a patch that will get through is for the state the object has.
* `AsleepInv`: for a job we put to sleep, no version in the informer that says suspended lacks the mark, no memory,
  version or tick calls it unrecoverable, and no tick that read it asleep and does not resume it writes another mark.
* `AloneInv`: where nobody else writes `spec.job.state` every sleep is ours, also in the versions of an earlier one. With other writers
  an informer one version behind does instead: the only version behind our suspend is the running one it replaced.
* `FallingAsleepInv`: a suspend on its way was decided on a running job where nothing said unrecoverable, and nothing has since.
* `HopeInv`: where no policy restarts, nothing ever says unrecoverable.

The proof follows `SavepointInvariant`: what `repair` makes of mark and memory (`LoadPhase`), what a tick may write when it
starts (`Started`, from `DecidePhased`), then one lemma per kind of step.

* **`DecideProofs!DecideBudgeted`**: a restart is decided only where the budget in memory, after charging it with a restart that
  memory missed, is neither exhausted nor in its backoff, and never in the tick that finds one missed. Every other decision leaves the
  budget as it is, charges it with the missed restart, or gives a fresh one after a human's edit.
* **`SiestaProofs!BudgetInvariant`**, **`SiestaProofs!RestartsAreSpaced`** and **`SiestaProofs!RestartsAreLimited`**: `MaxLag = 0`, `BaseBackoff > 0` and
  `"nonce" \notin Humans` imply that `BudgetInv`, `RestartsSpaced` and `RestartsLimited` always hold, for any policies, any number of
  faults, failures and edits of anything but the nonce. The first two hypotheses cannot be dropped, see the limits above; a human's nonce is a
  restart by a human, which the code counts as one of its own.

Both properties speak of the restarts made, and the controller knows only what it managed to save. `BudgetInv` ties the two:

* `NonceInv`: the nonces of the restarts made are instants of ticks, no two the same, and none is newer than the object's.
* `CoverInv`: a budget in memory or on its way to it covers every restart made, with a slot in its window and a backoff after it, except
  perhaps the last, and that one can be told from the object's nonce (`Covers`). A fresh budget, which has no window yet, has no slots to count.
* `DueInv`: a restart on its way was decided on a memory that had missed none of them.

The last is the heart of it: charging a missed restart starts a backoff (`ChargeWaits`), so the tick that finds one missing does not
restart, and a lost save loses one restart and never two. The proof asks what a tick may carry when it starts (`Opened`, from `DecideBudgeted`), then
goes through its steps: the write (`ApplyBudget`, `RestartIsDue`), the save (`SaveInv`) and all that changes neither (`UnchargedInv`). That a backoff is never
shorter than `BaseBackoff` rests on `Pow`, the recursive function that stands for `math.Pow(multiplier, n)`; that it is
well defined and at least 1 is proved by induction in the form the prover can use, over a set of naturals (`Least`, `Induction`, `PowDef`, `BackoffGrows`).

* **`WatchProofs!WatchInvariant`** and **`WatchProofs!AlwaysScheduled`**: `OptIns \subseteq {"apply"}` implies `Spec => [](WatchInv /\ Scheduled)`, hence `Spec => []Scheduled`. `WatchInv` is needed because what an event is
  worth depends on the version delivered before it: `VersionInv` orders the undelivered versions (a mode that comes
  back has changed an annotation outside our prefix, so its event passes), `TickInv` says that a tick for a deployment with a policy
  never ends the way a release does. With `"annotate"` the theorem fails, as `opt_in` shows.
* **`StoreProofs!StoreInvariant`** and **`StoreProofs!StoreImplements`**: `Spec => []StoreInv` and `Spec => Implements`. `StoreInv` says what the tick
  in the middle of a Save may assume of the ConfigMap it holds as long as nobody else touched it; from it each action
  is shown to be a step of MemorySpec or a stutter. The hard cases are the patches, which
  may land on another deployment's ConfigMap unless the invariant says whose it is.
* **`JobSourcesProofs!SourcesInvariant`** and **`JobSourcesProofs!AnswersAreWhole`**: `Spec => []SourcesInv` and `Spec => []AnswerIsWhole`. `SourcesInv` relates three clocks: a job that has run for `Discovery` shows all it
  reads, an answer that has held still is no older than the run of the job that gave it (`AgeInv`), and an answer on its
  way was asked for at most `ProbeTimeout` ago (`AskInv`). `Discovery + ProbeTimeout <= SourceSettle` is what makes
  the second of two equal answers late enough to be whole.
* **`JobViewProofs!GateInvariant`**, **`IdleIsRead`**, **`EmptyStaysEmpty`**, **`NoLagIsRead`**: `Spec` implies that `GateInv`, `IdleMeansRead`,
  `RememberedStaysEmpty` and `NoLagMeansRead` always hold, for any partitions, producers, batch sizes, numbers of batches, compactions,
  restarts and faults. A job is let to sleep only when nothing that is or can become a record lies between what it has emitted and the end
  offsets of the tick.
* **`PolicyProofs!DurationsAreExact`**: at every width, `ParseDays` is the exact duration or refuses it.

The invariant behind the gate's theorems, `GateInv`, has to carry an answer of the broker past everything that happens to the log
while it is read. A log only grows at its end and compaction keeps the markers (`Grown`, `GrowthKeeps`), so a range in which no transaction is
open (`Decided`) and no record lies (`Clear`) stays so; that is why `gap.go` may remember it (`EmptyInv`). Within one answer,
`RawInv` says that the log has no batch up to the last of the answer that the answer lacks, although compaction may have dropped some that it
has; `AbortInv` that a producer is taken for aborting only up to the marker that aborts its transaction, so no batch of a later,
committed one is skipped; `AskInv` that what lies behind `next` holds no record. `QuestionInv` and `TickInv` tie the answers to
the offsets the tick was given. The first marker of a producer exists by well-ordering (`Least`), and the lag is a sum over finitely many
partitions (`LagFinite`).

**Model-checked only.** Liveness (`EveryRecordIsRead`, `RefreshedInTime`, `QuietJobSleeps`, `EditIsRead`, `ReleasedAwake`, `ReleaseCleans`,
`GoneIsForgotten`, `Remembered`, `TopicsAreLearned`) is out of the prover's reach. `MinAwakeHonoured` holds for one fault on fresh reads, not for
every value of the constants.

## What is not modelled, and the plan

* Metrics, footprint, Kafka client configuration, process set-up, Helm chart and end-to-end tests keep no state a
  decision reads.
* `report`, `record`, `account` and `gateTrace` of the reconciler raise events, count and log; the fields of the memory that only they
  read are left out with them.
* OAuth tokens: a cache whose failure is a failed Kafka call, which the models have wherever Kafka is asked. Metrics
  authorization: a cache in front of the metrics endpoint, which no decision reads.
* Two requests of one process overtaking each other, and a request that arrives after its process was replaced: leader
  election and the client's own ordering are taken for granted.

Next, in this order:

1. **An abstract specification** of sleeping and waking (awake, falling asleep, asleep, waking),
   with Siesta shown to implement it under a refinement mapping.
2. **Dry run that comes and goes** while the job sleeps, and the idle window after a human's resume.
3. **Leader election**: two processes with a memo and a `Seen` of their own.

To prove: the refinement of step 1; `MinAwakeHonoured` with `MaxLag = 0` and `MaxFaults <= 1`, from an invariant on what one lost save can
hide of the last resume.
