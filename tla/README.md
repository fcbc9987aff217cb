# TLA+ models of the SIF-Wasm edge continuum

This directory holds TLA+ specifications of the SIF-Wasm continuum, the TLC
configurations that model-check them and the TLAPS proofs about them. The system
moves one WebAssembly function between an ESP32 and an edge host: a Kubernetes
operator publishes *releases* (generation, artifact digest, function identity,
resource contract), stages them on both runtimes, decides where the function
runs and follows the device through MQTT telemetry.

## 1. The system

| Component | Source | State it keeps | Operations |
|---|---|---|---|
| Device release manager | `SIF_wasm_dht/main/sif_release.cpp`, `sif_state.cpp`, `sif_wasmPull.cpp`, `main.cpp` | NVS: active and staged tuple, mode, admission pause, last command id. SPIFFS: active, staged, `.previous` file. RAM: WAMR bytes, compiled contract, transition slot, admission gate | stage, activate local / edge, pause, resume, boot, reset |
| Device control channel | `sif_control.cpp`, `sif_controlMessageAssembler.hpp` | partially received MQTT message | assemble fragments, dispatch eleven commands |
| Device invocation path | `sif_migratingWasmFunction.cpp`, `sif_httpForward.cpp`, `sif_wasmHostApi.cpp` | simulated battery, actuator | local run with drain, offload with three attempts, response check |
| Device LED | `sif_led.cpp`, `sif_ledPolicy.hpp` | actuator colour and owner, rejection overlay, last decision id | actuator update, release change, rejection signal |
| Device telemetry | `sif_telemetry.cpp` | none | publish state, digest of the active file |
| Edge host | `edge/host/main.go`, `hal.go` | active and staged compiled release in memory, artifact files | `PUT /wasm`, `POST /release`, `POST /process`, reads |
| Operator reconciler | `wasmfunction_controller.go`, `mqtt_publisher.go` | the `WasmFunction` status: phase, last command, stage attempts, pause | reconcile: deployment, artifact, stage, placement, pause/resume, thresholds, rejection signal |
| Operator telemetry bridge | `mqtt_telemetry.go` | observed device state, battery statistics | apply one telemetry message |
| Operator artifact sync | `artifact_sync.go` | host release state in status | upload and activate on the host |
| Deadline estimator and admission | `deadline_estimator.go`, `deadline_placement.go` | latency samples | record, estimate a percentile, admit or reject a placement |

The operator talks to the device through MQTT commands and reads its telemetry;
it talks to the host over HTTP; the device forwards invocations to the host over
HTTP in edge mode and pulls artifacts from an HTTP server. On the device the MQTT
task, the release worker, SIF's scheduler and the LED task share state, and the
board may reset between any two statements. On the host every request runs in its
own goroutine under one mutex that does not cover the upload's file operations.

What is hard there: checks made before a lock is taken; values loaded at the start
of a long transition and used at its end; several NVS writes and renames that a
reset can separate; drains and timeouts that race with late work; lost, repeated
and late MQTT messages; HTTP requests that outlive their client. `PROJECT.json`
lists these hazards at their lines with the properties that cover them.

What makes each part correct:

- *release manager and host*: generations never go back; only the staged tuple is
  activated; bytes, metadata, contract and mode agree whenever an invocation runs;
  releases change between invocations; a pause holds until it is lifted; every
  transition ends and admission comes back;
- *control channel*: only complete, contiguous messages on the device's topic are
  dispatched;
- *LED*: the colour after an overlay is the one the active release last set, and
  one rejection decision signals once;
- *operator*: a command is not lost for good and not repeated without need; nothing
  is activated that its destination has not reported; a declared release is adopted
  in the end and an edge device has a host that serves it; status shows the device's
  battery although two writers overwrite each other;
- *estimator and placement*: the percentile equals its reference; battery drain is
  what the messages themselves show; one observation moves the function at most once.

## 2. Modules

| Module | Role |
|---|---|
| `ReleaseSlot` | abstract specification: one active and one staged release; `Stage`, `Activate`, `Forget` for a runtime without durable slots, and `Broken`, after which nothing is promised |
| `DeviceRelease` | the device release manager, its control handlers, worker, boot and reset |
| `DeviceReleaseProofs` | the inductive invariant of `DeviceRelease` and its proof |
| `DeviceReleaseTheorems` | refinement of `ReleaseSlot`, enforced contract, invocation boundary |
| `DeviceReleaseGuarantees` | pauses, modes, bytes and the staged slot, each with the hypotheses it needs |
| `EdgeHost` | the host's upload, activation, invocation and restart |
| `EdgeHostProofs` | its types, its invariant without overlapping uploads, the refinement of `ReleaseSlot` |
| `Placement` | the operator's decision: proposal, deadline admission, readiness; pure operators |
| `PlacementProofs` | hysteresis and deadline admission as theorems about those operators |
| `TelemetryPolicy` | what the bridge derives from telemetry, and the decisions that follow |
| `TelemetryPolicyProofs` | the drain tracker against the log of messages, one move per observation |
| `EstimatorProofs` | the percentile with its sort, the samples against the messages received, slow edges refused |
| `Operator` | reconciler, artifact sync, publisher and bridge, composed with the device and the host they drive |
| `OperatorProofs` | what the operator may know of the device, and the pace of staging |
| `MCDeviceRelease`, `MCEdgeHost`, `MCTelemetryPolicy`, `MCOperator` | constants for TLC |

`TelemetryPolicy` and `Operator` extend `Placement`: both decide with the same
operators, one over all inputs of the policies, the other over all orders of events.

### DeviceRelease

A release is a record of generation, artifact (`art`, which stands for the digest and the
function identity) and contract (`ctr`), so a digest comparison is equality and a
same-generation conflict is two tuples with one generation. The two strings are separate
because they are separate NVS keys: a tuple that was written in part has the contract of
another release. `nvs` and `fs` survive resets, everything else is RAM.

The MQTT task runs one handler at a time. `StageCheck` and `ActivateCheck` are the
parts of `sif_release_stage_async` and `activate_async` that read NVS before the
mutex, `Lock` the part under it; `PauseCheck/Gate/Store` and
`ResumeCheck/Store/Gate` are the statements of `sif_release_pause` and
`sif_release_resume`. Rejected commands change nothing and are not actions.

The worker's position `wk` follows `transition_task`: `Begin`, `DrainDone` or
`DrainTimeout`, then `Pull`, `Verify`, `Commit` for staging, or `Load`, `Reload`,
`Backup`, `Promote`, `Adopt`, `Swap`, `SetMode`, `Record`, `Unpause` (and `Restart`)
for activation, then `Finish`, `Restore`, `Reopen`. A download may return any bytes
or fail, as the server is outside the code. `LoadError`, `RestoreError` and the
`Fails` disjuncts are the error paths of NVS writes and loads, renames and module
reloads; in `Promote` the rollback's own rename may fail as well. `Reset` is a panic,
watchdog or power-on reset between any two steps; a power-on reset selects local mode as
`app_main` does.

`set_staged_release` and `activate_staged_release` set and erase their keys one by one.
An error or a reset in the middle leaves a prefix of that (`Torn`, `Erasing`,
`HalfStaged`, `HalfAdopted`), and what follows acts on it. `app_main` does not read the
result of its load (`main.cpp:312`): `Misboot` is a boot whose load fails. It may see no
identity and write the bootstrap tuple, whole or in part, over the active one; it may
leave the contract unread, so that no policy compiles; and if NVS did not open at all,
mode and pause have their defaults and the gate opens. The history variable `damage`
remembers which of the two has happened (`"torn"`, `"boot"`), since several promises end
there: `SlotRefinement` maps `damage = {}` to `intact` of `ReleaseSlot`, and
`EnforcedContract` speaks of the time before.

SIF itself is not in the repository: the admission gate and the count of admitted
invocations are modelled from how `sif_release.cpp` uses them and are marked
external in the map. A setter is one step with the outcomes above, as no other task
writes the same keys. Assumed of NVS: one key is set or erased entirely or not at all
(that is what `set_mode` and `set_admission_paused` write), and a key whose set succeeded
stays although the commit after it fails. The identity has no key of its own in the model:
a tuple torn between digest and identity counts as one torn after the identity. The last
command id is write-only, so only the failure of writing it is kept.

`LateCommands` says which of pause and resume may arrive while a transition runs.
The code never refuses them; the constant separates what holds in general from
what holds when the sender waits for the transition's telemetry first.

### EdgeHost

Uploads are processes with one action per stretch of `handleWasmUpload` between two
points where another goroutine can interfere: `Create`, `Copy`, `Compile`, `Check`
(first critical section), `Rename`, `Install` (second one). Files are inodes, since
all uploads share one temporary name and `os.Create` truncates whatever it refers
to. `ActivateBackup` and `ActivatePromote` hold the mutex together, and so do
`ProcessBegin` and `ProcessEnd`, which may be arbitrarily far apart: guests have no
time limit. `Restart` brings back the container image, as the deployment mounts no
volume. `Troubled` counts faults: a failed promotion rolls back the first rename, and
`RolledBack` may fail in turn (its error is discarded), which leaves the active module
without a file. `os.Remove` is assumed to succeed. `Overlapping` is FALSE when a `PUT` or a `POST /release` is sent only
after the last `PUT` returned, which is what one reconcile at a time does as long
as no request runs into the operator's 15 s client timeout.

### Placement and TelemetryPolicy

A `WasmFunction` is a flat record of the spec and status fields the decision reads;
a nil pointer is `Nil`, an optional boolean is "unset", "on" or "off".
`ResolvePlacement` is `resolvePlacementWithEstimates` in its order: the hard
low-battery rule, the explicit mode, the high threshold, the drain; then locality and
deadline admission. `ApplyDestinationReadiness` follows it in each reconcile. Sums of
milliseconds are `int32`.

`TelemetryPolicy` applies one message per step (`Apply`, from decoding to the patch),
lets time pass (`Pass`) and changes the selected function (`Select`). The bridge and the
reconciler read the `WasmFunction` from an informer cache: `versions` holds the object
from the version the cache has (`cached`) to the newest one (`stored`), and `Watch`
delivers the next. `updateObservedTelemetry` sends a merge patch of the fields in which
the message differs from the cached object (`Shown`, `Patched`), so a field that agrees
with an old cache keeps what a later message stored; the patch carries no resource version
and is not retried, and it may fail after tracker and estimator have moved on. `Restart`
is the operator process starting again: samples and drain tracker are gone, the object
stays. (The reconciler's own write of the battery it began with is in `Operator`.)

Timestamps are
ages. The loops that drop old samples are `WithinWindow`, a suffix: samples are appended
at age 0 and age together, so they are kept oldest first and a filter by age removes a
prefix (`Ordered`, a proved part of the invariant). `sort.Slice` is `Ascending`: some
order of the samples that report a metric in which what they report never decreases;
`EstimateDeadlinePercentile` reads off the value at the nearest rank of it. `log` and
`received` are history variables: all messages applied, and those that this operator
process applied; their mode, source and function are as the bridge made them out with the
cache it had. `upto` of a version is history too: the message that all its fields come
from, 0 when a merge patch mixed two. `DrainIsConfirmed` and `SlowEdgeIsRefused` are
stated over the messages themselves, not over the trackers and samples the code keeps,
and the decisions they speak about are taken for every accepted placement, for both
resource contracts and in both modes that can move the function off the device. After a
restart `SlowEdgeIsRefused` counts from zero, as the code does: a slow edge that only the
former process heard of is judged by its profile until `MinSamples` round trips were
reported again.

### Operator

`store` is the `WasmFunction` in the API server, `cache` the informer's copy. A
reconcile is three steps. The first reads the cache and runs `reconcileArtifact`
(`SourceError`, `HostError`, `AnswerLost`, `HostHolds`, `Upload`,
`UploadAnswerLost`: one action per outcome). `Command` decides and runs
`applyPlacement`: `ApplyReleaseStage`, `ApplyThresholdUpdate`, `ApplyPauseCommand`,
`ApplyPlacementCommand`, `ApplyResumeCommand` pass a context from one to the next, an
error stops the rest, and `f` chooses the call that fails and whether it took
effect. `UpdateStatus` writes the reconcile's own fields and the battery it *began*
with over the current cache, and succeeds only when the cache is current;
`UpdateConflict` is the case where every retry met a conflict. `ApplyTelemetry` is the
bridge's merge patch: it names the fields in which the report differs from the
*cache*. Each change of `store` becomes an event when `Sync` delivers it; timers are
`wake.timer`.

The device is the outcome of its handlers as `DeviceRelease` has them, one step per
command, with telemetry sent after each; a device that changes its mode is `booting`
and loses what arrives. `Lose` drops a command, `LoseReport` a report: the bridge
subscribes with QoS 0 and a clean session. A board whose control channel does not come up
after a boot (`main.cpp` gives up without Wi-Fi) is one nobody hears of again, and is not
modelled. The host is its two slots. Both are the composed system's
view of modules that are checked on their own.

What is abstracted: a release is its generation, which stands for digest and identity
as well; of the age of a send only whether its retry delay has passed is kept
(`due`), so the backoff from 30 s to 60 s and the attempt counter are one bit;
`telAfter` is the comparison of `lastTelemetryTime` with `lastCommandTime`, whose
resolution of a second is not modelled; the `WasmFunction` is in auto mode with
deadline admission and battery simulation off.

Two reductions keep the state space small. Between the first step of a reconcile and
`Command` only changes of the host and an operator restart are interleaved
(`NotDeciding`): `Command` reads the copy `rec.w` and appends to `cmds`, so a step of
the cache, the API server, the bridge or the device in between can be moved before
the first step or after `Command`. `Tick` happens while no reconcile runs, as retry delays are
much longer than a reconcile.

## 3. Runs

Passing runs:

- `device_faulty` (`DeviceFaulty.cfg`): two generations, a conflicting tuple whose
  contract does not compile, one invocation, one fault: a reset, a failed rename, reload
  or load, at boot too, or a setter that stops anywhere. Types, `OneTransition`,
  `EnforcedContract`, the refinement `SlotRefinement`, `GenerationNeverRegresses` and
  the liveness property `TransitionEnds`. About 360,000 states. Pause and resume come
  between transitions here (`LateCommands = {}`); the theorems have any `LateCommands`.
- `device_quiet` (`DeviceQuiet.cfg`): three generations, one with a malformed
  contract, two invocations, no faults, pause and resume between transitions.
  `BytesMatchMetadata`, `PauseHonoured`, `ModeAgreement`, `InvocationBoundary` and
  `AdmissionRestored`. About 16,000 states. These properties do fail with faults or
  late commands; section 5 says where.
- `host_sequential` (`HostSequential.cfg`): four tuples over three generations, one
  that does not compile, one conflict, three faults, no overlap of uploads with other
  uploads or activations. Types, `ActiveConsistent`, `StagedConsistent`,
  `ResponseHonest` and `SlotRefinement`. About 10,000 states.
- `telemetry_policy` (`TelemetryPolicy.cfg`): all sequences of three messages out of
  five, with gaps inside and beyond the windows, two functions, one of them unknown to
  the estimator, a cache up to two versions behind, and one failed patch or operator
  restart. Types, `EstimateIsNearestRank`, `DrainIsConfirmed`,
  `OneMovePerObservation`, `SlowEdgeIsRefused`. About 396,000 states.
- `operator_rollout` (`OperatorRollout.cfg`): four starts (a rollout in either mode, a
  battery that fell, one that recovered while thresholds changed) and one fault.
  `ActivatesOnlyHeld`, `StagePaced` and, under fairness, `ReleaseAdopted`,
  `HostServesEdge` and `BatteryShown`. About 184,000 states. A lost report is a fault of
  every start, so each acknowledgement is lost in some behaviour.

Runs that show a disagreement between the code and what its documents say (see
`findings` in `PROJECT.json` for the quotations):

- `device_late_pause`: a pause accepted during an activation is erased by the
  activation's final `set_admission_paused(false)`.
- `device_stage_race`: a stage command checked before the mutex replaces a newer
  staged generation.
- `device_restage`: a failed staging removes the file of the release that NVS and
  telemetry still report as staged, and staging that release again is answered as a
  duplicate.
- `host_activate_race`: an activation between an upload's rename and its install
  mixes two releases and leaves the newer one staged without a file.
- `host_stale_upload`: of two overlapping uploads the older generation is staged
  after the newer one was activated.
- `policy_oscillation`: with `mode: local` and a battery at or below the low threshold
  the hard rule moves the function to the edge and the explicit mode moves it back, at
  every reconcile and on the same telemetry. In the other modes one observation moves
  the function at most once (`OneMovePerObservation`).
- `operator_lost_resume`: a lost `resume_function` is never repeated. The release is
  active, so no retry is scheduled; the command is suppressed until newer telemetry
  arrives; a paused device runs no invocation and reports nothing. Losing a message
  is the plainest cause, not the only one: a placement command that reaches the device
  while it restarts into the other mode has the same effect, and so has a lost report
  (with `"report"` for `"loss"` in `LowStart` TLC finds it).

**Bounds.** Two generations are needed for every race between an older and a newer
release, a third for a staged release that is replaced while another is active; an
artifact with a bad contract and a conflicting tuple for the rejections. One fault
suffices for every hazard that starts from one interrupted sequence, and the proofs
below hold for any number. Two invocations let the drain see the count fall without
reaching zero. Five inodes are the four names and one open file. Three faults
on the host are a failed promotion, its failed rollback and a restart. Three messages are
a drain observation, what it is compared with and one that interrupts them or is patched
against an old cache; `riskyWindows` is one in that instance, and the proofs have any; two
samples are the least for which a 50th percentile chooses; a gap of one keeps a
window of two, a gap of three ends it. In `Operator` a reconcile begins when
the commands of the last one have arrived or are lost (it may publish several at
once), and the device sends a report when the last one was applied; there is one fault, whose kind depends on the start: each kind is there in at least one start
in which it interrupts something, and the product of all kinds and all starts is
beyond five minutes. A lost `resume` has a run of its own, `operator_lost_resume`,
from a start that combines a rollout with a low battery.

**Fairness.** `FairSpec` of `DeviceRelease` assumes weak fairness of the release worker and of a
started handler: both are FreeRTOS tasks that only ever wait for bounded delays,
NVS and the file system. It assumes nothing of the operator, of SIF's invocations
or of guests, so `TransitionEnds` holds with a guest that never returns, because of
the bounded drain. The host has no liveness property: a guest may hold its mutex
forever.

`Operator` assumes weak fairness of the reconciler (controller-runtime works off its
queue), of the informer, of the bridge, of invocations on a device that is not paused,
and of the restarting pod, and strong fairness of `Deliver`, `Boot` and `Tick`. Those
three are disabled now and then by the model only: a report waits for room in the
bounded queue, and time waits for a reconcile that takes no time. Faults are never
fair. `Command` is fair only without a failing call. `NotDeciding` also disables the
informer, the bridge and invocations for a moment; the passing run assumes only weak
fairness of them, which is less than the code gives, and `operator_lost_resume` uses
`FairSpec` with strong fairness, so that its counterexample is none of the model's.

## 4. Proofs

Eight modules are checked with TLAPS, for all constants that satisfy the named
assumptions of the module concerned. None of the bounds of section 3 appears in them,
except where a theorem says so. The assumptions are about what the constants are
(artifacts differ from the markers for none, published generations are positive,
windows and gaps are numbers); what a theorem needs of the *environment* is a
hypothesis in its statement. Each inductive invariant was checked with TLC on an
instance before it was proved.

| Component | Theorem | Property | Hypothesis |
|---|---|---|---|
| device | `Invariance`, `TypeCorrect`, `Exclusive` | `Inv`, `TypeOK`, `OneTransition` | none |
| | `Refinement` | `SlotRefinement` | none; the property ends with the first damage |
| | `GenerationAdvances` | `GenerationNeverRegresses` (action property) | none |
| | `ContractEnforced` | `EnforcedContract` | none; the property ends with the first damage |
| | `Boundary` | `InvocationBoundary` | resume does not overlap a transition |
| | `PauseIsHonoured` | `PauseHonoured` | pause does not overlap a transition |
| | `ModesAgree` | `ModeAgreement` | no faults |
| | `BytesMatch` | `BytesMatchMetadata` | no faults, resume does not overlap a transition |
| | `PauseIsPersisted` | `PausePersists` | pause does not overlap a transition |
| | `StagedAdvances` | `StagedNeverRegresses` (action property) | no stage command waits for the mutex during another staging |
| | `StagedStaysActivatable` | `StagedIsActivatable` | no faults, nothing is staged over a staged release |
| host | `HostTypes` | `TypeOK`, `Prepared` | none |
| | `ActiveSlot`, `StagedSlot`, `HonestResponse` | `ActiveConsistent`, `StagedConsistent`, `ResponseHonest` | no overlap with an upload |
| | `HostImplementsSlots` | `SlotRefinement` | no overlap with an upload |
| | `StaleUploadsRejected` | `StaleRejected` (action property) | no overlap with an upload |
| operator | `OperatorTypes` | `TypeOK` | none |
| | `ActivationsAreHeld` | `ActivatesOnlyHeld` | none |
| | `StagingIsPaced` | `StagePaced` (action property) | none |
| placement | `Hysteresis` | the decision, as a function | low threshold below high, mode not local |
| | `AdmittedMeetsDeadline` | the decision, as a function | the sums fit in `int32` |
| telemetry | `PolicyTypes` | `TypeOK` | none |
| | `DrainConfirmed` | `DrainIsConfirmed` | none |
| | `OneMove` | `OneMovePerObservation` | low threshold below high |
| | `OscillationNeedsLowBattery` | `NoImmediateOscillation` | low threshold below high, battery not low |
| | `RankIsNearest` | `NearestRank`, for every number of samples | none |
| estimator | `EstimateNearestRank` | `EstimateIsNearestRank` | none |
| | `EstimatorRemembers` | `Remembers`: the samples against the messages received | none |
| | `SlowEdgeRefused` | `SlowEdgeIsRefused` | deadline policy on, a profile for every known function, sums fit in `int32` |

Each hypothesis is one that some run shows to be needed (`device_late_pause`,
`device_stage_race`, `device_restage`, `host_activate_race`, `host_stale_upload`,
`policy_oscillation` for the mode and the battery) or that section 5 explains. For a
property that one of these runs violates, the theorem is the other half of the finding:
without the overlap, the replacement or the low battery that the counterexample uses,
the code keeps the promise, for every instance. `AdmissionReturns` of
`operator_lost_resume` is the exception, as a liveness property.

### Device

The invariant `Inv` is `TypeOK`, `OneTransition`, `SnapshotCurrent`, `OnlyNewer` and `Whole`.
The refinement alone is not inductive: that `Adopt` moves the persisted staged tuple
needs that the worker's copy, taken at `Load`, is still the persisted one
(`SnapshotCurrent`, true because only the worker writes the staged slot and the job
slot admits one transition, `OneTransition`). That `Commit` stages a newer
generation than the active one needs the order of everything in flight
(`OnlyNewer`): the staged tuple, the queued job, and the job that a handler has
checked but not yet queued. The last case is the subtle one: while such a handler
waits for the mutex, a running activation may promote the staged generation, so the
waiting job must also be newer than what is staged for as long as an activation is
queued. `OnlyNewer` holds of tuples written in part too: generation is the first key that
is set and the first that is erased, so whatever a setter left, what is staged is not
older than what is active. That is `GenerationAdvances`. `Whole` adds that the slots hold
published releases as long as nothing was written in part, which is what `Refinement` and
`ContractEnforced` rest on. The same race with a running *staging* is the one `device_stage_race`
exhibits: it can lower the staged generation, never the active one.

`Boundary` rests on `ClosedWhileWorking`: from the drain to the end of a transition
the gate is closed and nothing is admitted. It needs the assumption on resume,
because `sif_release_resume` opens the gate whatever the worker does.

`DeviceReleaseGuarantees` adds one strengthening per property. `PauseHeld`: an accepted
pause is in NVS, the gate is shut, and the pause flag an activation loaded agrees, so
its last steps do not lift it. Faults, resets and late resumes are all allowed: only
`pause_function` itself must not overlap, and after a boot that could not read the flag
only the flag is left, with the gate open (the property says so). `ModeFollows`: NVS and the booted mode differ
only from `SetMode` to the restart. `BytesFollow` and `CodeFollows` say which file and
which bytes each step of an activation leaves behind. The last two need
`MaxTroubles = 0`, since section 5 lists the resets that separate those steps.

Two theorems have a hypothesis on the behaviour instead of one on the constants, as what
they exclude is a race and not a fault. `StagedAdvances` supposes `StagesInTurn`, that no
`stage_release` is between its check and the mutex while another one is being staged; its
invariant `StagesNewer` says that a staging before its commit, and one that a handler has
checked, are newer than what is staged. A commit breaks it for the waiting handler and
for nothing else, which is where `StagesInTurn` comes in; resets and failed commits are
allowed. `StagedStaysActivatable` supposes `StagesIntoEmptySlot`, that a release is
staged only while no other one is; each failing staging then removes a file that no
metadata mentions (`StagedBytes`).

### Edge host

Types, and that an activation in progress has a staged module, need nothing of the
clients. The rest is one invariant, proved without overlap: there is at most one upload
and it is not past its check while an activation runs (`OneUpload`), no two names refer
to one inode (`OneName`), the temporary file holds what its upload declared and past the
check its generation is newer than both slots (`UploadConsistent`), and each slot's
module, file and metadata agree, the backup standing in for the active file during an
activation (`SlotsConsistent`). The active file may be missing after a rollback that
failed, which takes two troubles, so the invariant counts them. The consistency of a slot is not inductive alone, as
`Install` publishes metadata for a file that `Rename` put there one step earlier.
`StaleUploadsRejected` uses the last part of `UploadConsistent`: what the first critical
section found out still holds in the second one.

### Operator

What the operator knows of the device travels: the device has a release, its telemetry
says so, the bridge patches the API server, the informer shows it to the reconciler.
`Flow` says that none of these is ahead of the one before it, and that reports in
flight are ordered. The step to worry about is the bridge's merge patch, which names
only the fields in which a report differs from an old *cache*: a patched record can mix
a report with what was stored later. It stays behind the device because knowledge of the
declared generation only grows. A lost report leaves a gap in that order and nothing else.
`CommandsHeld` says the same of activations that were
sent. `Remembered` is what pacing needs: as long as the last attempt to stage is not
due, either this process still remembers it or the cache shows that no attempt is
needed. The proof follows `applyPlacement` call by call over a context, with one lemma
for each.

### Placement and telemetry

`Hysteresis` and `AdmittedMeetsDeadline` are about the decision for every record of
inputs and need no behaviour. Both hypotheses matter. Nothing in the CRD or the
controller requires `lowBatteryThreshold < highBatteryThreshold`; the controller raises a
high threshold below the low one to the low one, and with equal thresholds a battery at
that very value satisfies the low rule on the device and the high rule off it, so the
function can move at every reconcile. And a sum that leaves `int32` wraps to a negative
cost, which every deadline admits. `OscillationNeedsLowBattery` adds mode local:
while the battery is not low, the explicit mode always proposes the device, and a
function that is there stays.

The invariant of `TelemetryPolicy` relates the few numbers the bridge keeps to the log
of all messages (`Tracks`): the samples of the tracker are the last entries of the log,
of one source, function and mode and without a silence of more than a window, and each
of the last `risky` entries is drained by the definition of the property; a restart empties
it. `StatusFollows` says the same of every version of the object between the API server
and the cache: the number of risky messages it shows was drained up to *some* message
(`Honest`), the one in `upto` if its fields are of one message. A patch against an old
cache can keep an older count, so no more than that holds. The proof needs that
everything is kept oldest first (`Ordered`), for otherwise the first sample is not the
oldest one within the window.

`EstimatorProofs` has two parts. The first is about the percentile: that an order as
`Ascending` describes exists for every finite set of samples is proved by taking the
smallest size without one (the least element of a set of numbers) and adding the sample
with the greatest value to an order of the rest, so no induction principle with an
operator parameter is needed. In such an order at least `r` samples are at most the
`r`-th value and less than `r` are below it (`RankCounts`), which with `RankIsNearest`
is `EstimateIsNearestRank`.

The second is `Remembers`, the invariant that makes the samples comparable with the
messages. `Corresponds` gives for each function and mode a one-to-one map from the samples
the estimator keeps to the entries of `received` about that function that came while it was
selected, up to a window before the latest of them; `Heard` says that nothing
is counted that did not come in. A restart empties both sides. Appending and pruning alone do not show this:
`recordAndEstimate` prunes only when a message about the function comes in, so while
another function is selected samples grow older than the window and stay, and the
property has to count from the latest entry about the function and not from now. With it,
`SlowEdgeRefused` follows: if all recent round trips exceed the deadline, every sample
does, so does the percentile, and `AdmittedMeetsDeadline` leaves no soft move. It is about
the messages of one operator process; what an earlier one heard is lost. Its
hypotheses are the code's other exceptions: with the policy off every candidate is
accepted, without a profile the estimates count as unavailable and the candidate is
accepted too, and sums beyond `int32` wrap.

### What is only model-checked

- Liveness: `TransitionEnds`, `AdmissionRestored`, `ReleaseAdopted`, `HostServesEdge`,
  `BatteryShown`. Fairness and `ENABLED` are beyond the prover. Every safety property of
  the passing runs is a theorem.
- The seven runs that expect a violation, by their nature.

## 5. What does not hold, and what is left out

A boot whose load fails can put generation 0 back, run without a contract policy and open
the gate over a persisted pause. A setter that stops halfway can leave the active
generation with the digest or contract of another release. The models have both, and the
device's promises are stated up to them.

With a reset or a failed step, the device's bytes and metadata may disagree: the
download replaces the staged file before its metadata; a reset between `Promote` and
`Adopt` boots new bytes under the old tuple; a reset between the renames boots the
embedded module; `Reload` precedes a promotion that may fail. A failed command-id
write leaves the stored mode different from the booted one without a restart. These
are listed as hazards. Telemetry reports the digest of the file, so the operator can
notice; `Operator` tells releases apart by generation and does not follow this.

The stronger form of `BatteryShown`, that status shows the device's battery from some
point on, fails: telemetry that lands between a reconcile's cache read and its status
write is overwritten with the older battery, and nothing prevents that from happening
each time. A status write can also erase a stage record that the process still
remembers; there is then no timer and only the next telemetry wakes the reconciler.

Not modelled, and why:

- logging, heap measurements, JSON formats, status conditions: no property is about
  them;
- the LED and the rejection signal: output that no decision reads;
- the device's invocation path (offload attempts, battery simulation): it runs inside
  SIF's scheduler, which is not in the repository;
- the assembly of MQTT fragments and the bridge's MQTT session: a lost fragment or
  session is a lost command or report in `Operator`;
- Deployment and Service creation, several host replicas, HTTP reads of the host;
- the parts listed as `not_modelled` in `PROJECT.json`.

## 6. Extensions

Every component of section 1 that carries release or placement decisions has its module,
its runs and its proofs. What would say most next:

1. `Operator`: that `status.desired` and the last command agree with the placement that
   was decided, as an invariant, and that the device of `Operator` refines `ReleaseSlot`
   as `DeviceRelease` does.
2. `DeviceRelease`: which files and tuples can disagree after any number of faults, in
   place of `BytesMatch` without faults, and what a device does that hashes the staged
   file again before it activates it.
3. The offload of an invocation between `DeviceRelease` and `EdgeHost`, with the
   identity and generation that the device compares when the answer arrives.
