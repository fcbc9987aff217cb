------------------------------ MODULE Operator ------------------------------
(***************************************************************************)
(* The operator of one WasmFunction: the reconciler                        *)
(* (wasmfunction_controller.go), the artifact sync (artifact_sync.go), the *)
(* command publisher (mqtt_publisher.go) and the telemetry bridge          *)
(* (mqtt_telemetry.go), with the device and the edge host they drive       *)
(* reduced to what DeviceRelease and EdgeHost say about them.              *)
(*                                                                         *)
(* The reconciler and the bridge share the WasmFunction in the API server  *)
(* (store) and read it through an informer cache that lags behind.  A      *)
(* reconcile is three steps: read the cache and sync the artifact, decide  *)
(* and publish, write the status.  The device and the API server take      *)
(* steps in between.                                                       *)
(*                                                                         *)
(* A release is its generation; the digest and the function identity are   *)
(* told apart by it.  Of the age of a send only whether its retry delay    *)
(* has passed is kept (due).  telAfter stands for "lastTelemetryTime is    *)
(* after lastCommandTime", the only comparison of the two.                 *)
(*                                                                         *)
(* The WasmFunction is in auto mode with deadline admission and battery    *)
(* simulation off, so set_simulation and signal_deadline_rejection are     *)
(* never sent.                                                             *)
(***************************************************************************)
EXTENDS Placement, Sequences, FiniteSetsExt

Low == 10   \* a battery below the low threshold,
High == 80  \* and one above the high threshold

FaultKinds == {"source", "answer", "publish", "conflict", "operator", "loss", "report",
               "host"}

CONSTANTS
  MaxGen,       \* the generation of the declared release
  Starts,       \* the devices to start from: gen, mode, battery,
                \* whether it was told its thresholds, and what may go wrong
  MaxFaults,    \* bound on faults of all kinds together
  Lossy,        \* commands that may be lost between broker and device
  Failing,      \* commands whose publish may fail, and "host" for its activation
  MaxInFlight,  \* no reconcile begins with this many commands undelivered
  MaxTelemetry  \* bound on undelivered telemetry

ASSUME OperatorAssumption ==
  /\ MaxGen \in Nat \ {0}
  /\ Starts \subseteq [gen : 1..MaxGen, mode : {Local, Edge}, battery : {Low, High},
                       told : BOOLEAN, faults : SUBSET FaultKinds]
  /\ MaxFaults \in Nat
  /\ MaxInFlight \in Nat \ {0} /\ MaxTelemetry \in Nat \ {0}

VARIABLES
  store,  \* the WasmFunction in the API server
  cache,  \* the informer's copy of it
  rec,    \* the reconcile in progress
  mem,    \* releaseStageSends and releaseActivationSends
  wake,   \* the work queue: queued now, or when the retry delay has passed
  dev,    \* the device
  host,   \* the edge host's slots and the Deployment's availability
  cmds,   \* commands on their way to the device
  tel,    \* telemetry on its way to the bridge
  faults, \* the kinds that may happen, and how many more
  sent    \* history: the last stage_release this operator process published

vars == <<store, cache, rec, mem, wake, dev, host, cmds, tel, faults, sent>>

Kinds == {"stage", "thresholds", "pause", "activate", "edge", "resume"}
NoCommand == <<"", 0>>
NoStage == [gen |-> 0, due |-> FALSE]
NoActivation == [id |-> NoCommand, due |-> FALSE]

\* Mutant of TelemetryFields: the battery is left out of the patch.
ReleaseFields == {"mode", "paused", "ack", "staged"}

TelemetryFields == {"battery", "mode", "paused", "ack", "staged"}

\* A device at rest, its status up to date but for the battery; the release it
\* runs may have been superseded just now.
Init ==
  \E d \in Starts :
    /\ store = [gen |-> MaxGen, desired |-> d.mode,
                battery |-> IF d.mode = Local THEN High ELSE Low,
                mode |-> d.mode, paused |-> FALSE, ack |-> d.gen, staged |-> 0,
                telAfter |-> TRUE, cmd |-> NoCommand, cmdDue |-> FALSE, placed |-> d.mode,
                stage |-> NoStage, thresholds |-> d.told]
    /\ cache = store
    /\ rec = [pc |-> "idle"]
    /\ mem = [stage |-> NoStage, act |-> NoActivation]
    /\ wake = [queued |-> TRUE, timer |-> FALSE]
    /\ dev = [gen |-> d.gen, staged |-> 0, mode |-> d.mode, paused |-> FALSE,
              battery |-> d.battery, booting |-> FALSE]
    /\ host = [active |-> IF d.mode = Edge THEN d.gen ELSE 0,
               staged |-> IF d.mode = Edge THEN 0 ELSE d.gen, up |-> TRUE]
    /\ cmds = <<>> /\ tel = <<>>
    /\ faults = [kinds |-> d.faults, left |-> MaxFaults]
    /\ sent = NoStage

\* A fault of one kind uses up the budget of all of them.
Fault(kind) ==
  /\ kind \in faults.kinds
  /\ faults.left > 0
  /\ faults' = [faults EXCEPT !.left = @ - 1]

Wf(w) ==
  [topic |-> TRUE, mode |-> "auto", localities |-> {}, low |-> 0, high |-> 0,
   specBattery |-> Nil, thresholdPolicy |-> "unset", deadlinePolicy |-> "off",
   deltaPolicy |-> "off", maxDrain |-> 0, riskyWindows |-> 0, target |-> 0,
   minSlack |-> 0, safetyMargin |-> 0, identity |-> "f", observedFunction |-> "f",
   delta |-> Nil, risky |-> 0, gen |-> w.gen, desired |-> w.desired,
   observedMode |-> w.mode, battery |-> w.battery, ackGen |-> w.ack,
   observedDigest |-> w.ack, stagedGen |-> w.staged, stagedDigest |-> w.staged]

NoEstimate == [known |-> TRUE, available |-> FALSE]

-----------------------------------------------------------------------------
(* reconcileArtifact *)

Artifact(error, digest, active, staged, uploaded) ==
  [enabled |-> TRUE, error |-> error, digest |-> digest, hostActive |-> active,
   hostStaged |-> staged, uploaded |-> uploaded]

\* What the host makes of an upload; see EdgeHost.
HostAccepts(gen) == gen >= Max({host.active, host.staged})

Begin(art) ==
  /\ rec.pc = "idle" /\ wake.queued
  /\ Len(cmds) < MaxInFlight
  /\ wake' = [wake EXCEPT !.queued = FALSE]
  /\ rec' = [pc |-> "decide", w |-> cache, art |-> art]
  /\ UNCHANGED <<store, cache, mem, dev, cmds, tel, sent>>

\* The authoritative source cannot be read or serves another digest.
SourceError ==
  /\ Begin(Artifact("source", 0, FALSE, FALSE, FALSE))
  /\ Fault("source")
  /\ UNCHANGED host

\* The host does not answer, or refuses the upload.
HostError ==
  /\ ~host.up \/ ~HostAccepts(cache.gen)
  /\ Begin(Artifact("host", cache.gen, FALSE, FALSE, FALSE))
  /\ UNCHANGED <<host, faults>>

\* The host's answer is lost, or the artifact cannot be downloaded for the upload.
AnswerLost ==
  /\ host.up
  /\ Begin(Artifact("host", cache.gen, FALSE, FALSE, FALSE))
  /\ Fault("answer")
  /\ UNCHANGED host

\* The host already holds the release in one of its slots.
HostHolds ==
  /\ host.up
  /\ cache.gen \in {host.active, host.staged}
  /\ Begin(Artifact("", cache.gen, host.active = cache.gen, host.staged = cache.gen, FALSE))
  /\ UNCHANGED <<host, faults>>

Upload ==
  /\ host.up
  /\ cache.gen \notin {host.active, host.staged}
  /\ HostAccepts(cache.gen)
  /\ Begin(Artifact("", cache.gen, FALSE, TRUE, TRUE))
  /\ host' = [host EXCEPT !.staged = cache.gen]
  /\ UNCHANGED faults

\* The host staged the upload and the answer is lost.
UploadAnswerLost ==
  /\ host.up
  /\ cache.gen \notin {host.active, host.staged}
  /\ HostAccepts(cache.gen)
  /\ Begin(Artifact("host", cache.gen, FALSE, FALSE, FALSE))
  /\ host' = [host EXCEPT !.staged = cache.gen]
  /\ Fault("answer")

-----------------------------------------------------------------------------
(* applyPlacement: its calls, in order, on a context c of the working copy *)
(* w, the operator's memory, the host and the commands published.  f names *)
(* the call that fails, if any, and whether it took effect anyway.         *)

Send(c, kind, f) ==
  LET out == Append(c.out, [kind |-> kind, gen |-> c.w.gen])
  IN  IF f.kind = kind
      THEN [c EXCEPT !.err = TRUE, !.out = IF f.reached THEN out ELSE @]
      ELSE [c EXCEPT !.out = out]

\* The latest stage_release for this release that status or memory knows of; one
\* that is not due is later than one that is.
LastStageSend(c) ==
  LET known == {s \in {c.w.stage, c.mem.stage} : s.gen = c.w.gen}
  IN  IF known = {} THEN NoStage
      ELSE CHOOSE s \in known : \A o \in known : s.due => o.due

\* claimReleaseStageAttempt records the attempt before it is published.
ClaimReleaseStageAttempt(c) ==
  LET claim == [gen |-> c.w.gen, due |-> FALSE]
  IN  [c EXCEPT !.w.stage = claim, !.mem.stage = claim]

\* Mutant of StageDue: only the status is consulted.
StageDueByStatus(c) == c.w.stage.gen # c.w.gen \/ c.w.stage.due

\* Mutant of StageDue: a release is staged once.
StageOnce(c) == LastStageSend(c) = NoStage

StageDue(c) == LastStageSend(c) = NoStage \/ LastStageSend(c).due

ApplyReleaseStage(c, f) ==
  IF c.art.digest = 0 THEN c
  ELSE IF DeviceReleaseReady(Wf(c.w), c.art.digest)
    THEN [c EXCEPT !.mem.stage = NoStage]
  ELSE IF StageDue(c) THEN Send(ClaimReleaseStageAttempt(c), "stage", f)
  ELSE c

ApplyThresholdUpdate(c, f) ==
  IF c.err \/ c.w.thresholds THEN c
  ELSE LET s == Send(c, "thresholds", f)
       IN  IF s.err THEN s ELSE [s EXCEPT !.w.thresholds = TRUE]

CommandAwaitingNewTelemetry(w, id) == w.cmd = id /\ ~w.telAfter

\* A command that status remembers as the last one.
Track(c, id) ==
  [c EXCEPT !.w.cmd = id, !.w.cmdDue = FALSE, !.w.telAfter = FALSE, !.commanded = TRUE]

ApplyPauseCommand(c, d, f) ==
  LET id == <<"pause", c.w.gen>>
      s == Send(c, "pause", f)
  IN  IF \/ c.err
         \/ ~(d.hard /\ d.transition /\ ~d.deadline.accepted)
         \/ c.w.paused
         \/ CommandAwaitingNewTelemetry(c.w, id)
      THEN c
      ELSE IF s.err THEN s ELSE Track(s, id)

ObservedAs(c, mode) ==
  c.w.mode = mode /\ c.w.ack = c.w.gen /\ c.w.ack = c.art.digest

ShouldSkipPlacementCommand(c, id, desired, mode) ==
  LET remembered == c.mem.act.id = id /\ ~c.mem.act.due
  IN  \/ ObservedAs(c, mode)
      \/ c.w.cmd # id /\ remembered
      \/ /\ c.w.cmd = id
         /\ c.w.placed = desired
         /\ remembered \/ ~c.w.cmdDue

PlacementCommand(c, d, kind, mode, f) ==
  LET id == <<kind, c.w.gen>>
      s == Send([c EXCEPT !.mem.act = [id |-> id, due |-> FALSE]], kind, f)
      tracked == IF ~d.transition \/ d.deadline.accepted
                 THEN [s EXCEPT !.w.placed = d.desired] ELSE s
  IN  IF ShouldSkipPlacementCommand(c, id, d.desired, mode)
      THEN [c EXCEPT !.mem.act = IF ObservedAs(c, mode) THEN NoActivation ELSE @]
      ELSE IF s.err THEN s ELSE Track(tracked, id)

\* Mutant of ActivateHostRelease: only a device that is still to move asks for it.
ActivateHostReleaseForMove(c, f) ==
  IF c.w.mode # Edge /\ c.host.staged = c.w.gen
  THEN [c EXCEPT !.host.active = c.w.gen, !.host.staged = 0] ELSE c

\* activateHostRelease posts to a host that may have changed since the probe, and
\* the answer may be lost.
ActivateHostRelease(c, f) ==
  LET done == IF c.host.staged = c.w.gen
              THEN [c EXCEPT !.host.active = c.w.gen, !.host.staged = 0] ELSE c
  IN  IF \/ ~c.host.up
         \/ c.w.gen \notin {c.host.active, c.host.staged}
         \/ f = [kind |-> "host", reached |-> FALSE]
      THEN [c EXCEPT !.err = TRUE]
      ELSE [done EXCEPT !.err = f.kind = "host"]

\* Mutant of DeviceReady: the command does not wait for the device's report.
DeviceAssumedReady(c) == c.art.digest # 0

DeviceReady(c) == c.art.digest # 0 /\ DeviceReleaseReady(Wf(c.w), c.art.digest)

ApplyPlacementCommand(c, d, f) ==
  LET h == IF c.art.hostActive THEN c ELSE ActivateHostRelease(c, f)
  IN  IF c.err \/ ~DeviceReady(c) THEN c
      ELSE IF d.desired = Local THEN PlacementCommand(c, d, "activate", Local, f)
      ELSE IF ~HostReady(c.art) THEN c
      ELSE IF h.err THEN h ELSE PlacementCommand(h, d, "edge", Edge, f)

ApplyResumeCommand(c, d, f) ==
  LET id == <<"resume", c.w.gen>>
      s == Send(c, "resume", f)
  IN  IF \/ c.err
         \/ ~(c.w.paused /\ ObservedAs(c, RuntimeModeForPlacement(d.desired)))
         \/ CommandAwaitingNewTelemetry(c.w, id)
      THEN c
      ELSE IF s.err THEN s ELSE Track(s, id)

ReleaseDeliveryState(w) ==
  CASE w.ack = w.gen -> "Active"
    [] w.ack # w.gen /\ w.staged = w.gen ->
         IF w.cmd \in {<<"activate", w.gen>>, <<"edge", w.gen>>}
         THEN "AwaitingActivationAck" ELSE "Staged"
    [] OTHER -> IF w.stage.gen = w.gen THEN "AwaitingStageAck" ELSE "Pending"

\* When the reconcile asks to run again.  After an error that is soon
\* (requeueOnError); a missing acknowledgement is looked at when its retry is due
\* (requeuePendingRelease).
Requeue(w, failed) ==
  LET state == ReleaseDeliveryState(w)
      overdue == \/ state = "AwaitingStageAck" /\ w.stage.due
                 \/ state = "AwaitingActivationAck" /\ w.cmdDue
  IN  IF failed \/ overdue THEN "soon"
      ELSE IF state \in {"AwaitingStageAck", "AwaitingActivationAck"} THEN "when due"
      ELSE "no"

Context ==
  [w |-> rec.w, art |-> rec.art, mem |-> mem, host |-> host, out |-> <<>>,
   err |-> FALSE, commanded |-> FALSE]

\* What the reconcile leaves behind when it has published c.out.
Publish(c, d) ==
  /\ cmds' = cmds \o c.out
  /\ mem' = c.mem
  /\ host' = c.host
  /\ rec' = [pc |-> "status", commanded |-> c.commanded, heard |-> FALSE,
             put |-> [desired |-> d.desired, battery |-> d.battery, cmd |-> c.w.cmd,
                      cmdDue |-> c.w.cmdDue, placed |-> c.w.placed,
                      stage |-> c.w.stage, thresholds |-> c.w.thresholds],
             requeue |-> Requeue(c.w, c.err \/ rec.art.error # "")]
  /\ sent' = IF \E i \in DOMAIN c.out : c.out[i].kind = "stage"
             THEN [gen |-> rec.w.gen, due |-> FALSE] ELSE sent
  /\ UNCHANGED <<store, cache, wake, dev, tel>>

\* Decide and publish: applyPlacement's calls, each on what the one before left.
Command(f) ==
  /\ rec.pc = "decide"
  /\ IF f.kind = "" THEN UNCHANGED faults ELSE Fault("publish")
  /\ \E d \in {ApplyDestinationReadiness(
               Wf(rec.w), ResolvePlacement(Wf(rec.w), NoEstimate), rec.art, host.up)} :
     \E staged \in {ApplyReleaseStage(Context, f)} :
     \E told \in {ApplyThresholdUpdate(staged, f)} :
     \E paused \in {ApplyPauseCommand(told, d, f)} :
     \E placed \in {ApplyPlacementCommand(paused, d, f)} :
     \E c \in {ApplyResumeCommand(placed, d, f)} :
       /\ f.kind # "" => c.err
       /\ Publish(c, d)

-----------------------------------------------------------------------------
(* updateStatus and the work queue. *)

\* Between reading the cache and publishing, only a change of the host or the end
\* of the process makes a difference: every other step gives the same states when
\* it is taken before the one or after the other, and is not taken in between.
NotDeciding == rec.pc # "decide"

\* The status the reconcile writes over what the cache holds by then: its own
\* fields, and the battery it read when it began.
MergedStatus ==
  [f \in DOMAIN cache |->
     IF f \in DOMAIN rec.put THEN rec.put[f]
     ELSE IF f = "telAfter" /\ rec.commanded THEN rec.heard
     ELSE cache[f]]

\* The update carries the version the cache had: it waits for a stale cache.
UpdateStatus ==
  /\ rec.pc = "status"
  /\ cache = store
  /\ store' = MergedStatus
  /\ rec' = [pc |-> "idle"]
  /\ wake' = [queued |-> wake.queued \/ rec.requeue = "soon",
              timer |-> wake.timer \/ rec.requeue = "when due"]
  /\ UNCHANGED <<cache, mem, dev, host, cmds, tel, faults, sent>>

\* Every retry met a conflict: the status is not written, the key is queued again.
UpdateConflict ==
  /\ rec.pc = "status"
  /\ cache # store
  /\ rec' = [pc |-> "idle"]
  /\ wake' = [wake EXCEPT !.queued = TRUE]
  /\ Fault("conflict")
  /\ UNCHANGED <<store, cache, mem, dev, host, cmds, tel, sent>>

\* The informer catches up, and the change is an event for the controller.
Sync ==
  /\ NotDeciding
  /\ cache # store
  /\ cache' = store
  /\ wake' = [wake EXCEPT !.queued = TRUE]
  /\ UNCHANGED <<store, rec, mem, dev, host, cmds, tel, faults, sent>>

\* The operator process restarts: its memory is lost, everything is listed anew.
OperatorRestart ==
  /\ Fault("operator")
  /\ rec' = [pc |-> "idle"]
  /\ mem' = [stage |-> NoStage, act |-> NoActivation]
  /\ wake' = [queued |-> TRUE, timer |-> FALSE]
  /\ cache' = store
  /\ sent' = NoStage
  /\ UNCHANGED <<store, dev, host, cmds, tel>>

-----------------------------------------------------------------------------
(* The bridge: updateObservedTelemetry. *)

\* The merge patch names the fields in which the report differs from the cache;
\* the others keep what the API server has.  lastTelemetryTime is always among the
\* fields: a report that changes nothing else is an event as well.
ApplyTelemetry ==
  /\ NotDeciding
  /\ tel # <<>>
  /\ LET t == Head(tel)
     IN  store' = [f \in DOMAIN store |->
                     IF f = "telAfter" THEN TRUE
                     ELSE IF f \in TelemetryFields /\ t[f] # cache[f] THEN t[f]
                     ELSE store[f]]
  /\ tel' = Tail(tel)
  /\ wake' = [wake EXCEPT !.queued = @ \/ store' = store]
  /\ rec' = IF rec.pc = "status" THEN [rec EXCEPT !.heard = TRUE] ELSE rec
  /\ UNCHANGED <<cache, mem, dev, host, cmds, faults, sent>>

-----------------------------------------------------------------------------
(* The device and the host, as their own modules describe them, and time.  *)

Report(d) ==
  [battery |-> d.battery, mode |-> d.mode, paused |-> d.paused, ack |-> d.gen,
   staged |-> d.staged]

\* Mutant of Activated: the staged slot is not cleared.
ActivatedKeepingSlot(gen, mode) ==
  [dev EXCEPT !.gen = gen, !.mode = mode, !.booting = mode # dev.mode]

Activated(gen, mode) ==
  [dev EXCEPT !.gen = gen, !.mode = mode, !.booting = mode # dev.mode,
              !.staged = IF @ = gen THEN 0 ELSE @]

\* What the device makes of a command: its next state, equal to the present one
\* for a command it has already carried out, or nothing when it rejects it.
Handled(c) ==
  LET mode == IF c.kind = "edge" THEN Edge ELSE Local
      newest == Max({dev.gen, dev.staged})
  IN  CASE c.kind = "stage" ->
             IF c.gen < newest THEN {}
             ELSE {[dev EXCEPT !.staged = IF c.gen > newest THEN c.gen ELSE @]}
        [] c.kind \in {"activate", "edge"} ->
             IF c.gen \in {dev.gen, dev.staged} THEN {Activated(c.gen, mode)} ELSE {}
        [] c.kind = "pause" -> IF c.gen < dev.gen THEN {} ELSE {[dev EXCEPT !.paused = TRUE]}
        [] c.kind = "resume" -> IF c.gen # dev.gen THEN {} ELSE {[dev EXCEPT !.paused = FALSE]}
        [] c.kind = "thresholds" -> {}

\* A device that restarts into the other mode is not subscribed: what arrives
\* then is lost.
Deliver ==
  /\ NotDeciding
  /\ cmds # <<>>
  /\ Len(tel) < MaxTelemetry
  /\ cmds' = Tail(cmds)
  /\ LET next == IF dev.booting THEN {} ELSE Handled(Head(cmds))
     IN  IF next = {} THEN UNCHANGED <<dev, tel>>
         ELSE \E d \in next : dev' = d /\ tel' = Append(tel, Report(d))
  /\ UNCHANGED <<store, cache, rec, mem, wake, host, faults, sent>>

\* A command is lost, or rejected because a transition is in progress.
Lose ==
  /\ NotDeciding
  /\ cmds # <<>>
  /\ Head(cmds).kind \in Lossy
  /\ cmds' = Tail(cmds)
  /\ Fault("loss")
  /\ UNCHANGED <<store, cache, rec, mem, wake, dev, host, tel, sent>>

\* A report is lost: the bridge subscribes with QoS 0 and a clean session, and what
\* the broker has for it while its connection is down is gone.
LoseReport ==
  /\ NotDeciding
  /\ tel # <<>>
  /\ tel' = Tail(tel)
  /\ Fault("report")
  /\ UNCHANGED <<store, cache, rec, mem, wake, dev, host, cmds, sent>>

\* The control channel is up again and the device reports its state.
Boot ==
  /\ NotDeciding
  /\ dev.booting
  /\ Len(tel) < MaxTelemetry
  /\ dev' = [dev EXCEPT !.booting = FALSE]
  /\ tel' = Append(tel, Report(dev))
  /\ UNCHANGED <<store, cache, rec, mem, wake, host, cmds, faults, sent>>

\* An invocation reports too; a paused device runs none.
Invoke ==
  /\ NotDeciding
  /\ ~dev.paused /\ ~dev.booting
  /\ tel = <<>>
  /\ tel' = <<Report(dev)>>
  /\ UNCHANGED <<store, cache, rec, mem, wake, dev, host, cmds, faults, sent>>

\* The pod is gone with its slots; the Deployment's status is an event.
HostRestart ==
  /\ Fault("host")
  /\ host' = [active |-> 0, staged |-> 0, up |-> FALSE]
  /\ wake' = [wake EXCEPT !.queued = TRUE]
  /\ UNCHANGED <<store, cache, rec, mem, dev, cmds, tel, sent>>

HostUp ==
  /\ ~host.up
  /\ host' = [host EXCEPT !.up = TRUE]
  /\ wake' = [wake EXCEPT !.queued = TRUE]
  /\ UNCHANGED <<store, cache, rec, mem, dev, cmds, tel, faults, sent>>

Overdue(send) == IF send \in {NoStage, NoActivation} THEN send ELSE [send EXCEPT !.due = TRUE]
OverdueStatus(w) ==
  [w EXCEPT !.cmdDue = w.cmd[1] \in {"activate", "edge"},
            !.stage = IF w.gen \in {w.ack, w.staged} THEN @ ELSE Overdue(@)]

\* The retry delay passes.  A reconcile is much shorter: time passes while none
\* runs, whatever is on its way to or from the device.
Tick ==
  /\ rec.pc = "idle"
  /\ store' = OverdueStatus(store)
  /\ cache' = OverdueStatus(cache)
  /\ mem' = [stage |-> Overdue(mem.stage), act |-> Overdue(mem.act)]
  /\ sent' = Overdue(sent)
  /\ wake' = [queued |-> wake.queued \/ wake.timer, timer |-> FALSE]
  /\ UNCHANGED <<rec, dev, host, cmds, tel, faults>>

-----------------------------------------------------------------------------
NoFailure == [kind |-> "", reached |-> FALSE]

Next ==
  \/ SourceError \/ HostError \/ HostHolds \/ Upload \/ UploadAnswerLost \/ AnswerLost
  \/ Command(NoFailure)
  \/ \E f \in [kind : Failing, reached : BOOLEAN] : Command(f)
  \/ UpdateStatus \/ UpdateConflict \/ Sync \/ OperatorRestart
  \/ ApplyTelemetry
  \/ Deliver \/ Lose \/ LoseReport \/ Boot \/ Invoke
  \/ HostRestart \/ HostUp
  \/ Tick

Reconcile == HostError \/ HostHolds \/ Upload \/ Command(NoFailure) \/ UpdateStatus

\* Everything but the faults goes on.  Strong fairness where only the model gets in
\* the way: MaxTelemetry for the device, reconciles that take no time for Tick.
Fairness ==
  /\ WF_vars(Reconcile) /\ WF_vars(Sync) /\ WF_vars(ApplyTelemetry) /\ WF_vars(Invoke)
  /\ WF_vars(HostUp) /\ SF_vars(Deliver) /\ SF_vars(Boot) /\ SF_vars(Tick)

Spec == Init /\ [][Next]_vars /\ Fairness

\* NotDeciding gets in the way of three more.  What holds, holds without this; what
\* does not hold should not hold with it either.
FairSpec == Spec /\ SF_vars(Sync) /\ SF_vars(ApplyTelemetry) /\ SF_vars(Invoke)

-----------------------------------------------------------------------------
(* Properties. *)

WasmFunctions ==
  [gen : 1..MaxGen, desired : {"", Local, Edge}, battery : {Nil, Low, High},
   mode : {"", Local, Edge}, paused : BOOLEAN, ack : 0..MaxGen, staged : 0..MaxGen,
   telAfter : BOOLEAN, cmd : (Kinds \cup {""}) \X (0..MaxGen), cmdDue : BOOLEAN,
   placed : {"", Local, Edge}, thresholds : BOOLEAN,
   stage : [gen : 0..MaxGen, due : BOOLEAN]]

TypeOK ==
  /\ store \in WasmFunctions
  /\ cache \in WasmFunctions
  /\ rec.pc \in {"idle", "decide", "status"}
  /\ wake \in [queued : BOOLEAN, timer : BOOLEAN]
  /\ dev.staged = 0 \/ dev.staged > dev.gen
  /\ host.active \in 0..MaxGen /\ host.staged \in 0..MaxGen

\* No command asks the device to activate a release it has not yet reported to
\* hold: deviceReleaseReady gates applyPlacementCommand, whatever the cache missed.
ActivatesOnlyHeld ==
  \A i \in DOMAIN cmds :
    cmds[i].kind \in {"activate", "edge"} => cmds[i].gen <= Max({dev.gen, dev.staged})

\* One operator process repeats stage_release for a release only when its retry
\* delay has passed, even if it decides on a cache that missed the last attempt.
StagePaced ==
  [][\A i \in Len(cmds) + 1 .. Len(cmds') :
       cmds'[i] = [kind |-> "stage", gen |-> sent.gen]
         => sent.due]_vars

\* In the end the declared release is active on the device.
ReleaseAdopted == <>[](dev.gen = store.gen)

\* Every pause of the operator's is followed by a resume.
AdmissionReturns == []<>~dev.paused

\* In the end an edge-mode device has a host that serves its release, also after
\* the host lost its slots.
HostServesEdge == <>[](dev.mode = Edge => host.up /\ host.active = dev.gen)

\* Status shows the battery of a device that is not paused again and again, although
\* a reconcile writes back the one it began with and a merge patch leaves out what
\* an old cache already shows.
BatteryShown == []<>(dev.paused \/ store.battery = dev.battery)
=============================================================================
