------------------------------ MODULE Placement ------------------------------
(***************************************************************************)
(* The operator's placement decision: the pure functions of                *)
(* wasmfunction_controller.go, deadline_placement.go and artifact_sync.go  *)
(* that turn one WasmFunction, the latency estimates and the artifact      *)
(* state into a decision.                                                  *)
(*                                                                         *)
(* A WasmFunction is one flat record of the spec and status fields these   *)
(* functions read.  Nil is a nil *int32; an optional switch is "unset",    *)
(* "on" or "off"; a digest is the generation that declared it, 0 for none. *)
(***************************************************************************)
EXTENDS Integers

CONSTANT Int32Max  \* 2^31 - 1 in the code

ASSUME Int32Assumption == Int32Max \in Nat

Nil == -1
Local == "local"
Edge == "edge"
Hybrid == "hybrid"

\* int32 arithmetic wraps.
Int32(x) == ((x + Int32Max + 1) % (2 * (Int32Max + 1))) - Int32Max - 1

On(switch) == switch # "off"
OrDefault(value, default) == IF value > 0 THEN value ELSE default

EffectiveLow(wf) == IF wf.low = 0 THEN 20 ELSE wf.low

\* Mutant of EffectiveHigh: an unset high threshold is the low one.
HighDefaultsToLow(wf) == IF wf.high = 0 THEN EffectiveLow(wf) ELSE wf.high

EffectiveHigh(wf) ==
  LET high == IF wf.high = 0 THEN 60 ELSE wf.high
  IN  IF high < EffectiveLow(wf) THEN EffectiveLow(wf) ELSE high

BatteryPercentForPlacement(wf) ==
  IF wf.battery # Nil THEN wf.battery ELSE wf.specBattery

HasDeviceLocalResources(wf) == "device" \in wf.localities
ApplyResourceLocality(wf, p) ==
  IF p = Edge /\ HasDeviceLocalResources(wf) THEN Hybrid ELSE p
RuntimeModeForPlacement(p) == IF p = Hybrid THEN Edge ELSE p
NormalizeRetainedPlacement(p) == IF p \in {Local, Edge, Hybrid} THEN p ELSE Local

CurrentPlacement(wf) ==
  LET retained == NormalizeRetainedPlacement(wf.desired)
  IN  IF wf.desired # ""
      THEN IF retained = Hybrid /\ ~HasDeviceLocalResources(wf) THEN Edge ELSE retained
      ELSE IF wf.observedMode = Edge THEN ApplyResourceLocality(wf, Edge) ELSE Local

-----------------------------------------------------------------------------
(* What is proposed, and by which policy. *)

LowBattery(wf) ==
  LET battery == BatteryPercentForPlacement(wf)
  IN  /\ On(wf.thresholdPolicy)
      /\ CurrentPlacement(wf) = Local
      /\ battery # Nil
      /\ battery <= EffectiveLow(wf)

HighBattery(wf) ==
  /\ On(wf.thresholdPolicy)
  /\ CurrentPlacement(wf) # Local
  /\ BatteryPercentForPlacement(wf) >= EffectiveHigh(wf)

LocalBatteryDeltaForcesEdge(wf) ==
  /\ On(wf.deltaPolicy)
  /\ wf.observedMode = Local
  /\ wf.delta # Nil
  /\ ~(wf.battery # Nil /\ wf.battery >= EffectiveHigh(wf))
  /\ wf.delta >= OrDefault(wf.maxDrain, 3)
  /\ wf.risky >= OrDefault(wf.riskyWindows, 2)

Proposal(wf) ==
  LET auto == wf.mode \in {"", "auto"} /\ BatteryPercentForPlacement(wf) # Nil
      P(to, source, hard) == [to |-> to, source |-> source, hard |-> hard]
  IN  CASE LowBattery(wf) -> P(Edge, "LowBatteryThreshold", TRUE)
        [] ~LowBattery(wf) /\ wf.mode \in {Edge, Local} ->
             P(wf.mode, "ExplicitPlacement", FALSE)
        [] ~LowBattery(wf) /\ auto /\ HighBattery(wf) ->
             P(Local, "HighBatteryThreshold", FALSE)
        [] ~LowBattery(wf) /\ auto /\ ~HighBattery(wf)
             /\ LocalBatteryDeltaForcesEdge(wf) -> P(Edge, "BatteryDrain", FALSE)
        [] OTHER -> P("", "", FALSE)

-----------------------------------------------------------------------------
(* Deadline admission of a candidate. *)

\* Mutant of DeadlineCandidateCost: only the edge round trip is left out.
CostWithoutNetwork(candidate, est, margin) ==
  CASE candidate = Local -> Int32(est.queue + est.wake + est.localExec + margin)
    [] candidate \in {Edge, Hybrid} ->
         Int32(est.collect + est.edgeExec + est.apply + margin)

DeadlineCandidateCost(candidate, est, margin) ==
  CASE candidate = Local -> Int32(est.queue + est.wake + est.localExec + margin)
    [] candidate = Edge -> Int32(est.network + est.edgeExec + margin)
    [] candidate = Hybrid ->
         Int32(est.collect + est.network + est.edgeExec + est.apply + margin)

EvaluateDeadlineAdmission(wf, candidate, hard, est) ==
  LET cost == DeadlineCandidateCost(candidate, est, OrDefault(wf.safetyMargin, 250))
      slack == Int32(wf.target - cost)
      Abstain(ok, reason) ==
        [accepted |-> ok, reason |-> reason, cost |-> Nil, slack |-> Nil]
      Judge(ok, reason) ==
        [accepted |-> ok, reason |-> reason, cost |-> cost, slack |-> slack]
  IN  CASE ~On(wf.deadlinePolicy) -> Abstain(TRUE, "")
        [] OTHER ->
           IF wf.identity = "" \/ ~est.known
             THEN Abstain(hard, "FunctionIdentityUnknown")
           ELSE IF wf.observedFunction \notin {"", wf.identity}
             THEN Abstain(hard, "FunctionIdentityMismatch")
           ELSE IF wf.target <= 0 THEN Abstain(TRUE, "TargetUnavailable")
           ELSE IF ~est.available THEN Abstain(TRUE, "EstimatesUnavailable")
           ELSE IF slack >= OrDefault(wf.minSlack, 500)
             THEN Judge(TRUE, "CandidateAccepted")
           ELSE IF hard THEN Judge(TRUE, "ForcedBatteryOverride")
           ELSE Judge(FALSE, "CandidateDeadlineUnsafe")

-----------------------------------------------------------------------------
(* The decision of one reconcile. *)

ResolvePlacement(wf, est) ==
  LET current == CurrentPlacement(wf)
      proposal == Proposal(wf)
      candidate == IF proposal.to = "" THEN current
                   ELSE ApplyResourceLocality(wf, proposal.to)
      deadline == EvaluateDeadlineAdmission(wf, candidate, proposal.hard, est)
      Decision(cand, src, hard, moves, dl) ==
        [enabled |-> wf.topic, current |-> current, candidate |-> cand,
         source |-> src, hard |-> hard, transition |-> moves, deadline |-> dl,
         desired |-> IF moves /\ dl.accepted THEN cand ELSE current,
         readiness |-> "", battery |-> BatteryPercentForPlacement(wf)]
  IN  IF wf.topic
      THEN Decision(candidate, proposal.source, proposal.hard,
                    candidate # current, deadline)
      ELSE Decision("", "", FALSE, FALSE,
                    [accepted |-> FALSE, reason |-> "", cost |-> Nil, slack |-> Nil])

DeviceReleaseStaged(wf, digest) ==
  wf.stagedGen = wf.gen /\ wf.stagedDigest = digest
DeviceReleaseActive(wf, digest) ==
  /\ wf.ackGen = wf.gen
  /\ wf.observedDigest = digest
  /\ wf.observedFunction = wf.identity
DeviceReleaseReady(wf, digest) ==
  DeviceReleaseStaged(wf, digest) \/ DeviceReleaseActive(wf, digest)

\* art.digest is the resolved digest, 0 while unknown; art.hostActive and
\* art.hostStaged are hostReleaseMatches of the host's two slots.
HostReady(art) == art.hostActive \/ art.hostStaged

ApplyDestinationReadiness(wf, d, art, edgeRuntimeAvailable) ==
  LET remote == d.candidate \in {Edge, Hybrid}
      reason ==
        IF remote /\ ~edgeRuntimeAvailable THEN "RuntimeUnavailable"
        ELSE IF remote /\ ~HostReady(art) THEN "HostStagePending"
        ELSE "DeviceStagePending"
      ready == /\ DeviceReleaseReady(wf, art.digest)
               /\ remote => HostReady(art) /\ edgeRuntimeAvailable
  IN  IF ~d.transition THEN [d EXCEPT !.readiness = "CurrentPlacementActivation"]
      ELSE IF ready THEN [d EXCEPT !.readiness = "DestinationReady"]
      ELSE [d EXCEPT !.readiness = reason, !.desired = d.current,
                     !.deadline.accepted = FALSE]
==============================================================================
