--------------------------- MODULE TelemetryPolicy ---------------------------
(***************************************************************************)
(* What the telemetry bridge derives from device telemetry: the rolling    *)
(* battery drain (mqtt_telemetry.go) and the latency estimates             *)
(* (deadline_estimator.go), both in the operator's memory, and the status  *)
(* fields that the placement decision reads.                               *)
(*                                                                         *)
(* The operator reads the WasmFunction from an informer cache that lags    *)
(* behind the API server, and its merge patch names only the fields in     *)
(* which it differs from the cached object.  A restart of the operator     *)
(* loses its memory; the object stays.                                     *)
(*                                                                         *)
(* Times are ages in units of the model; Pass lets time pass between two   *)
(* messages.  The logs of messages are there to state what the             *)
(* incrementally kept numbers should be.                                   *)
(***************************************************************************)
EXTENDS Placement, FiniteSets, Sequences, SequencesExt

CONSTANTS
  Messages,     \* telemetry payloads: battery, mode, source, function, timings
  Functions,    \* identities spec.release may select
  Profiles,     \* deadline profiles by identity, a function on some Functions
  KnownFunctions, \* knownFunctionIdentities
  Gaps,         \* how much time may pass between two steps
  DrainWindow, EstimatorWindow,  \* the two windows, in the same unit
  MinSamples, Percentile,        \* of the estimator
  Policy,       \* the rest of the WasmFunction's spec
  MaxMessages,  \* bound on the length of the log
  MaxLag,       \* bound on the versions the informer cache is behind
  MaxFaults     \* bound on restarts of the operator and failed patches

Modes == {Local, Edge}

\* A telemetry message: Nil where a number is missing, "" where a string is.
Payloads ==
  [battery : Int, mode : {""} \cup Modes, source : STRING, function : STRING,
   exec : Int, queue : Int, wake : Int, edgeExec : Int, network : Int,
   collect : Int, apply : Int]

ASSUME PolicyAssumption ==
  /\ DrainWindow \in Nat \ {0} /\ EstimatorWindow \in Nat \ {0}
  /\ MinSamples \in Nat \ {0} /\ Percentile \in 1..100
  /\ KnownFunctions \subseteq Functions
  /\ Messages \subseteq Payloads /\ Gaps \subseteq Nat
  /\ MaxMessages \in Nat /\ MaxLag \in Nat /\ MaxFaults \in Nat
  /\ Policy.low \in Int /\ Policy.high \in Int /\ Policy.specBattery \in Int
  /\ Policy.maxDrain \in Int /\ Policy.riskyWindows \in Int

VARIABLES
  versions, \* the WasmFunction from the informer cache's version to the newest
  drain,    \* batteryDrainState of this resource
  samples,  \* the estimator's samples by function and mode
  log,      \* every message applied, with its age
  received, \* those of them that this operator process applied
  faults

vars == <<versions, drain, samples, log, received, faults>>

\* A version has spec.release.functionIdentity and the status fields that telemetry
\* writes.  (upto is history: after how many messages all of them are what that
\* message said; 0 when an older cache left some of another message.)
cached == versions[1]
stored == versions[Len(versions)]
identity == cached.identity

Metrics == {"localExec", "queue", "wake", "edgeExec", "network", "collect", "apply"}
NoDrain == [source |-> "", function |-> "", mode |-> "", silent |-> Nil,
            seen |-> <<>>, risky |-> 0]
NoSamples == [f \in Functions |-> [m \in Modes |-> <<>>]]

Init ==
  /\ \E f \in Functions :
       versions = <<[identity |-> f, battery |-> Nil, observedMode |-> "", source |-> "",
                     observedFunction |-> "", delta |-> Nil, risky |-> 0, upto |-> 0]>>
  /\ drain = NoDrain
  /\ samples = NoSamples
  /\ log = <<>>
  /\ received = <<>>
  /\ faults = 0

Works == UNCHANGED faults
Fails == faults < MaxFaults /\ faults' = faults + 1

\* The WasmFunction a reconcile reads, from the cache.
Wf ==
  [topic |-> Policy.topic, mode |-> Policy.mode, desired |-> Policy.desired,
   localities |-> Policy.localities, low |-> Policy.low, high |-> Policy.high,
   specBattery |-> Policy.specBattery, thresholdPolicy |-> Policy.thresholdPolicy,
   deadlinePolicy |-> Policy.deadlinePolicy, deltaPolicy |-> Policy.deltaPolicy,
   maxDrain |-> Policy.maxDrain, riskyWindows |-> Policy.riskyWindows,
   target |-> Policy.target, minSlack |-> Policy.minSlack,
   safetyMargin |-> Policy.safetyMargin, identity |-> identity,
   battery |-> cached.battery, observedMode |-> cached.observedMode,
   observedFunction |-> cached.observedFunction, delta |-> cached.delta,
   risky |-> cached.risky]

\* The samples that are not older than window.  They are kept oldest first, so
\* the ones that go are at the front.
WithinWindow(seq, window) ==
  LET expired == CHOOSE k \in 0..Len(seq) :
                   \A i \in DOMAIN seq : seq[i].age > window <=> i <= k
  IN  SubSeq(seq, expired + 1, Len(seq))

-----------------------------------------------------------------------------
(* applyBatteryTelemetry *)

Timings == {"exec", "queue", "wake", "edgeExec", "network", "collect", "apply"}

\* A payload as it is applied: the battery is a percentage, and a timing that is
\* there is not negative.
Decoded(raw) ==
  [f \in DOMAIN raw |->
     CASE f = "battery" -> IF raw[f] < 0 THEN 0 ELSE IF raw[f] > 100 THEN 100 ELSE raw[f]
       [] f \in Timings -> IF raw[f] < 0 /\ raw[f] # Nil THEN 0 ELSE raw[f]
       [] OTHER -> raw[f]]

-----------------------------------------------------------------------------
(* updateBatteryDeltaStatus *)

LatestTelemetryMode(msg) == IF msg.mode # "" THEN msg.mode ELSE cached.observedMode

SourceOf(msg) == IF msg.source # "" THEN msg.source ELSE cached.source
FunctionOf(msg) == IF msg.function # "" THEN msg.function ELSE identity

\* Mutant of TrackerFor: samples of another source or function are kept.
TrackerAcrossSources(msg) ==
  LET same == drain.mode = LatestTelemetryMode(msg) /\ drain.silent \in 0..DrainWindow
  IN  [(IF same THEN drain ELSE NoDrain) EXCEPT !.source = SourceOf(msg),
         !.function = FunctionOf(msg), !.mode = LatestTelemetryMode(msg), !.silent = 0]

\* Drain observations start over when their source, function or mode changes
\* or when telemetry paused for more than a window.
TrackerFor(msg) ==
  LET fresh == [NoDrain EXCEPT !.source = SourceOf(msg), !.function = FunctionOf(msg),
                               !.mode = LatestTelemetryMode(msg)]
      continues == /\ drain.silent \in 0..DrainWindow
                   /\ [fresh EXCEPT !.silent = drain.silent, !.seen = drain.seen,
                                    !.risky = drain.risky] = drain
  IN  [(IF continues THEN drain ELSE fresh) EXCEPT !.silent = 0]

\* Mutant of DrainDelta: a battery that recovers drains by a negative amount.
SignedDelta(first, now) == first - now

DrainDelta(first, now) == IF first < now THEN 0 ELSE first - now

\* The tracker after msg and the delta it reports, Nil with fewer than two samples.
UpdateBatteryDelta(msg) ==
  LET t == TrackerFor(msg)
      low == IF Policy.low = 0 THEN 20 ELSE Policy.low
      high == IF Policy.high = 0 THEN 60 ELSE Policy.high
      applicable == t.mode = Local /\ msg.battery > low /\ msg.battery < high
      kept == WithinWindow(t.seen, DrainWindow)
      seen == Append(kept, [age |-> 0, battery |-> msg.battery])
      delta == DrainDelta(seen[1].battery, msg.battery)
  IN  IF ~On(Policy.deltaPolicy) THEN [tracker |-> NoDrain, delta |-> Nil]
      ELSE IF ~applicable
        THEN [tracker |-> [t EXCEPT !.seen = <<>>, !.risky = 0], delta |-> Nil]
      ELSE IF Len(seen) < 2
        THEN [tracker |-> [t EXCEPT !.seen = seen, !.risky = 0], delta |-> Nil]
      ELSE [tracker |-> [t EXCEPT !.seen = seen,
                           !.risky = IF delta >= OrDefault(Policy.maxDrain, 3)
                                     THEN t.risky + 1 ELSE 0],
            delta |-> delta]

-----------------------------------------------------------------------------
(* The deadline estimator. *)

SampleFromTelemetry(msg) ==
  LET none == [m \in Metrics |-> Nil]
  IN  CASE msg.mode = Local ->
             [none EXCEPT !.localExec = msg.exec, !.queue = msg.queue, !.wake = msg.wake]
        [] msg.mode = Edge ->
             [none EXCEPT !.edgeExec = IF msg.edgeExec = Nil /\ msg.network = Nil
                                       THEN msg.exec ELSE msg.edgeExec,
                          !.network = msg.network, !.collect = msg.collect,
                          !.apply = msg.apply]
        [] OTHER -> none

HasDeadlineValue(sample) == \E m \in Metrics : sample[m] # Nil

\* Samples are filed under the selected function, and only when the message is
\* about it; then everything of that function older than the window goes.
RecordSample(msg) ==
  LET sample == SampleFromTelemetry(msg)
      Filed(f, m) ==
        IF f = identity /\ m = msg.mode /\ HasDeadlineValue(sample)
        THEN Append(samples[f][m], [age |-> 0, value |-> sample])
        ELSE samples[f][m]
  IN  IF msg.function \notin {"", identity} THEN samples
      ELSE [f \in Functions |->
              IF f # identity THEN samples[f]
              ELSE [m \in Modes |-> WithinWindow(Filed(f, m), EstimatorWindow)]]

\* Mutant of NearestRank: the rank is rounded down.
RankRoundedDown(n) == IF Percentile * n < 100 THEN 1 ELSE (Percentile * n) \div 100

NearestRank(n) ==
  LET rank == (Percentile * n + 99) \div 100
  IN  IF rank < 1 THEN 1 ELSE IF rank > n THEN n ELSE rank

\* The samples that report metric.
Present(seq, metric) == {i \in DOMAIN seq : seq[i].value[metric] >= 0}

\* sort.Slice: an order of those samples in which what they report never decreases.
Ascending(seq, metric) ==
  LET present == Present(seq, metric)
      n == Cardinality(present)
  IN  CHOOSE order \in [1..n -> present] :
        \A i, j \in 1..n : i < j =>
          /\ order[i] # order[j]
          /\ seq[order[i]].value[metric] <= seq[order[j]].value[metric]

\* estimateDeadlinePercentile: the values present, sorted, at the nearest rank.
EstimateDeadlinePercentile(seq, metric, fallback) ==
  LET n == Cardinality(Present(seq, metric))
  IN  IF n < MinSamples THEN fallback
      ELSE seq[Ascending(seq, metric)[NearestRank(n)]].value[metric]

ModeOf(metric) == IF metric \in {"localExec", "queue", "wake"} THEN Local ELSE Edge

Unavailable ==
  [known |-> identity \in KnownFunctions, available |-> FALSE,
   localExec |-> 0, queue |-> 0, wake |-> 0, edgeExec |-> 0, network |-> 0,
   collect |-> 0, apply |-> 0]

\* profileEstimate: the profile, with the overrides of spec.placement.deadline.
Fallback(metric) ==
  IF metric \in DOMAIN Policy.fallback
  THEN OrDefault(Policy.fallback[metric], Profiles[identity][metric])
  ELSE Profiles[identity][metric]

Estimate ==
  LET Of(m) == EstimateDeadlinePercentile(samples[identity][ModeOf(m)], m, Fallback(m))
  IN  IF identity \notin DOMAIN Profiles THEN Unavailable
      ELSE [known |-> TRUE, available |-> TRUE,
            localExec |-> Of("localExec"), queue |-> Of("queue"), wake |-> Of("wake"),
            edgeExec |-> Of("edgeExec"), network |-> Of("network"),
            collect |-> Of("collect"), apply |-> Of("apply")]

-----------------------------------------------------------------------------
(* Steps. *)

Older(seq, d) == [i \in DOMAIN seq |-> [seq[i] EXCEPT !.age = @ + d]]

\* The status fields as msg has them, where it has them.
Shown(msg, update) ==
  [battery |-> msg.battery, observedMode |-> LatestTelemetryMode(msg),
   source |-> SourceOf(msg),
   observedFunction |-> IF msg.function # "" THEN msg.function ELSE cached.observedFunction,
   delta |-> update.delta, risky |-> update.tracker.risky]

\* The stored object after a merge patch of the fields that msg changes in the
\* cached one.
Patched(msg, update) ==
  LET shown == Shown(msg, update)
      Merged(f) == IF shown[f] # cached[f] THEN shown[f] ELSE stored[f]
      whole == \A f \in DOMAIN shown : Merged(f) = shown[f]
  IN  [identity |-> stored.identity,
       battery |-> Merged("battery"), observedMode |-> Merged("observedMode"),
       source |-> Merged("source"), observedFunction |-> Merged("observedFunction"),
       delta |-> Merged("delta"), risky |-> Merged("risky"),
       upto |-> IF whole THEN Len(log) + 1 ELSE 0]

\* A telemetry message is applied: updateObservedTelemetry.  One without a battery
\* is refused.  The patch comes last, and it may fail.
Apply(raw) ==
  /\ Len(log) < MaxMessages
  /\ Len(versions) <= MaxLag
  /\ raw.battery # Nil
  /\ \E msg \in {Decoded(raw)} : \E update \in {UpdateBatteryDelta(msg)} :
       \E entry \in {[age |-> 0, msg |-> msg, mode |-> LatestTelemetryMode(msg),
                      source |-> SourceOf(msg), function |-> FunctionOf(msg),
                      selected |-> identity]} :
         /\ drain' = update.tracker
         /\ samples' = RecordSample(msg)
         /\ \/ Works /\ versions' = Append(versions, Patched(msg, update))
            \/ Fails /\ UNCHANGED versions
         /\ log' = Append(log, entry)
         /\ received' = Append(received, entry)

\* The watch delivers the next version to the informer cache.
Watch ==
  /\ Len(versions) > 1
  /\ versions' = Tail(versions)
  /\ UNCHANGED <<drain, samples, log, received, faults>>

\* d units of time go by.  (Two in a row are one longer gap.)
Pass(d) ==
  /\ log # <<>> /\ Last(log).age = 0
  /\ Len(log) < MaxMessages
  /\ log' = Older(log, d)
  /\ received' = Older(received, d)
  /\ drain' = [drain EXCEPT !.silent = IF @ = Nil THEN Nil ELSE @ + d, !.seen = Older(@, d)]
  /\ samples' = [f \in Functions |-> [m \in Modes |-> Older(samples[f][m], d)]]
  /\ UNCHANGED <<versions, faults>>

\* The user selects another function.  (Time passes after it, not before.)
Select(f) ==
  /\ f # stored.identity
  /\ log # <<>> => Last(log).age = 0
  /\ Len(log) < MaxMessages
  /\ Len(versions) <= MaxLag
  /\ versions' = Append(versions, [stored EXCEPT !.identity = f])
  /\ UNCHANGED <<drain, samples, log, received, faults>>

\* The operator starts again: the estimator and the drain tracker are empty, the
\* cache is filled from the API server before the bridge begins.
Restart ==
  /\ received # <<>>
  /\ Fails
  /\ versions' = <<stored>>
  /\ drain' = NoDrain
  /\ samples' = NoSamples
  /\ received' = <<>>
  /\ UNCHANGED log

Next ==
  \/ \E msg \in Messages : Apply(msg)
  \/ \E d \in Gaps : Pass(d)
  \/ \E f \in Functions : Select(f)
  \/ Watch
  \/ Restart

Spec == Init /\ [][Next]_vars

-----------------------------------------------------------------------------
(* Properties. *)

TypeOK ==
  /\ versions # <<>>
  /\ \A i \in DOMAIN versions :
       /\ versions[i].identity \in Functions
       /\ versions[i].battery \in {Nil} \cup 0..100
       /\ versions[i].observedMode \in {""} \cup Modes
       /\ versions[i].risky \in 0..MaxMessages
       /\ versions[i].delta \in {Nil} \cup 0..100
  /\ drain.mode \in {""} \cup Modes
  /\ \A f \in Functions, m \in Modes : \A i \in DOMAIN samples[f][m] :
       samples[f][m][i].value \in [Metrics -> Int]

\* estimateDeadlinePercentile returns the nearest-rank percentile: a value that
\* was reported, with at least Percentile percent of the reported values at or
\* below it and fewer than that below it; the fallback below MinSamples.
EstimateIsNearestRank ==
  identity \in DOMAIN Profiles => \A m \in Metrics :
    LET seq == samples[identity][ModeOf(m)]
        present == {i \in DOMAIN seq : seq[i].value[m] # Nil}
        n == Cardinality(present)
        Share(S) == 100 * Cardinality(S)
        e == EstimateDeadlinePercentile(seq, m, Fallback(m))
    IN  IF n < MinSamples THEN e = Fallback(m)
        ELSE /\ \E i \in present : seq[i].value[m] = e
             /\ Share({i \in present : seq[i].value[m] <= e}) >= Percentile * n
             /\ Share({i \in present : seq[i].value[m] < e}) < Percentile * n

\* From entry j to entry i of a log no mode, source or function changes, the
\* device is in local mode and never silent for more than a window.
Continuous(entries, j, i) ==
  \A k \in j..i - 1 :
    /\ entries[k].age - entries[k + 1].age <= DrainWindow
    /\ entries[k].mode = Local /\ entries[k + 1].mode = Local
    /\ entries[k].source = entries[k + 1].source
    /\ entries[k].function = entries[k + 1].function

\* Entry i came with a battery between the thresholds and maxDrain below that of
\* an earlier entry at most a window older.
Drained(entries, i) ==
  /\ entries[i].msg.battery > EffectiveLow(Policy)
  /\ entries[i].msg.battery < EffectiveHigh(Policy)
  /\ \E j \in 1..i - 1 :
       /\ Continuous(entries, j, i)
       /\ entries[j].age - entries[i].age <= DrainWindow
       /\ entries[j].msg.battery - entries[i].msg.battery >= OrDefault(Policy.maxDrain, 3)

\* Drain proposes the edge only when riskyWindows messages in a row, none after
\* message n, came in local mode between the thresholds and each was maxDrain below
\* an earlier one that is at most a window older, with no change of mode, source or
\* function and no silence of more than a window in between.  Message n is the last
\* one the cached status shows, unless a patch against an older cache left in it what
\* an earlier message had reported.
DrainIsConfirmed ==
  LocalBatteryDeltaForcesEdge(Wf) =>
    \E n \in DOMAIN log :
      /\ cached.upto # 0 => n = cached.upto
      /\ \A i \in n - OrDefault(Policy.riskyWindows, 2) + 1 .. n : i > 0 /\ Drained(log, i)

Placements == {"", Local, Edge, Hybrid}

\* The WasmFunction with the current telemetry in another mode or with another
\* accepted placement or resource contract.
Candidate(mode, desired, loc) ==
  [Wf EXCEPT !.mode = mode, !.desired = desired, !.localities = loc]
Contracts == {{}, {"device"}}

\* Two reconciles on the same telemetry choose the same placement.
Settled(modes) ==
  \A est \in {Estimate}, mode \in modes, loc \in Contracts :
    \A chosen \in {[p \in Placements |->
                      ResolvePlacement(Candidate(mode, p, loc), est).desired]} :
      \A p \in Placements : chosen[chosen[p]] = chosen[p]

\* Hysteresis: in auto and edge mode, once a decision is taken the same telemetry
\* does not move the function again at the next reconcile.
OneMovePerObservation == Settled({"auto", Edge})

\* A soft move off the device is refused when every edge invocation of the
\* selected function that this operator process heard of within a window of the
\* latest message about it used up the whole deadline on the network alone.  What
\* the process before a restart heard does not count: the profile stands in again.
SlowEdgeIsRefused ==
  LET counted == {i \in DOMAIN received : /\ received[i].function = identity
                                         /\ received[i].selected = identity}
      recent == {i \in counted : /\ received[i].msg.mode = Edge
                                 /\ received[i].msg.network # Nil
                                 /\ \A k \in counted :
                                      received[i].age - received[k].age <= EstimatorWindow}
      est == Estimate
  IN  /\ Cardinality(recent) >= MinSamples
      /\ \A i \in recent : received[i].msg.network >= Policy.target
      => \A mode \in {"auto", Edge}, p \in Placements, loc \in Contracts :
           LET d == ResolvePlacement(Candidate(mode, p, loc), est)
           IN  d.transition /\ d.candidate # Local /\ ~d.hard => d.desired = d.current

\* "Battery threshold hysteresis prevents immediate oscillation", for all three
\* values of spec.placement.mode.
NoImmediateOscillation == Settled({"auto", Edge, Local})
=============================================================================
