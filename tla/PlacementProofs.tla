--------------------------- MODULE PlacementProofs ---------------------------
(***************************************************************************)
(* Theorems about the placement decision as a function, for every          *)
(* WasmFunction and every estimate: it settles after one move, and what    *)
(* it admits meets the deadline.                                           *)
(***************************************************************************)
EXTENDS Placement, TLAPS

\* Two WasmFunctions that differ at most in the accepted placement.
SameButDesired(a, b) ==
  /\ a.topic = b.topic /\ a.mode = b.mode /\ a.localities = b.localities
  /\ a.low = b.low /\ a.high = b.high /\ a.specBattery = b.specBattery
  /\ a.thresholdPolicy = b.thresholdPolicy /\ a.deadlinePolicy = b.deadlinePolicy
  /\ a.deltaPolicy = b.deltaPolicy
  /\ a.maxDrain = b.maxDrain /\ a.riskyWindows = b.riskyWindows
  /\ a.target = b.target /\ a.minSlack = b.minSlack
  /\ a.safetyMargin = b.safetyMargin /\ a.identity = b.identity
  /\ a.battery = b.battery /\ a.observedMode = b.observedMode
  /\ a.observedFunction = b.observedFunction
  /\ a.delta = b.delta /\ a.risky = b.risky

\* What hysteresis needs of a WasmFunction: the low threshold in effect lies
\* strictly below the high one, and a drain comes with the battery it was
\* computed from.
Hysteretic(wf) ==
  /\ wf.low \in Int /\ wf.high \in Int
  /\ wf.battery \in Int /\ wf.specBattery \in Int
  /\ EffectiveLow(wf) < EffectiveHigh(wf)
  /\ wf.delta # Nil => wf.battery # Nil

-----------------------------------------------------------------------------
(* The retained placement. *)

LEMMA CurrentIsPlacement ==
  ASSUME NEW wf
  PROVE  /\ CurrentPlacement(wf) \in {Local, Edge, Hybrid}
         /\ CurrentPlacement(wf) = Hybrid => HasDeviceLocalResources(wf)
BY DEF CurrentPlacement, NormalizeRetainedPlacement, ApplyResourceLocality,
       Local, Edge, Hybrid

\* A placement the resource contract allows is read back as it was accepted.
LEMMA AcceptedIsRetained ==
  ASSUME NEW wf, NEW p \in {Local, Edge, Hybrid}, wf.desired = p,
         p = Hybrid => HasDeviceLocalResources(wf)
  PROVE  CurrentPlacement(wf) = p
BY DEF CurrentPlacement, NormalizeRetainedPlacement, Local, Edge, Hybrid

LEMMA LocalityAllows ==
  ASSUME NEW wf, NEW p \in {Local, Edge}
  PROVE  /\ ApplyResourceLocality(wf, p) \in {Local, Edge, Hybrid}
         /\ ApplyResourceLocality(wf, p) = Hybrid => HasDeviceLocalResources(wf)
         /\ ApplyResourceLocality(wf, p) = Local <=> p = Local
BY DEF ApplyResourceLocality, Local, Edge, Hybrid

LEMMA ProposalShape ==
  ASSUME NEW wf
  PROVE  /\ Proposal(wf).to \in {"", Local, Edge}
         /\ Proposal(wf).to = Local =>
              wf.mode = Local \/ (wf.mode \in {"", "auto"} /\ HighBattery(wf))
         /\ Proposal(wf).hard => LowBattery(wf)
<1>1. CASE LowBattery(wf)
  BY <1>1 DEF Proposal, Local, Edge
<1>2. CASE ~LowBattery(wf) /\ wf.mode \in {Edge, Local}
  BY <1>2 DEF Proposal, Local, Edge
<1>3. CASE ~LowBattery(wf) /\ wf.mode \notin {Edge, Local}
  BY <1>3 DEF Proposal, Local, Edge
<1>4. QED
  BY <1>1, <1>2, <1>3

\* Which placement a decision leaves: the current one, or a different candidate
\* that was admitted.
LEMMA DecisionShape ==
  ASSUME NEW wf, NEW est
  PROVE  LET d == ResolvePlacement(wf, est)
             to == Proposal(wf).to
             cand == ApplyResourceLocality(wf, to)
         IN  /\ d.current = CurrentPlacement(wf)
             /\ d.desired \in {Local, Edge, Hybrid}
             /\ d.desired = Hybrid => HasDeviceLocalResources(wf)
             /\ d.desired # CurrentPlacement(wf) =>
                  /\ wf.topic /\ to \in {Local, Edge}
                  /\ d.desired = cand /\ d.candidate = cand
                  /\ d.hard = Proposal(wf).hard
                  /\ EvaluateDeadlineAdmission(wf, cand, Proposal(wf).hard, est).accepted
             /\ wf.topic /\ to = "" => d.desired = CurrentPlacement(wf)
<1> DEFINE cur == CurrentPlacement(wf)
           to == Proposal(wf).to
           hard == Proposal(wf).hard
           cand == ApplyResourceLocality(wf, to)
           ok == EvaluateDeadlineAdmission(wf, cand, hard, est).accepted
           d == ResolvePlacement(wf, est)
<1>1. cur \in {Local, Edge, Hybrid} /\ (cur = Hybrid => HasDeviceLocalResources(wf))
  BY CurrentIsPlacement
<1>2. to \in {"", Local, Edge}
  BY ProposalShape
<1>3. CASE ~wf.topic
  <2>1. d.desired = cur /\ d.current = cur
    BY <1>3 DEF ResolvePlacement
  <2>2. QED
    BY <2>1, <1>1, <1>3
<1>4. CASE wf.topic /\ to = ""
  <2>1. d.desired = cur /\ d.current = cur
    BY <1>4 DEF ResolvePlacement
  <2>2. QED
    BY <2>1, <1>1, <1>4
<1>5. CASE wf.topic /\ to \in {Local, Edge}
  <2>1. to # ""
    BY <1>5 DEF Local, Edge
  <2>2. /\ d.desired = IF cand # cur /\ ok THEN cand ELSE cur
        /\ d.current = cur /\ d.candidate = cand /\ d.hard = hard
    BY <1>5, <2>1 DEF ResolvePlacement
  <2>3. cand \in {Local, Edge, Hybrid} /\ (cand = Hybrid => HasDeviceLocalResources(wf))
    BY <1>5, LocalityAllows
  <2>4. QED
    BY <1>1, <1>5, <2>1, <2>2, <2>3
<1>6. QED
  BY <1>2, <1>3, <1>4, <1>5
-----------------------------------------------------------------------------
(* Hysteresis. *)

\* Apart from the current placement, the decision does not read wf.desired.
LEMMA SameInputs ==
  ASSUME NEW wf, NEW w, NEW est, SameButDesired(wf, w)
  PROVE  /\ HasDeviceLocalResources(w) = HasDeviceLocalResources(wf)
         /\ BatteryPercentForPlacement(w) = BatteryPercentForPlacement(wf)
         /\ EffectiveLow(w) = EffectiveLow(wf) /\ EffectiveHigh(w) = EffectiveHigh(wf)
         /\ LocalBatteryDeltaForcesEdge(w) = LocalBatteryDeltaForcesEdge(wf)
         /\ \A p : ApplyResourceLocality(w, p) = ApplyResourceLocality(wf, p)
<1>1. HasDeviceLocalResources(w) = HasDeviceLocalResources(wf)
  BY DEF SameButDesired, HasDeviceLocalResources
<1>2. BatteryPercentForPlacement(w) = BatteryPercentForPlacement(wf)
  BY DEF SameButDesired, BatteryPercentForPlacement
<1>3. EffectiveLow(w) = EffectiveLow(wf)
  BY DEF SameButDesired, EffectiveLow
<1>4. EffectiveHigh(w) = EffectiveHigh(wf)
  BY <1>3 DEF SameButDesired, EffectiveHigh
<1>5. LocalBatteryDeltaForcesEdge(w) = LocalBatteryDeltaForcesEdge(wf)
  BY <1>4 DEF SameButDesired, LocalBatteryDeltaForcesEdge
<1>6. \A p : ApplyResourceLocality(w, p) = ApplyResourceLocality(wf, p)
  BY <1>1 DEF ApplyResourceLocality
<1>7. QED
  BY <1>1, <1>2, <1>3, <1>4, <1>5, <1>6

LEMMA SameDecision ==
  ASSUME NEW wf, NEW w, NEW est, SameButDesired(wf, w),
         CurrentPlacement(w) = CurrentPlacement(wf)
  PROVE  ResolvePlacement(w, est).desired = ResolvePlacement(wf, est).desired
<1>1. LowBattery(w) = LowBattery(wf)
  BY SameInputs DEF LowBattery, SameButDesired
<1>2. HighBattery(w) = HighBattery(wf)
  BY SameInputs DEF HighBattery, SameButDesired
<1>3. Proposal(w) = Proposal(wf)
  BY <1>1, <1>2, SameInputs DEF Proposal, SameButDesired
<1>4. \A c, h : EvaluateDeadlineAdmission(w, c, h, est)
              = EvaluateDeadlineAdmission(wf, c, h, est)
  BY DEF EvaluateDeadlineAdmission, SameButDesired
<1>5. w.topic = wf.topic
  BY DEF SameButDesired
<1>6. \A p : ApplyResourceLocality(w, p) = ApplyResourceLocality(wf, p)
  BY SameInputs
<1>7. QED
  BY <1>3, <1>4, <1>5, <1>6 DEF ResolvePlacement

\* The battery cannot be at the low threshold and at the high one at once.
LEMMA ThresholdsApart ==
  ASSUME NEW wf, Hysteretic(wf)
  PROVE  LET b == BatteryPercentForPlacement(wf)
         IN  ~(b <= EffectiveLow(wf) /\ b >= EffectiveHigh(wf))
<1>1. BatteryPercentForPlacement(wf) \in Int
  BY DEF Hysteretic, BatteryPercentForPlacement
<1>2. EffectiveLow(wf) \in Int
  BY DEF Hysteretic, EffectiveLow
<1>3. EffectiveHigh(wf) \in Int
  BY <1>2 DEF Hysteretic, EffectiveHigh
<1>4. EffectiveLow(wf) < EffectiveHigh(wf)
  BY DEF Hysteretic
<1>5. QED
  BY <1>1, <1>2, <1>3, <1>4

\* Once a decision has been accepted, the same telemetry does not move the
\* function again.
LEMMA DecisionSettles ==
  ASSUME NEW wf, NEW w, NEW est, SameButDesired(wf, w), Hysteretic(wf),
         wf.mode # Local, w.desired = ResolvePlacement(wf, est).desired
  PROVE  ResolvePlacement(w, est).desired = w.desired
<1> DEFINE cur == CurrentPlacement(wf)
           to == Proposal(wf).to
           d == ResolvePlacement(wf, est)
<1>1. /\ d.desired \in {Local, Edge, Hybrid}
      /\ d.desired = Hybrid => HasDeviceLocalResources(wf)
      /\ d.desired # cur => /\ wf.topic /\ to \in {Local, Edge}
                            /\ d.desired = ApplyResourceLocality(wf, to)
  BY DecisionShape
<1>2. HasDeviceLocalResources(w) = HasDeviceLocalResources(wf)
  BY SameInputs
<1>3. CurrentPlacement(w) = d.desired
  BY <1>1, <1>2, AcceptedIsRetained
<1>4. CASE d.desired = cur
  BY <1>3, <1>4, SameDecision
<1>5. CASE d.desired # cur
  <2>1. \/ ResolvePlacement(w, est).desired = w.desired
        \/ /\ Proposal(w).to \in {Local, Edge}
           /\ ResolvePlacement(w, est).desired = ApplyResourceLocality(w, Proposal(w).to)
    BY <1>3, DecisionShape
  <2>2. w.mode = wf.mode
    BY DEF SameButDesired
  <2>3. CASE to = Local
    <3>1. wf.mode \in {"", "auto"} /\ HighBattery(wf)
      BY <2>3, ProposalShape
    <3>2. d.desired = Local
      BY <1>1, <1>5, <2>3, LocalityAllows
    <3>3. ~LowBattery(w)
      BY <3>1, ThresholdsApart, SameInputs DEF LowBattery, HighBattery
    <3>4. ~HighBattery(w)
      BY <1>3, <3>2 DEF HighBattery
    <3>5. ~LocalBatteryDeltaForcesEdge(wf)
      BY <3>1 DEF HighBattery, LocalBatteryDeltaForcesEdge, Hysteretic,
                  BatteryPercentForPlacement
    <3>6. Proposal(w).to = ""
      BY <2>2, <3>1, <3>3, <3>4, <3>5, SameInputs DEF Proposal, Local, Edge
    <3>7. QED
      BY <2>1, <3>6 DEF Local, Edge
  <2>4. CASE to = Edge
    <3>1. d.desired = ApplyResourceLocality(wf, Edge) /\ d.desired # Local
      BY <1>1, <1>5, <2>4, LocalityAllows DEF Local, Edge
    <3>2. Proposal(w).to # Local
      <4>1. SUFFICES ASSUME wf.mode \in {"", "auto"}, HighBattery(w)
                     PROVE  FALSE
        BY <2>2, ProposalShape
      <4>2. BatteryPercentForPlacement(wf) >= EffectiveHigh(wf)
        BY <4>1, SameInputs DEF HighBattery
      <4>3. ~LowBattery(wf)
        BY <4>2, ThresholdsApart DEF LowBattery
      <4>4. LocalBatteryDeltaForcesEdge(wf)
        BY <2>4, <4>1, <4>3 DEF Proposal, Local, Edge
      <4>5. QED
        BY <4>2, <4>4 DEF LocalBatteryDeltaForcesEdge, Hysteretic,
                          BatteryPercentForPlacement
    <3>3. QED
      BY <2>1, <3>1, <3>2, SameInputs
  <2>5. QED
    BY <1>1, <1>5, <2>3, <2>4
<1>6. QED
  BY <1>4, <1>5

\* resolvePlacement has hysteresis: for every WasmFunction that is not pinned to
\* the device, whatever the estimates, a second reconcile of the same telemetry
\* with the first one's decision accepted decides the same.  It needs the low
\* threshold in effect strictly below the high one.
THEOREM Hysteresis ==
  ASSUME NEW wf, NEW est, Hysteretic(wf), wf.mode # Local,
         {"topic", "mode", "desired", "localities", "low", "high", "specBattery",
          "thresholdPolicy", "deadlinePolicy", "deltaPolicy", "maxDrain",
          "riskyWindows", "target", "minSlack", "safetyMargin", "identity", "battery",
          "observedMode", "observedFunction", "delta", "risky"} \subseteq DOMAIN wf
  PROVE  LET chosen == ResolvePlacement(wf, est).desired
         IN  ResolvePlacement([wf EXCEPT !.desired = chosen], est).desired = chosen
<1> DEFINE chosen == ResolvePlacement(wf, est).desired
           w == [wf EXCEPT !.desired = chosen]
<1>1. w.desired = chosen
  <2> HIDE DEF chosen
  <2> QED OBVIOUS
<1>2. SameButDesired(wf, w)
  <2> HIDE DEF chosen
  <2> QED BY DEF SameButDesired
<1>3. ResolvePlacement(w, est).desired = w.desired
  <2> HIDE DEF w
  <2> QED BY <1>1, <1>2, DecisionSettles DEF chosen
<1>4. QED
  BY <1>1, <1>3

-----------------------------------------------------------------------------
(* Deadline admission. *)

\* The predicted time of a candidate in unbounded arithmetic.
ExactCost(candidate, est, margin) ==
  IF candidate = Local THEN est.queue + est.wake + est.localExec + margin
  ELSE IF candidate = Edge THEN est.network + est.edgeExec + margin
  ELSE est.collect + est.network + est.edgeExec + est.apply + margin

Int32Values == -Int32Max - 1 .. Int32Max

LEMMA Int32IsExact ==
  ASSUME NEW x \in Int32Values
  PROVE  Int32(x) = x
<1>1. x + Int32Max + 1 \in 0 .. 2 * (Int32Max + 1) - 1
  BY Int32Assumption DEF Int32Values
<1>2. \A m \in Nat \ {0} : \A y \in 0..m - 1 : y % m = y
  OBVIOUS
<1>3. 2 * (Int32Max + 1) \in Nat \ {0}
  BY Int32Assumption
<1>4. (x + Int32Max + 1) % (2 * (Int32Max + 1)) = x + Int32Max + 1
  BY <1>1, <1>2, <1>3
<1>5. QED
  BY <1>4, Int32Assumption DEF Int32, Int32Values

\* Declared and reported times are not negative and their sums are int32 values.
TimesFit(wf, est) ==
  /\ wf.target \in 1..Int32Max /\ wf.minSlack \in Int /\ wf.safetyMargin \in Int
  /\ est.queue \in Nat /\ est.wake \in Nat /\ est.localExec \in Nat
  /\ est.network \in Nat /\ est.edgeExec \in Nat
  /\ est.collect \in Nat /\ est.apply \in Nat
  /\ \A c \in {Local, Edge, Hybrid} :
       ExactCost(c, est, OrDefault(wf.safetyMargin, 250)) <= Int32Max

\* The slack evaluateDeadlineAdmission compares is the real one.
ExactSlack(wf, est, c) ==
  LET margin == OrDefault(wf.safetyMargin, 250)
      exact == ExactCost(c, est, margin)
  IN  /\ exact \in Nat /\ ~(wf.target <= 0)
      /\ wf.target \in Int /\ OrDefault(wf.minSlack, 500) \in Nat
      /\ Int32(wf.target - DeadlineCandidateCost(c, est, margin)) = wf.target - exact

LEMMA SlackIsExact ==
  ASSUME NEW wf, NEW est, NEW c \in {Local, Edge, Hybrid}, TimesFit(wf, est)
  PROVE  ExactSlack(wf, est, c)
<1> DEFINE margin == OrDefault(wf.safetyMargin, 250)
           exact == ExactCost(c, est, margin)
<1>1. margin \in Nat /\ OrDefault(wf.minSlack, 500) \in Nat
  BY DEF OrDefault, TimesFit
<1>2. exact \in Nat
  <2> HIDE DEF margin
  <2> QED BY <1>1 DEF ExactCost, TimesFit
<1>3. exact <= Int32Max
  BY DEF TimesFit
<1>4. wf.target \in 1..Int32Max
  BY DEF TimesFit
<1>5. DeadlineCandidateCost(c, est, margin) = Int32(exact)
  <2> HIDE DEF margin
  <2> QED BY DEF DeadlineCandidateCost, ExactCost, Local, Edge, Hybrid
<1> HIDE DEF exact, margin
<1>6. exact \in Int32Values /\ wf.target - exact \in Int32Values
  BY <1>2, <1>3, <1>4, Int32Assumption DEF Int32Values
<1>7. Int32(exact) = exact /\ Int32(wf.target - exact) = wf.target - exact
  BY <1>6, Int32IsExact
<1>8. ~(wf.target <= 0) /\ wf.target \in Int
  BY <1>4, Int32Assumption
<1>9. QED
  BY <1>1, <1>2, <1>5, <1>7, <1>8 DEF ExactSlack, exact, margin

LEMMA SlackLeft ==
  ASSUME NEW target \in Int, NEW cost \in Nat, NEW minimum \in Nat,
         target - cost >= minimum
  PROVE  cost + minimum <= target
OBVIOUS

\* A soft move the deadline policy judged leaves the required slack: no move is
\* made whose predicted time, summed without overflow, misses target - minSlack.
\* Where the times do not fit, the code's int32 addition wraps and nothing follows.
THEOREM AdmittedMeetsDeadline ==
  ASSUME NEW wf, NEW est, TimesFit(wf, est),
         On(wf.deadlinePolicy), wf.identity # "", est.known, est.available
  PROVE  LET d == ResolvePlacement(wf, est)
         IN  d.desired # d.current /\ ~d.hard =>
               ExactCost(d.candidate, est, OrDefault(wf.safetyMargin, 250))
                 + OrDefault(wf.minSlack, 500) <= wf.target
<1> DEFINE d == ResolvePlacement(wf, est)
           margin == OrDefault(wf.safetyMargin, 250)
           minimum == OrDefault(wf.minSlack, 500)
           to == Proposal(wf).to
           cand == ApplyResourceLocality(wf, to)
           exact == ExactCost(cand, est, margin)
           cost == DeadlineCandidateCost(cand, est, margin)
<1>1. SUFFICES ASSUME d.desired # d.current, ~d.hard
               PROVE  ExactCost(d.candidate, est, margin) + minimum <= wf.target
  OBVIOUS
<1>2. /\ d.candidate = cand /\ d.hard = Proposal(wf).hard
      /\ to \in {Local, Edge}
      /\ EvaluateDeadlineAdmission(wf, cand, Proposal(wf).hard, est).accepted
  BY <1>1, DecisionShape
<1>3. cand \in {Local, Edge, Hybrid}
  BY <1>2, LocalityAllows
<1>4. /\ exact \in Nat /\ ~(wf.target <= 0) /\ wf.target \in Int /\ minimum \in Nat
      /\ Int32(wf.target - cost) = wf.target - exact
  <2> HIDE DEF cand
  <2>1. ExactSlack(wf, est, cand)
    BY <1>3, SlackIsExact, Zenon
  <2>2. QED
    BY <2>1 DEF ExactSlack
<1>5. Int32(wf.target - cost) >= minimum
  <2>1. ~Proposal(wf).hard
    BY <1>1, <1>2
  <2> HIDE DEF cand
  <2>2. QED
    BY <1>2, <1>4, <2>1 DEF EvaluateDeadlineAdmission
<1>6. exact + minimum <= wf.target
  <2> HIDE DEF exact, minimum, cost
  <2> QED BY <1>4, <1>5, SlackLeft, Zenon
<1>7. QED
  BY <1>2, <1>6

-----------------------------------------------------------------------------
(* A function pinned to the device. *)

\* The hard low-battery rule can apply to the function.
BatteryIsLow(wf) ==
  /\ On(wf.thresholdPolicy)
  /\ BatteryPercentForPlacement(wf) # Nil
  /\ BatteryPercentForPlacement(wf) <= EffectiveLow(wf)

\* With the mode set to local the decision settles too while the battery is not low:
\* the hard rule is the only one that contradicts the explicit mode.
LEMMA LocalModeSettles ==
  ASSUME NEW wf, NEW w, NEW est, SameButDesired(wf, w), ~BatteryIsLow(wf),
         wf.mode = Local, w.desired = ResolvePlacement(wf, est).desired
  PROVE  ResolvePlacement(w, est).desired = w.desired
<1> DEFINE cur == CurrentPlacement(wf)
           d == ResolvePlacement(wf, est)
<1>1. ~LowBattery(wf) /\ ~LowBattery(w) /\ w.mode = Local
  BY SameInputs DEF LowBattery, BatteryIsLow, SameButDesired
<1>2. Proposal(wf).to = Local /\ Proposal(w).to = Local
  BY <1>1 DEF Proposal, Local, Edge
<1>3. /\ d.desired \in {Local, Edge, Hybrid}
      /\ d.desired = Hybrid => HasDeviceLocalResources(wf)
      /\ d.desired # cur => d.desired = ApplyResourceLocality(wf, Local)
  BY <1>2, DecisionShape
<1>4. HasDeviceLocalResources(w) = HasDeviceLocalResources(wf)
  BY SameInputs
<1>5. CurrentPlacement(w) = d.desired
  BY <1>3, <1>4, AcceptedIsRetained
<1>6. CASE d.desired = cur
  BY <1>5, <1>6, SameDecision
<1>7. CASE d.desired # cur
  <2>1. d.desired = Local
    BY <1>3, <1>7, LocalityAllows
  <2>2. ResolvePlacement(w, est).desired \in {w.desired, ApplyResourceLocality(w, Local)}
    BY <1>2, <1>5, DecisionShape
  <2>3. ApplyResourceLocality(w, Local) = Local
    BY LocalityAllows
  <2>4. QED
    BY <2>1, <2>2, <2>3
<1>8. QED
  BY <1>6, <1>7
=============================================================================
