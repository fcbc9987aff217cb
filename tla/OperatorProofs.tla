--------------------------- MODULE OperatorProofs ---------------------------
(***************************************************************************)
(* Proofs about Operator, for every number of releases, every set of       *)
(* starting devices and every bound on faults and messages.                *)
(*                                                                         *)
(* Knowledge of the declared release flows one way: the device has it, its *)
(* telemetry says so, the bridge writes it to the API server, the informer *)
(* shows it to the reconciler.  Flow says that nobody along that way is    *)
(* ahead of anybody before him, whatever is lost, delayed or repeated; a   *)
(* merge patch against an old cache is where that could go wrong.          *)
(***************************************************************************)
EXTENDS Operator, SequenceTheorems, TLAPS

Stages == [gen : 0..MaxGen, due : BOOLEAN]
Ids == (Kinds \cup {""}) \X (0..MaxGen)
Commands == [kind : Kinds, gen : {MaxGen}]
Reports == [battery : {Low, High}, mode : {Local, Edge}, paused : BOOLEAN,
            ack : 0..MaxGen, staged : 0..MaxGen]
Devices == [gen : 0..MaxGen, staged : 0..MaxGen, mode : {Local, Edge},
            paused : BOOLEAN, battery : {Low, High}, booting : BOOLEAN]
Hosts == [active : 0..MaxGen, staged : 0..MaxGen, up : BOOLEAN]
Memories == [stage : Stages, act : [id : Ids, due : BOOLEAN]]
Artifacts == [enabled : {TRUE}, error : {"", "source", "host"}, digest : {0, MaxGen},
              hostActive : BOOLEAN, hostStaged : BOOLEAN, uploaded : BOOLEAN]
Puts == [desired : {Local, Edge}, battery : {Nil, Low, High}, cmd : Ids,
         cmdDue : BOOLEAN, placed : {"", Local, Edge}, stage : Stages,
         thresholds : BOOLEAN]
Deciding == [pc : {"decide"}, w : WasmFunctions, art : Artifacts]
Writing == [pc : {"status"}, commanded : BOOLEAN, heard : BOOLEAN, put : Puts,
            requeue : {"soon", "when due", "no"}]

\* The types of everything, and that a reconcile decides on what the cache holds.
Types ==
  /\ store \in WasmFunctions /\ store.gen = MaxGen
  /\ cache \in WasmFunctions /\ cache.gen = MaxGen
  /\ rec \in {[pc |-> "idle"]} \cup Deciding \cup Writing
  /\ rec.pc = "decide" => rec.w = cache
  /\ mem \in Memories
  /\ wake \in [queued : BOOLEAN, timer : BOOLEAN]
  /\ dev \in Devices /\ (dev.staged = 0 \/ dev.staged > dev.gen)
  /\ host \in Hosts
  /\ cmds \in Seq(Commands) /\ tel \in Seq(Reports)
  /\ sent \in Stages /\ (sent.gen = 0 => sent = NoStage)

\* Knowing that the device runs the declared release, and that it holds it.
Acked(x) == x.ack = MaxGen
Ready(x) == x.ack = MaxGen \/ x.staged = MaxGen

\* Whoever knows x knows it no earlier than whoever knows y.
Before(x, y) == (Acked(x) => Acked(y)) /\ (Ready(x) => Ready(y))

\* Cache, API server, telemetry from the oldest to the newest, device.
Flow ==
  /\ Before(cache, store)
  /\ Before(store, Report(dev))
  /\ \A i \in 1..Len(tel) : Before(store, tel[i]) /\ Before(tel[i], Report(dev))
  /\ \A i, j \in 1..Len(tel) : i <= j => Before(tel[i], tel[j])

\* An activation on its way was sent on the device's word.
CommandsHeld ==
  \A i \in 1..Len(cmds) : cmds[i].kind \in {"activate", "edge"} => Ready(Report(dev))

\* The last attempt to stage is remembered until it is due or not needed anymore.
Remembered ==
  sent.gen # 0 /\ ~sent.due =>
    \/ mem.stage = [gen |-> MaxGen, due |-> FALSE]
    \/ Ready(cache)

Inv == Types /\ Flow /\ CommandsHeld /\ Remembered

-----------------------------------------------------------------------------
(* The calls of applyPlacement, on contexts.                               *)

Contexts ==
  [w : WasmFunctions, art : Artifacts, mem : Memories, host : Hosts,
   out : Seq(Commands), err : BOOLEAN, commanded : BOOLEAN]

KindsOut(c) == {c.out[i].kind : i \in 1..Len(c.out)}

\* What every call leaves alone, and the kinds of command it may publish.
Follows(r, c, kinds) ==
  /\ r \in Contexts
  /\ r.w.gen = c.w.gen /\ r.w.ack = c.w.ack /\ r.w.staged = c.w.staged
  /\ r.art = c.art
  /\ KindsOut(r) \subseteq KindsOut(c) \cup kinds

LEMMA Constants ==
  /\ MaxGen \in Nat /\ MaxGen > 0
  /\ NoStage \in Stages /\ NoActivation \in [id : Ids, due : BOOLEAN]
  /\ NoStage.gen = 0
<1>1. MaxGen \in Nat /\ MaxGen > 0
  BY OperatorAssumption
<1>0. 0 \in 0..MaxGen
  BY <1>1
<1>2. NoStage \in Stages /\ NoStage.gen = 0
  BY <1>0, Zenon DEF NoStage, Stages
<1>3. NoCommand \in Ids
  BY <1>0, Zenon DEF NoCommand, Ids
<1>4. NoActivation \in [id : Ids, due : BOOLEAN]
  BY <1>3 DEF NoActivation
<1> QED
  BY <1>1, <1>2, <1>4

LEMMA OutKinds ==
  ASSUME NEW c \in Contexts, NEW cmd \in Commands, NEW r \in Contexts,
         r.out = Append(c.out, cmd)
  PROVE  KindsOut(r) \subseteq KindsOut(c) \cup {cmd.kind}
<1>1. c.out \in Seq(Commands)
  BY DEF Contexts
<1>2. Len(r.out) = Len(c.out) + 1 /\ r.out[Len(c.out) + 1] = cmd
  BY <1>1
<1>3. \A i \in 1..Len(c.out) : r.out[i] = c.out[i]
  BY <1>1
<1>4. Len(c.out) \in Nat
  BY <1>1
<1> QED
  BY <1>2, <1>3, <1>4 DEF KindsOut

LEMMA SendFacts ==
  ASSUME NEW c \in Contexts, c.w.gen = MaxGen, NEW kind \in Kinds, NEW f
  PROVE  /\ Follows(Send(c, kind, f), c, {kind})
         /\ Send(c, kind, f).w = c.w
         /\ Send(c, kind, f).mem = c.mem
         /\ Send(c, kind, f).host = c.host
<1> DEFINE cmd == [kind |-> kind, gen |-> c.w.gen]
           s == Send(c, kind, f)
<1>1. cmd \in Commands /\ cmd.kind = kind
  BY DEF Commands
<1>2. c.out \in Seq(Commands) /\ Append(c.out, cmd) \in Seq(Commands)
  BY <1>1 DEF Contexts
<1>3. \/ s = [c EXCEPT !.err = TRUE, !.out = Append(c.out, cmd)]
      \/ s = [c EXCEPT !.err = TRUE, !.out = c.out]
      \/ s = [c EXCEPT !.out = Append(c.out, cmd)]
  BY DEF Send
<1> HIDE DEF cmd, s
<1>4. /\ s \in Contexts
      /\ s.w = c.w /\ s.art = c.art /\ s.mem = c.mem /\ s.host = c.host
      /\ s.out \in {c.out, Append(c.out, cmd)}
  BY <1>2, <1>3 DEF Contexts
<1>5. KindsOut(s) \subseteq KindsOut(c) \cup {kind}
  BY <1>1, <1>4, OutKinds DEF KindsOut
<1> QED
  BY <1>4, <1>5 DEF s, Follows

\* Status remembers a command without touching what the device reported.
LEMMA TrackFacts ==
  ASSUME NEW c \in Contexts, NEW id \in Ids
  PROVE  Follows(Track(c, id), c, {}) /\ Track(c, id).mem = c.mem
<1> DEFINE w == [c.w EXCEPT !.cmd = id, !.cmdDue = FALSE, !.telAfter = FALSE]
           c1 == [c EXCEPT !.w = [c.w EXCEPT !.cmd = id]]
           c2 == [c1 EXCEPT !.w = [c1.w EXCEPT !.cmdDue = FALSE]]
           c3 == [c2 EXCEPT !.w = [c2.w EXCEPT !.telAfter = FALSE]]
<1>0. Track(c, id) = [c3 EXCEPT !.commanded = TRUE]
  BY DEF Track, Contexts
<1>1. Track(c, id) = [c EXCEPT !.w = w, !.commanded = TRUE]
  BY <1>0 DEF Contexts
<1>2. /\ w \in WasmFunctions
      /\ w.gen = c.w.gen /\ w.ack = c.w.ack /\ w.staged = c.w.staged
  BY DEF Contexts, WasmFunctions, Ids
<1> HIDE DEF w
<1>3. /\ Track(c, id).w = w /\ Track(c, id).art = c.art
      /\ Track(c, id).mem = c.mem /\ Track(c, id).out = c.out
  BY <1>1 DEF Contexts
<1>4. Track(c, id) \in Contexts
  BY <1>1, <1>2 DEF Contexts
<1> QED
  BY <1>2, <1>3, <1>4 DEF Follows, KindsOut

\* deviceReleaseReady asks for the declared release in a slot of the device.
LEMMA ReadyMeans ==
  ASSUME NEW w \in WasmFunctions, w.gen = MaxGen
  PROVE  DeviceReleaseReady(Wf(w), MaxGen) <=> Ready(w)
BY DEF DeviceReleaseReady, DeviceReleaseStaged, DeviceReleaseActive, Wf, Ready

Claim == [gen |-> MaxGen, due |-> FALSE]

LEMMA ClaimFacts ==
  ASSUME NEW c \in Contexts, c.w.gen = MaxGen
  PROVE  /\ Follows(ClaimReleaseStageAttempt(c), c, {})
         /\ ClaimReleaseStageAttempt(c).mem.stage = Claim
<1> DEFINE w == [c.w EXCEPT !.stage = Claim]
           m == [c.mem EXCEPT !.stage = Claim]
           c1 == [c EXCEPT !.w = w]
           r == ClaimReleaseStageAttempt(c)
<1>1. Claim \in Stages
  <2>1. MaxGen \in 0..MaxGen
    BY OperatorAssumption
  <2> QED
    BY <2>1, Zenon DEF Claim, Stages
<1>2. r = [c1 EXCEPT !.mem = [c1.mem EXCEPT !.stage = Claim]]
  BY DEF ClaimReleaseStageAttempt, Contexts, Claim
<1>3. r = [c EXCEPT !.w = w, !.mem = m]
  BY <1>2 DEF Contexts
<1>4. /\ w \in WasmFunctions
      /\ w.gen = c.w.gen /\ w.ack = c.w.ack /\ w.staged = c.w.staged
  BY <1>1 DEF Contexts, WasmFunctions, Stages
<1>5. m \in Memories /\ m.stage = Claim
  BY <1>1 DEF Contexts, Memories
<1> HIDE DEF w, m, r
<1>6. r.w = w /\ r.art = c.art /\ r.mem = m /\ r.out = c.out
  BY <1>3 DEF Contexts
<1>7. r \in Contexts
  BY <1>3, <1>4, <1>5 DEF Contexts
<1> QED
  BY <1>4, <1>5, <1>6, <1>7 DEF Follows, KindsOut, r

\* A stage_release is published only to a device that has not reported the release
\* and when no attempt is pending; the attempt is forgotten only when it has.
LEMMA StageFacts ==
  ASSUME NEW c \in Contexts, c.w.gen = MaxGen, c.out = <<>>, NEW f
  PROVE  LET r == ApplyReleaseStage(c, f)
         IN  /\ Follows(r, c, {"stage"})
             /\ r.mem.stage \in {c.mem.stage, Claim} \/ Ready(c.w)
             /\ "stage" \in KindsOut(r) =>
                  StageDue(c) /\ ~Ready(c.w) /\ r.mem.stage = Claim
<1> DEFINE r == ApplyReleaseStage(c, f)
<1>0. KindsOut(c) = {}
  BY DEF KindsOut
<1>1. c.art.digest \in {0, MaxGen} /\ c.w \in WasmFunctions
  BY DEF Contexts, Artifacts
<1>2. CASE r = c
  BY <1>0, <1>2 DEF Follows
<1>3. CASE Ready(c.w) /\ r = [c EXCEPT !.mem.stage = NoStage]
  <2> DEFINE m == [c.mem EXCEPT !.stage = NoStage]
  <2>1. r = [c EXCEPT !.mem = m] /\ m \in Memories
    BY <1>3, Constants DEF Contexts, Memories
  <2> HIDE DEF m, r
  <2>2. r \in Contexts /\ r.w = c.w /\ r.art = c.art /\ r.out = c.out
    BY <2>1 DEF Contexts
  <2> QED
    BY <1>0, <1>3, <2>2 DEF Follows, KindsOut, r
<1>4. CASE StageDue(c) /\ ~Ready(c.w) /\ r = Send(ClaimReleaseStageAttempt(c), "stage", f)
  <2> DEFINE b == ClaimReleaseStageAttempt(c)
  <2>1. Follows(b, c, {}) /\ b.mem.stage = Claim
    BY ClaimFacts
  <2>2. "stage" \in Kinds
    BY DEF Kinds
  <2> HIDE DEF b
  <2>3. b \in Contexts /\ b.w.gen = MaxGen
    BY <2>1 DEF Follows
  <2>4. Follows(Send(b, "stage", f), b, {"stage"}) /\ Send(b, "stage", f).mem = b.mem
    BY <2>2, <2>3, SendFacts
  <2>5. r = Send(b, "stage", f)
    BY <1>4 DEF b
  <2> QED
    BY <1>4, <2>1, <2>4, <2>5 DEF Follows
<1>5. \/ r = c
      \/ Ready(c.w) /\ r = [c EXCEPT !.mem.stage = NoStage]
      \/ StageDue(c) /\ ~Ready(c.w) /\ r = Send(ClaimReleaseStageAttempt(c), "stage", f)
  BY <1>1, ReadyMeans DEF ApplyReleaseStage
<1> QED
  BY <1>2, <1>3, <1>4, <1>5

\* The later calls do not touch the pending stage attempt either.
Keeps(r, c, kinds) == Follows(r, c, kinds) /\ r.mem.stage = c.mem.stage

LEMMA KeepsTransitive ==
  ASSUME NEW a, NEW b, NEW c, NEW K, NEW L, Keeps(b, a, K), Keeps(c, b, L)
  PROVE  Keeps(c, a, K \cup L)
BY DEF Keeps, Follows

LEMMA SendKeeps ==
  ASSUME NEW c \in Contexts, c.w.gen = MaxGen, NEW kind \in Kinds, NEW f
  PROVE  Keeps(Send(c, kind, f), c, {kind})
BY SendFacts DEF Keeps

LEMMA SendTrackKeeps ==
  ASSUME NEW c \in Contexts, c.w.gen = MaxGen, NEW kind \in Kinds, NEW f
  PROVE  Keeps(Track(Send(c, kind, f), <<kind, c.w.gen>>), c, {kind})
<1> DEFINE s == Send(c, kind, f)
           id == <<kind, c.w.gen>>
<1>1. Keeps(s, c, {kind}) /\ s \in Contexts
  BY SendKeeps DEF Keeps, Follows
<1>2. id \in Ids
  <2>1. MaxGen \in 0..MaxGen
    BY OperatorAssumption
  <2> QED
    BY <2>1, Zenon DEF Ids
<1> HIDE DEF s, id
<1>3. Keeps(Track(s, id), s, {})
  BY <1>1, <1>2, TrackFacts DEF Keeps
<1>4. Keeps(Track(s, id), c, {kind} \cup {})
  BY <1>1, <1>3, KeepsTransitive
<1> QED
  BY <1>4 DEF s, id

\* A field of the working copy that no report and no stage attempt is in.
LEMMA FieldKeeps ==
  ASSUME NEW c \in Contexts, NEW w \in WasmFunctions,
         w.gen = c.w.gen, w.ack = c.w.ack, w.staged = c.w.staged
  PROVE  Keeps([c EXCEPT !.w = w], c, {})
<1> DEFINE r == [c EXCEPT !.w = w]
<1>1. r \in Contexts
  BY DEF Contexts
<1>2. r.w = w /\ r.art = c.art /\ r.mem = c.mem /\ r.out = c.out
  BY DEF Contexts
<1> QED
  BY <1>1, <1>2 DEF Keeps, Follows, KindsOut

LEMMA MemoryKeeps ==
  ASSUME NEW c \in Contexts, NEW act \in [id : Ids, due : BOOLEAN]
  PROVE  Keeps([c EXCEPT !.mem.act = act], c, {})
<1> DEFINE m == [c.mem EXCEPT !.act = act]
           r == [c EXCEPT !.mem = m]
<1>1. m \in Memories /\ m.stage = c.mem.stage
  BY DEF Contexts, Memories
<1> HIDE DEF m
<1>2. r \in Contexts
  BY <1>1 DEF Contexts
<1>3. r.w = c.w /\ r.art = c.art /\ r.mem = m /\ r.out = c.out
  BY DEF Contexts
<1>4. Keeps(r, c, {})
  BY <1>1, <1>2, <1>3 DEF Keeps, Follows, KindsOut
<1>5. [c EXCEPT !.mem.act = act] = r
  BY DEF m, Contexts
<1> QED
  BY <1>4, <1>5

LEMMA ThresholdKeeps ==
  ASSUME NEW c \in Contexts, c.w.gen = MaxGen, NEW f
  PROVE  Keeps(ApplyThresholdUpdate(c, f), c, {"thresholds"})
<1> DEFINE s == Send(c, "thresholds", f)
           w == [s.w EXCEPT !.thresholds = TRUE]
           r == [s EXCEPT !.w = w]
<1>1. Keeps(s, c, {"thresholds"}) /\ s \in Contexts
  BY SendKeeps DEF Keeps, Follows, Kinds
<1> HIDE DEF s
<1>2. w \in WasmFunctions /\ w.gen = s.w.gen /\ w.ack = s.w.ack /\ w.staged = s.w.staged
  BY <1>1 DEF Contexts, WasmFunctions
<1>3. Keeps(r, s, {})
  <2> HIDE DEF w
  <2> QED
    BY <1>1, <1>2, FieldKeeps
<1>4. [s EXCEPT !.w.thresholds = TRUE] = r
  BY <1>1 DEF Contexts
<1>5. ApplyThresholdUpdate(c, f) \in {c, s, r}
  BY <1>4 DEF ApplyThresholdUpdate, s
<1>6. Keeps(c, c, {"thresholds"})
  BY DEF Keeps, Follows
<1>7. Keeps(r, c, {"thresholds"} \cup {})
  <2> HIDE DEF r
  <2> QED
    BY <1>1, <1>3, KeepsTransitive
<1> HIDE DEF r
<1>8. Keeps(r, c, {"thresholds"})
  BY <1>7
<1> QED
  BY <1>1, <1>5, <1>6, <1>8

LEMMA PauseKeeps ==
  ASSUME NEW c \in Contexts, c.w.gen = MaxGen, NEW d, NEW f
  PROVE  Keeps(ApplyPauseCommand(c, d, f), c, {"pause"})
<1>1. "pause" \in Kinds
  BY DEF Kinds
<1>2. Keeps(c, c, {"pause"})
  BY DEF Keeps, Follows
<1>3. ApplyPauseCommand(c, d, f) \in
        {c, Send(c, "pause", f), Track(Send(c, "pause", f), <<"pause", c.w.gen>>)}
  BY DEF ApplyPauseCommand
<1> QED
  BY <1>1, <1>2, <1>3, SendKeeps, SendTrackKeeps

LEMMA ResumeKeeps ==
  ASSUME NEW c \in Contexts, c.w.gen = MaxGen, NEW d, NEW f
  PROVE  Keeps(ApplyResumeCommand(c, d, f), c, {"resume"})
<1>1. "resume" \in Kinds
  BY DEF Kinds
<1>2. Keeps(c, c, {"resume"})
  BY DEF Keeps, Follows
<1>3. ApplyResumeCommand(c, d, f) \in
        {c, Send(c, "resume", f), Track(Send(c, "resume", f), <<"resume", c.w.gen>>)}
  BY DEF ApplyResumeCommand
<1> QED
  BY <1>1, <1>2, <1>3, SendKeeps, SendTrackKeeps

LEMMA PlacementCommandKeeps ==
  ASSUME NEW c \in Contexts, c.w.gen = MaxGen, NEW kind \in Kinds, NEW mode, NEW f,
         NEW d, d.desired \in {Local, Edge}
  PROVE  Keeps(PlacementCommand(c, d, kind, mode, f), c, {kind})
<1> DEFINE id == <<kind, c.w.gen>>
           act == [id |-> id, due |-> FALSE]
           b == [c EXCEPT !.mem.act = act]
           s == Send(b, kind, f)
           w == [s.w EXCEPT !.placed = d.desired]
           p == [s EXCEPT !.w = w]
           r == PlacementCommand(c, d, kind, mode, f)
<1>1. id \in Ids
  <2>1. MaxGen \in 0..MaxGen
    BY OperatorAssumption
  <2> QED
    BY <2>1, Zenon DEF Ids
<1>2. act \in [id : Ids, due : BOOLEAN]
  BY <1>1, Zenon
<1>3. [s EXCEPT !.w.placed = d.desired] = p
  BY DEF Contexts
<1>4. \/ r = [c EXCEPT !.mem.act = NoActivation]
      \/ r = [c EXCEPT !.mem.act = c.mem.act]
      \/ r = s \/ r = Track(s, id) \/ r = Track(p, id)
  BY <1>3 DEF PlacementCommand
<1> HIDE DEF id, act, r
<1>5. Keeps(b, c, {}) /\ b \in Contexts /\ b.w.gen = MaxGen
  BY <1>2, MemoryKeeps DEF Keeps, Follows
<1> HIDE DEF b
<1>6. Keeps(s, b, {kind}) /\ s \in Contexts /\ s.w.gen = MaxGen
  BY <1>5, SendKeeps DEF Keeps, Follows
<1> HIDE DEF s
<1>7. w \in WasmFunctions /\ w.gen = s.w.gen /\ w.ack = s.w.ack /\ w.staged = s.w.staged
  BY <1>6 DEF Contexts, WasmFunctions
<1> HIDE DEF w
<1>8. Keeps(p, s, {}) /\ p \in Contexts
  BY <1>6, <1>7, FieldKeeps DEF Keeps, Follows
<1> HIDE DEF p
<1>9. Keeps(Track(s, id), s, {}) /\ Keeps(Track(p, id), p, {})
  BY <1>1, <1>6, <1>8, TrackFacts DEF Keeps
<1>10. CASE r \in {s, Track(s, id), Track(p, id)}
  <2>1. Keeps(s, c, {kind}) /\ Keeps(p, c, {kind})
    BY <1>5, <1>6, <1>8 DEF Keeps, Follows
  <2>2. Keeps(Track(s, id), c, {kind}) /\ Keeps(Track(p, id), c, {kind})
    BY <1>9, <2>1 DEF Keeps, Follows
  <2> QED
    BY <1>10, <2>1, <2>2 DEF r
<1>11. CASE r = [c EXCEPT !.mem.act = NoActivation]
  <2>1. Keeps(r, c, {})
    BY <1>11, Constants, MemoryKeeps
  <2> QED
    BY <2>1 DEF Keeps, Follows, r
<1>12. CASE r = [c EXCEPT !.mem.act = c.mem.act]
  <2>1. c.mem.act \in [id : Ids, due : BOOLEAN]
    BY DEF Contexts, Memories
  <2>2. Keeps(r, c, {})
    BY <1>12, <2>1, MemoryKeeps
  <2> QED
    BY <2>2 DEF Keeps, Follows, r
<1> QED
  BY <1>4, <1>10, <1>11, <1>12 DEF r

\* activateHostRelease changes the host and nothing else.
LEMMA ActivateHostKeeps ==
  ASSUME NEW c \in Contexts, c.w.gen = MaxGen, NEW f
  PROVE  Keeps(ActivateHostRelease(c, f), c, {})
<1> DEFINE h == [c.host EXCEPT !.active = c.w.gen, !.staged = 0]
           c1 == [c EXCEPT !.host = [c.host EXCEPT !.active = c.w.gen]]
           done == [c EXCEPT !.host = h]
           r == ActivateHostRelease(c, f)
<1>1. h \in Hosts
  <2>1. MaxGen \in 0..MaxGen /\ 0 \in 0..MaxGen
    BY OperatorAssumption
  <2>2. c.host \in Hosts
    BY DEF Contexts
  <2> QED
    BY <2>1, <2>2 DEF Hosts
<1>2. [c EXCEPT !.host.active = c.w.gen, !.host.staged = 0]
        = [c1 EXCEPT !.host = [c1.host EXCEPT !.staged = 0]]
  BY DEF Contexts
<1>3. [c EXCEPT !.host.active = c.w.gen, !.host.staged = 0] = done
  BY <1>2 DEF Contexts
<1> HIDE DEF h
<1>4. /\ done \in Contexts
      /\ done.w = c.w /\ done.art = c.art /\ done.mem = c.mem /\ done.out = c.out
  BY <1>1 DEF Contexts
<1>5. r \in {[c EXCEPT !.err = TRUE], [c EXCEPT !.err = (f.kind = "host")],
             [done EXCEPT !.err = (f.kind = "host")]}
  BY <1>3 DEF ActivateHostRelease
<1> HIDE DEF done, r
<1>6. (f.kind = "host") \in BOOLEAN
  OBVIOUS
<1>7. r \in Contexts
  BY <1>4, <1>5, <1>6 DEF Contexts
<1>8. r.w = c.w /\ r.art = c.art /\ r.mem = c.mem /\ r.out = c.out
  BY <1>4, <1>5 DEF Contexts
<1> QED
  BY <1>7, <1>8 DEF Keeps, Follows, KindsOut, r

\* An activation is published only when the device has reported the release.
LEMMA PlacementFacts ==
  ASSUME NEW c \in Contexts, c.w.gen = MaxGen, NEW f, NEW d, d.desired \in {Local, Edge}
  PROVE  LET r == ApplyPlacementCommand(c, d, f)
         IN  Keeps(r, c, {}) \/ (Ready(c.w) /\ Keeps(r, c, {"activate", "edge"}))
<1> DEFINE h == IF c.art.hostActive THEN c ELSE ActivateHostRelease(c, f)
           r == ApplyPlacementCommand(c, d, f)
<1>1. Keeps(c, c, {})
  BY DEF Keeps, Follows
<1>2. Keeps(h, c, {}) /\ h \in Contexts /\ h.w.gen = MaxGen
  BY <1>1, ActivateHostKeeps DEF Keeps, Follows
<1>3. DeviceReady(c) => Ready(c.w)
  BY ReadyMeans DEF DeviceReady, Contexts, Artifacts
<1>4. \/ r = c
      \/ /\ DeviceReady(c)
         /\ r \in {h, PlacementCommand(c, d, "activate", Local, f),
                   PlacementCommand(h, d, "edge", Edge, f)}
  BY DEF ApplyPlacementCommand
<1> HIDE DEF h, r
<1>5. "activate" \in Kinds /\ "edge" \in Kinds
  BY DEF Kinds
<1>6. Keeps(PlacementCommand(c, d, "activate", Local, f), c, {"activate"})
  BY <1>5, PlacementCommandKeeps
<1>7. Keeps(PlacementCommand(h, d, "edge", Edge, f), h, {"edge"})
  BY <1>2, <1>5, PlacementCommandKeeps
<1>8. r \in {c, h} => Keeps(r, c, {})
  BY <1>1, <1>2
<1>9. r = PlacementCommand(c, d, "activate", Local, f) => Keeps(r, c, {"activate", "edge"})
  BY <1>6 DEF Keeps, Follows
<1>10. r = PlacementCommand(h, d, "edge", Edge, f) => Keeps(r, c, {"activate", "edge"})
  BY <1>2, <1>7 DEF Keeps, Follows
<1> QED
  BY <1>3, <1>4, <1>8, <1>9, <1>10 DEF r

-----------------------------------------------------------------------------
(* One reconcile's decision. *)

Decision(w, art, up) ==
  ApplyDestinationReadiness(Wf(w), ResolvePlacement(Wf(w), NoEstimate), art, up)

\* Without device-local resources a decision is for local or for edge.
LEMMA DecisionType ==
  ASSUME NEW w \in WasmFunctions, NEW art, NEW up
  PROVE  /\ Decision(w, art, up).desired \in {Local, Edge}
         /\ Decision(w, art, up).battery \in {Nil, Low, High}
<1> DEFINE wf == Wf(w)
           cur == CurrentPlacement(wf)
           dl == EvaluateDeadlineAdmission(
                   wf, IF Proposal(wf).to = "" THEN cur
                       ELSE ApplyResourceLocality(wf, Proposal(wf).to),
                   Proposal(wf).hard, NoEstimate)
           d == ResolvePlacement(wf, NoEstimate)
<1>1. /\ wf.topic = TRUE /\ wf.localities = {} /\ wf.mode = "auto"
      /\ wf.specBattery = Nil /\ wf.battery = w.battery
      /\ wf.desired = w.desired /\ wf.observedMode = w.mode
  BY DEF Wf
<1>2. cur \in {Local, Edge}
  BY <1>1 DEF CurrentPlacement, NormalizeRetainedPlacement, HasDeviceLocalResources,
              ApplyResourceLocality, WasmFunctions, Local, Edge, Hybrid
<1>3. BatteryPercentForPlacement(wf) \in {Nil, Low, High}
  BY <1>1 DEF BatteryPercentForPlacement, WasmFunctions
<1>4. Proposal(wf).to \in {"", Local, Edge}
  <2> HIDE DEF wf
  <2> QED
    BY <1>1 DEF Proposal, Local, Edge
<1> DEFINE cand == IF Proposal(wf).to = "" THEN cur
                   ELSE ApplyResourceLocality(wf, Proposal(wf).to)
<1>5. cand \in {Local, Edge}
  BY <1>1, <1>2, <1>4 DEF ApplyResourceLocality, HasDeviceLocalResources, Local, Edge, Hybrid
<1>6. d = [enabled |-> wf.topic, current |-> cur, candidate |-> cand,
           source |-> Proposal(wf).source, hard |-> Proposal(wf).hard,
           transition |-> cand # cur, deadline |-> dl,
           desired |-> IF cand # cur /\ dl.accepted THEN cand ELSE cur,
           readiness |-> "", battery |-> BatteryPercentForPlacement(wf)]
  BY <1>1 DEF ResolvePlacement
<1> HIDE DEF wf, cur, dl, cand, d
<1>7. d.desired \in {cand, cur} /\ d.current = cur
      /\ d.battery = BatteryPercentForPlacement(wf)
  BY <1>6
<1>8. LET r == ApplyDestinationReadiness(wf, d, art, up)
      IN  r.desired \in {d.desired, d.current} /\ r.battery = d.battery
  BY <1>6 DEF ApplyDestinationReadiness
<1> QED
  BY <1>2, <1>3, <1>5, <1>7, <1>8 DEF Decision, wf, d

LEMMA RequeueType ==
  ASSUME NEW w, NEW failed PROVE Requeue(w, failed) \in {"soon", "when due", "no"}
BY DEF Requeue

\* What a reconcile keeps at each of its steps.
LEMMA RecTypes ==
  ASSUME Types
  PROVE  /\ rec.pc \in {"idle", "decide", "status"}
         /\ rec.pc = "idle" => rec = [pc |-> "idle"]
         /\ rec.pc = "decide" => rec \in Deciding
         /\ rec.pc = "status" => rec \in Writing
<1>1. rec = [pc |-> "idle"] => rec.pc = "idle"
  OBVIOUS
<1>2. rec \in Deciding => rec.pc = "decide"
  BY DEF Deciding
<1>3. rec \in Writing => rec.pc = "status"
  BY DEF Writing
<1>4. rec = [pc |-> "idle"] \/ rec \in Deciding \/ rec \in Writing
  BY DEF Types
<1> QED
  BY <1>1, <1>2, <1>3, <1>4, Zenon

LEMMA ContextType ==
  ASSUME Types, rec.pc = "decide"
  PROVE  /\ Context \in Contexts /\ Context.out = <<>>
         /\ Context.w = cache /\ Context.w.gen = MaxGen
         /\ Context.mem = mem /\ rec.w = cache /\ rec.art \in Artifacts
<1>1. rec \in Deciding /\ rec.w = cache
  <2>1. rec \in Deciding
    BY RecTypes
  <2> QED
    BY <2>1, Zenon DEF Types
<1>2. rec.w \in WasmFunctions /\ rec.art \in Artifacts
  BY <1>1 DEF Deciding
<1>3. mem \in Memories /\ host \in Hosts /\ cache.gen = MaxGen
  BY DEF Types
<1>4. <<>> \in Seq(Commands)
  OBVIOUS
<1>5. /\ Context.out = <<>> /\ Context.w = rec.w /\ Context.mem = mem
      /\ Context.art = rec.art /\ Context.host = host
  BY DEF Context
<1>6. Context \in Contexts
  BY <1>2, <1>3, <1>4, Zenon DEF Context, Contexts
<1> QED
  BY <1>1, <1>2, <1>3, <1>5, <1>6

\* What a reconcile publishes, and what it remembers of it.
LEMMA CommandFacts ==
  ASSUME Types, NEW f, Command(f)
  PROVE  \E c \in Contexts, d \in {Decision(rec.w, rec.art, host.up)} :
           /\ rec.pc = "decide" /\ Publish(c, d)
           /\ d.desired \in {Local, Edge} /\ d.battery \in {Nil, Low, High}
           /\ "stage" \in KindsOut(c) =>
                StageDue(Context) /\ ~Ready(cache) /\ c.mem.stage = Claim
           /\ KindsOut(c) \cap {"activate", "edge"} # {} => Ready(cache)
           /\ c.mem.stage \in {mem.stage, Claim} \/ Ready(cache)
<1>1. PICK d \in {Decision(rec.w, rec.art, host.up)} :
      \E staged \in {ApplyReleaseStage(Context, f)} :
      \E told \in {ApplyThresholdUpdate(staged, f)} :
      \E paused \in {ApplyPauseCommand(told, d, f)} :
      \E placed \in {ApplyPlacementCommand(paused, d, f)} :
      \E c \in {ApplyResumeCommand(placed, d, f)} : Publish(c, d)
  BY DEF Command, Decision
<1>2. rec.pc = "decide"
  BY DEF Command
<1>3. /\ Context \in Contexts /\ Context.out = <<>>
      /\ Context.w = cache /\ Context.w.gen = MaxGen /\ Context.mem = mem
      /\ rec.w = cache /\ cache \in WasmFunctions
  BY <1>2, ContextType DEF Types
<1>4. d.desired \in {Local, Edge} /\ d.battery \in {Nil, Low, High}
  BY <1>1, <1>3, DecisionType
<1> DEFINE staged == ApplyReleaseStage(Context, f)
           told == ApplyThresholdUpdate(staged, f)
           paused == ApplyPauseCommand(told, d, f)
           placed == ApplyPlacementCommand(paused, d, f)
           c == ApplyResumeCommand(placed, d, f)
<1>5. Publish(c, d)
  BY <1>1
<1>6. /\ Follows(staged, Context, {"stage"})
      /\ staged.mem.stage \in {mem.stage, Claim} \/ Ready(cache)
      /\ "stage" \in KindsOut(staged) =>
           StageDue(Context) /\ ~Ready(cache) /\ staged.mem.stage = Claim
  BY <1>3, StageFacts
<1> HIDE DEF staged
<1>7. staged \in Contexts /\ staged.w.gen = MaxGen /\ staged.w.ack = cache.ack
      /\ staged.w.staged = cache.staged
      /\ KindsOut(staged) \subseteq {"stage"}
  <2>1. KindsOut(Context) = {}
    BY <1>3 DEF KindsOut
  <2> QED
    BY <1>3, <1>6, <2>1 DEF Follows
<1>8. Keeps(told, staged, {"thresholds"})
  BY <1>7, ThresholdKeeps
<1> HIDE DEF told
<1>9. Keeps(paused, told, {"pause"})
  BY <1>7, <1>8, PauseKeeps DEF Keeps, Follows
<1> HIDE DEF paused
<1>10. /\ Keeps(paused, staged, {"thresholds", "pause"})
       /\ paused \in Contexts /\ paused.w.gen = MaxGen
       /\ Ready(paused.w) <=> Ready(cache)
  BY <1>7, <1>8, <1>9 DEF Keeps, Follows, Ready
<1>11. Keeps(placed, paused, {}) \/ (Ready(cache) /\ Keeps(placed, paused, {"activate", "edge"}))
  BY <1>4, <1>10, PlacementFacts
<1> HIDE DEF placed
<1>12. placed \in Contexts /\ placed.w.gen = MaxGen
  BY <1>10, <1>11 DEF Keeps, Follows
<1>13. Keeps(c, placed, {"resume"})
  BY <1>12, ResumeKeeps
<1> HIDE DEF c
<1>14. /\ c \in Contexts
       /\ c.mem.stage = staged.mem.stage
       /\ KindsOut(c) \subseteq KindsOut(staged) \cup {"thresholds", "pause", "activate", "edge", "resume"}
       /\ ~Ready(cache) => KindsOut(c) \subseteq KindsOut(staged) \cup {"thresholds", "pause", "resume"}
  BY <1>10, <1>11, <1>13 DEF Keeps, Follows
<1>15. "stage" \in KindsOut(c) =>
         StageDue(Context) /\ ~Ready(cache) /\ c.mem.stage = Claim
  BY <1>6, <1>14
<1>16. KindsOut(c) \cap {"activate", "edge"} # {} => Ready(cache)
  BY <1>7, <1>14
<1> QED
  BY <1>2, <1>4, <1>5, <1>6, <1>14, <1>15, <1>16

-----------------------------------------------------------------------------
(* The invariant, step by step. *)

\* Nothing is on its way and everybody knows the same.
LEMMA InitInv == Init => Inv
<1> SUFFICES ASSUME Init PROVE Inv
  OBVIOUS
<1>1. PICK s \in Starts :
        /\ store = [gen |-> MaxGen, desired |-> s.mode,
                    battery |-> IF s.mode = Local THEN High ELSE Low,
                    mode |-> s.mode, paused |-> FALSE, ack |-> s.gen, staged |-> 0,
                    telAfter |-> TRUE, cmd |-> NoCommand, cmdDue |-> FALSE,
                    placed |-> s.mode, stage |-> NoStage, thresholds |-> s.told]
        /\ dev = [gen |-> s.gen, staged |-> 0, mode |-> s.mode, paused |-> FALSE,
                  battery |-> s.battery, booting |-> FALSE]
        /\ host = [active |-> IF s.mode = Edge THEN s.gen ELSE 0,
                   staged |-> IF s.mode = Edge THEN 0 ELSE s.gen, up |-> TRUE]
  BY DEF Init
<1>2. /\ cache = store /\ rec = [pc |-> "idle"] /\ cmds = <<>> /\ tel = <<>>
      /\ mem = [stage |-> NoStage, act |-> NoActivation] /\ sent = NoStage
      /\ wake = [queued |-> TRUE, timer |-> FALSE]
  BY DEF Init
<1>3. /\ s.gen \in 1..MaxGen /\ s.mode \in {Local, Edge} /\ s.battery \in {Low, High}
      /\ s.told \in BOOLEAN
  BY OperatorAssumption
<1>4. /\ s.gen \in 0..MaxGen /\ 0 \in 0..MaxGen /\ MaxGen \in 1..MaxGen
  BY <1>3, OperatorAssumption
<1>5. NoCommand \in Ids /\ NoStage \in Stages
      /\ NoActivation \in [id : Ids, due : BOOLEAN] /\ NoStage.gen = 0
  BY Constants, <1>4, Zenon DEF Ids, NoCommand
<1>6. store \in WasmFunctions /\ store.gen = MaxGen
  <2>1. (IF s.mode = Local THEN High ELSE Low) \in {Nil, Low, High}
    OBVIOUS
  <2>2. s.mode \in {"", Local, Edge}
    BY <1>3
  <2> QED
    BY <1>1, <1>3, <1>4, <1>5, <2>1, <2>2, Zenon DEF WasmFunctions, Ids, Stages
<1>7. dev \in Devices /\ dev.staged = 0 /\ Report(dev).ack = store.ack
      /\ Report(dev).staged = store.staged
  BY <1>1, <1>3, <1>4, Zenon DEF Devices, Report
<1>8. host \in Hosts
  <2>1. /\ (IF s.mode = Edge THEN s.gen ELSE 0) \in 0..MaxGen
        /\ (IF s.mode = Edge THEN 0 ELSE s.gen) \in 0..MaxGen
    BY <1>4
  <2> QED
    BY <1>1, <2>1, Zenon DEF Hosts
<1>9. mem \in Memories
  BY <1>2, <1>5 DEF Memories
<1>10. wake \in [queued : BOOLEAN, timer : BOOLEAN]
  BY <1>2
<1>11. rec.pc # "decide" /\ rec \in {[pc |-> "idle"]}
  BY <1>2
<1>12. cmds \in Seq(Commands) /\ tel \in Seq(Reports) /\ Len(cmds) = 0 /\ Len(tel) = 0
  BY <1>2
<1>13. Types
  BY <1>2, <1>5, <1>6, <1>7, <1>8, <1>9, <1>10, <1>11, <1>12, Zenon DEF Types
<1>14. Flow
  BY <1>2, <1>7, <1>12 DEF Flow, Before, Acked, Ready
<1>15. CommandsHeld /\ Remembered
  BY <1>2, <1>5, <1>12 DEF CommandsHeld, Remembered
<1> QED
  BY <1>13, <1>14, <1>15 DEF Inv

\* Steps that only move the reconcile, the host or the work queue.
LEMMA QuietInv ==
  ASSUME Inv, UNCHANGED <<store, cache, mem, dev, cmds, tel, sent>>,
         rec' \in {[pc |-> "idle"]} \cup Deciding \cup Writing,
         rec'.pc = "decide" => rec'.w = cache,
         host' \in Hosts, wake' \in [queued : BOOLEAN, timer : BOOLEAN]
  PROVE  Inv'
<1>1. Types'
  BY DEF Inv, Types
<1>2. Flow'
  BY DEF Inv, Flow, Report
<1>3. CommandsHeld' /\ Remembered'
  BY DEF Inv, CommandsHeld, Remembered, Report
<1> QED
  BY <1>1, <1>2, <1>3 DEF Inv

LEMMA BeginInv ==
  ASSUME Inv, \/ SourceError \/ HostError \/ HostHolds \/ Upload \/ UploadAnswerLost
              \/ AnswerLost
  PROVE  Inv'
<1>1. cache \in WasmFunctions /\ cache.gen = MaxGen /\ host \in Hosts
      /\ wake \in [queued : BOOLEAN, timer : BOOLEAN]
  BY DEF Inv, Types
<1>2. PICK art : Begin(art) /\ art \in Artifacts
  <2>1. ASSUME NEW e \in {"", "source", "host"}, NEW g \in {0, MaxGen},
               NEW a \in BOOLEAN, NEW s \in BOOLEAN, NEW u \in BOOLEAN
        PROVE  Artifact(e, g, a, s, u) \in Artifacts
    BY Zenon DEF Artifact, Artifacts
  <2>2. cache.gen \in {0, MaxGen} /\ 0 \in {0, MaxGen}
    BY <1>1
  <2>3. (host.active = cache.gen) \in BOOLEAN /\ (host.staged = cache.gen) \in BOOLEAN
    OBVIOUS
  <2>4. CASE SourceError
    BY <2>1, <2>2, <2>4, Zenon DEF SourceError
  <2>5. CASE HostError
    BY <2>1, <2>2, <2>5, Zenon DEF HostError
  <2>6. CASE HostHolds
    BY <2>1, <2>2, <2>3, <2>6, Zenon DEF HostHolds
  <2>7. CASE Upload
    BY <2>1, <2>2, <2>7, Zenon DEF Upload
  <2>8. CASE UploadAnswerLost
    BY <2>1, <2>2, <2>8, Zenon DEF UploadAnswerLost
  <2>9. CASE AnswerLost
    BY <2>1, <2>2, <2>9, Zenon DEF AnswerLost
  <2> QED
    BY <2>4, <2>5, <2>6, <2>7, <2>8, <2>9
<1>3. UNCHANGED <<store, cache, mem, dev, cmds, tel, sent>>
  BY <1>2 DEF Begin
<1>4. rec' = [pc |-> "decide", w |-> cache, art |-> art]
      /\ wake' = [wake EXCEPT !.queued = FALSE]
  BY <1>2 DEF Begin
<1>5. rec' \in Deciding /\ rec'.w = cache
  BY <1>1, <1>2, <1>4 DEF Deciding
<1>6. host' \in Hosts
  <2>1. host' = host \/ host' = [host EXCEPT !.staged = cache.gen]
    BY DEF SourceError, HostError, HostHolds, Upload, UploadAnswerLost, AnswerLost
  <2>2. MaxGen \in 0..MaxGen
    BY OperatorAssumption
  <2> QED
    BY <1>1, <2>1, <2>2 DEF Hosts
<1>7. wake' \in [queued : BOOLEAN, timer : BOOLEAN]
  BY <1>1, <1>4
<1> QED
  BY <1>3, <1>5, <1>6, <1>7, QuietInv

LEMMA HostInv ==
  ASSUME Inv, HostRestart \/ HostUp \/ UpdateConflict \/ UNCHANGED vars
  PROVE  Inv'
<1>1. host \in Hosts /\ wake \in [queued : BOOLEAN, timer : BOOLEAN]
      /\ rec \in {[pc |-> "idle"]} \cup Deciding \cup Writing
      /\ (rec.pc = "decide" => rec.w = cache)
  BY DEF Inv, Types
<1>2. UNCHANGED <<store, cache, mem, dev, cmds, tel, sent>>
  BY DEF HostRestart, HostUp, UpdateConflict, vars
<1>3. host' \in Hosts
  <2>1. 0 \in 0..MaxGen
    BY OperatorAssumption
  <2>2. [active |-> 0, staged |-> 0, up |-> FALSE] \in Hosts
    BY <2>1, Zenon DEF Hosts
  <2>3. [host EXCEPT !.up = TRUE] \in Hosts
    BY <1>1 DEF Hosts
  <2> QED
    BY <1>1, <2>2, <2>3 DEF HostRestart, HostUp, UpdateConflict, vars
<1>4. wake' \in [queued : BOOLEAN, timer : BOOLEAN]
  <2>1. wake' \in {wake, [wake EXCEPT !.queued = TRUE]}
    BY DEF HostRestart, HostUp, UpdateConflict, vars
  <2> QED
    BY <1>1, <2>1
<1>5. rec' = rec \/ rec' = [pc |-> "idle"]
  BY DEF HostRestart, HostUp, UpdateConflict, vars
<1>6. rec' = [pc |-> "idle"] => rec'.pc # "decide"
  OBVIOUS
<1> QED
  BY <1>1, <1>2, <1>3, <1>4, <1>5, <1>6, QuietInv

\* A reconcile publishes activations only on the device's word, and remembers the
\* stage attempt it publishes.
LEMMA CommandInv ==
  ASSUME Inv, NEW f, Command(f)
  PROVE  Inv'
<1>1. Types /\ Flow /\ CommandsHeld /\ Remembered
  BY DEF Inv
<1>2. PICK c \in Contexts, d \in {Decision(rec.w, rec.art, host.up)} :
           /\ rec.pc = "decide" /\ Publish(c, d)
           /\ d.desired \in {Local, Edge} /\ d.battery \in {Nil, Low, High}
           /\ "stage" \in KindsOut(c) =>
                StageDue(Context) /\ ~Ready(cache) /\ c.mem.stage = Claim
           /\ KindsOut(c) \cap {"activate", "edge"} # {} => Ready(cache)
           /\ c.mem.stage \in {mem.stage, Claim} \/ Ready(cache)
  BY <1>1, CommandFacts
<1>3. /\ cmds' = cmds \o c.out /\ mem' = c.mem /\ host' = c.host
      /\ UNCHANGED <<store, cache, wake, dev, tel>>
  BY <1>2 DEF Publish
<1>4. /\ c.out \in Seq(Commands) /\ c.mem \in Memories /\ c.host \in Hosts
      /\ c.w \in WasmFunctions /\ c.commanded \in BOOLEAN
  BY DEF Contexts
<1>5. cmds \in Seq(Commands)
  BY <1>1 DEF Types
<1>6. rec.w.gen = MaxGen
  BY <1>1, <1>2, ContextType
<1>7. sent' = IF "stage" \in KindsOut(c) THEN Claim ELSE sent
  <2>1. sent' = IF \E i \in DOMAIN c.out : c.out[i].kind = "stage"
                THEN [gen |-> rec.w.gen, due |-> FALSE] ELSE sent
    BY <1>2 DEF Publish
  <2>2. (\E i \in DOMAIN c.out : c.out[i].kind = "stage") <=> "stage" \in KindsOut(c)
    BY <1>4 DEF KindsOut
  <2> QED
    BY <1>6, <2>1, <2>2 DEF Claim
<1>8. rec' \in Writing
  <2> DEFINE put == [desired |-> d.desired, battery |-> d.battery, cmd |-> c.w.cmd,
                     cmdDue |-> c.w.cmdDue, placed |-> c.w.placed,
                     stage |-> c.w.stage, thresholds |-> c.w.thresholds]
             requeue == Requeue(c.w, c.err \/ rec.art.error # "")
  <2>1. put \in Puts
    <3>1. c.w.cmd \in Ids /\ c.w.placed \in {"", Local, Edge} /\ c.w.stage \in Stages
          /\ c.w.cmdDue \in BOOLEAN /\ c.w.thresholds \in BOOLEAN
      BY <1>4 DEF WasmFunctions, Ids, Stages
    <3> QED
      BY <1>2, <3>1, Zenon DEF Puts
  <2>2. requeue \in {"soon", "when due", "no"}
    BY RequeueType
  <2>3. rec' = [pc |-> "status", commanded |-> c.commanded, heard |-> FALSE,
                put |-> put, requeue |-> requeue]
    BY <1>2 DEF Publish
  <2> HIDE DEF put, requeue
  <2> QED
    BY <1>4, <2>1, <2>2, <2>3, Zenon DEF Writing
<1>9. Claim \in Stages /\ Claim.gen = MaxGen /\ MaxGen # 0
  <2>1. MaxGen \in 0..MaxGen /\ MaxGen # 0
    BY OperatorAssumption
  <2> QED
    BY <2>1, Zenon DEF Claim, Stages
<1>10. Types'
  <2>1. cmds' \in Seq(Commands)
    BY <1>3, <1>4, <1>5
  <2>2. sent' \in Stages /\ (sent'.gen = 0 => sent' = NoStage)
    BY <1>1, <1>7, <1>9 DEF Types
  <2>3. rec'.pc # "decide"
    BY <1>8 DEF Writing
  <2> QED
    BY <1>1, <1>3, <1>4, <1>8, <2>1, <2>2, <2>3 DEF Types
<1>11. Flow'
  BY <1>1, <1>3 DEF Flow, Report
<1>12. CommandsHeld'
  <2> SUFFICES ASSUME NEW i \in 1..Len(cmds'), cmds'[i].kind \in {"activate", "edge"}
               PROVE  Ready(Report(dev))
    BY <1>3 DEF CommandsHeld, Report
  <2>1. Ready(cache) => Ready(Report(dev))
    BY <1>1 DEF Flow, Before
  <2>2. CASE i <= Len(cmds)
    <3>1. cmds'[i] = cmds[i] /\ i \in 1..Len(cmds)
      BY <1>3, <1>4, <1>5, <2>2
    <3> QED
      BY <1>1, <3>1 DEF CommandsHeld
  <2>3. CASE i > Len(cmds)
    <3>1. i - Len(cmds) \in 1..Len(c.out) /\ cmds'[i] = c.out[i - Len(cmds)]
      BY <1>3, <1>4, <1>5, <2>3
    <3>2. cmds'[i].kind \in KindsOut(c)
      BY <3>1 DEF KindsOut
    <3> QED
      BY <1>2, <2>1, <3>2
  <2> QED
    BY <1>3, <1>4, <1>5, <2>2, <2>3
<1>13. Remembered'
  <2>1. "stage" \in KindsOut(c) => mem'.stage = Claim
    BY <1>2, <1>3
  <2>2. "stage" \notin KindsOut(c) => sent' = sent
    BY <1>7
  <2>3. mem'.stage \in {mem.stage, Claim} \/ Ready(cache)
    BY <1>2, <1>3
  <2> QED
    BY <1>1, <1>3, <2>1, <2>2, <2>3 DEF Remembered, Claim
<1> QED
  BY <1>10, <1>11, <1>12, <1>13 DEF Inv

\* The informer catches up, or a new process lists everything anew.
LEMMA SyncInv ==
  ASSUME Inv, Sync \/ OperatorRestart
  PROVE  Inv'
<1>1. Types /\ Flow /\ CommandsHeld /\ Remembered
  BY DEF Inv
<1>2. cache' = store /\ UNCHANGED <<store, dev, host, cmds, tel>>
  BY DEF Sync, OperatorRestart
<1>3. \/ UNCHANGED <<mem, sent, rec>> /\ rec.pc # "decide"
      \/ /\ mem' = [stage |-> NoStage, act |-> NoActivation]
         /\ sent' = NoStage /\ rec' = [pc |-> "idle"]
  BY DEF Sync, OperatorRestart, NotDeciding
<1>4. wake' \in [queued : BOOLEAN, timer : BOOLEAN]
  <2>1. wake' = [wake EXCEPT !.queued = TRUE] \/ wake' = [queued |-> TRUE, timer |-> FALSE]
    BY DEF Sync, OperatorRestart
  <2>2. [queued |-> TRUE, timer |-> FALSE] \in [queued : BOOLEAN, timer : BOOLEAN]
    BY Zenon
  <2>3. [wake EXCEPT !.queued = TRUE] \in [queued : BOOLEAN, timer : BOOLEAN]
    BY <1>1 DEF Types
  <2> QED
    BY <2>1, <2>2, <2>3
<1>5. mem' \in Memories /\ sent' \in Stages /\ (sent'.gen = 0 => sent' = NoStage)
  BY <1>1, <1>3, Constants DEF Types, Memories
<1>6. rec' \in {[pc |-> "idle"]} \cup Deciding \cup Writing /\ rec'.pc # "decide"
  BY <1>1, <1>3 DEF Types
<1>7. Types'
  BY <1>1, <1>2, <1>4, <1>5, <1>6 DEF Types
<1>8. Flow'
  BY <1>1, <1>2 DEF Flow, Before, Report
<1>9. CommandsHeld'
  BY <1>1, <1>2 DEF CommandsHeld, Report
<1>10. Remembered'
  <2>1. Ready(cache) => Ready(cache')
    BY <1>1, <1>2 DEF Flow, Before
  <2>2. CASE UNCHANGED <<mem, sent>>
    BY <1>1, <2>1, <2>2 DEF Remembered, Ready
  <2>3. CASE sent' = NoStage
    BY <2>3, Constants DEF Remembered
  <2> QED
    BY <1>3, <2>2, <2>3
<1> QED
  BY <1>7, <1>8, <1>9, <1>10 DEF Inv

\* The status update carries what the API server has, in everything that was reported.
LEMMA UpdateInv ==
  ASSUME Inv, UpdateStatus
  PROVE  Inv'
<1>1. Types /\ Flow /\ CommandsHeld /\ Remembered
  BY DEF Inv
<1>2. /\ cache = store /\ store' = MergedStatus /\ rec' = [pc |-> "idle"]
      /\ UNCHANGED <<cache, mem, dev, host, cmds, tel, sent>>
  BY DEF UpdateStatus
<1>3. rec \in Writing /\ rec.put \in Puts /\ rec.heard \in BOOLEAN
  BY <1>1, RecTypes DEF UpdateStatus, Writing
<1>4. /\ DOMAIN cache = {"gen", "desired", "battery", "mode", "paused", "ack", "staged",
                         "telAfter", "cmd", "cmdDue", "placed", "thresholds", "stage"}
      /\ cache \in WasmFunctions
  BY <1>1 DEF Types, WasmFunctions
<1>5. DOMAIN rec.put = {"desired", "battery", "cmd", "cmdDue", "placed", "stage", "thresholds"}
  BY <1>3 DEF Puts
<1>6. /\ store'.gen = cache.gen /\ store'.mode = cache.mode
      /\ store'.paused = cache.paused /\ store'.ack = cache.ack
      /\ store'.staged = cache.staged
      /\ store'.telAfter \in {cache.telAfter, rec.heard}
  BY <1>2, <1>4, <1>5 DEF MergedStatus
<1>7. /\ store'.desired = rec.put.desired /\ store'.battery = rec.put.battery
      /\ store'.cmd = rec.put.cmd /\ store'.cmdDue = rec.put.cmdDue
      /\ store'.placed = rec.put.placed /\ store'.stage = rec.put.stage
      /\ store'.thresholds = rec.put.thresholds
  BY <1>2, <1>4, <1>5 DEF MergedStatus
<1>8. store' \in WasmFunctions
  <2>1. store' = [f \in DOMAIN cache |-> store'[f]]
    BY <1>2 DEF MergedStatus
  <2>2. store' = [gen |-> store'.gen, desired |-> store'.desired,
                  battery |-> store'.battery, mode |-> store'.mode,
                  paused |-> store'.paused, ack |-> store'.ack,
                  staged |-> store'.staged, telAfter |-> store'.telAfter,
                  cmd |-> store'.cmd, cmdDue |-> store'.cmdDue,
                  placed |-> store'.placed, thresholds |-> store'.thresholds,
                  stage |-> store'.stage]
    BY <1>4, <2>1
  <2>3. /\ store'.gen \in 1..MaxGen /\ store'.desired \in {"", Local, Edge}
        /\ store'.battery \in {Nil, Low, High} /\ store'.mode \in {"", Local, Edge}
        /\ store'.ack \in 0..MaxGen /\ store'.staged \in 0..MaxGen
        /\ store'.cmd \in (Kinds \cup {""}) \X (0..MaxGen)
        /\ store'.placed \in {"", Local, Edge}
        /\ store'.stage \in [gen : 0..MaxGen, due : BOOLEAN]
    BY <1>3, <1>4, <1>6, <1>7 DEF WasmFunctions, Puts, Ids, Stages
  <2>4. /\ store'.paused \in BOOLEAN /\ store'.telAfter \in BOOLEAN
        /\ store'.cmdDue \in BOOLEAN /\ store'.thresholds \in BOOLEAN
    BY <1>3, <1>4, <1>6, <1>7 DEF WasmFunctions, Puts
  <2> QED
    BY <2>2, <2>3, <2>4, Zenon DEF WasmFunctions
<1>9. wake' \in [queued : BOOLEAN, timer : BOOLEAN]
  BY DEF UpdateStatus
<1>10. Types'
  <2>1. rec'.pc # "decide" /\ rec' \in {[pc |-> "idle"]}
    BY <1>2
  <2> QED
    BY <1>1, <1>2, <1>6, <1>8, <1>9, <2>1 DEF Types
<1>11. Flow'
  BY <1>1, <1>2, <1>6 DEF Flow, Before, Acked, Ready, Report
<1>12. CommandsHeld' /\ Remembered'
  BY <1>1, <1>2 DEF CommandsHeld, Remembered, Report
<1> QED
  BY <1>10, <1>11, <1>12 DEF Inv

\* Time makes attempts due; it teaches nobody anything about the device.
LEMMA TickInv ==
  ASSUME Inv, Tick
  PROVE  Inv'
<1>1. Types /\ Flow /\ CommandsHeld /\ Remembered
  BY DEF Inv
<1>2. /\ store' = OverdueStatus(store) /\ cache' = OverdueStatus(cache)
      /\ mem' = [stage |-> Overdue(mem.stage), act |-> Overdue(mem.act)]
      /\ sent' = Overdue(sent)
      /\ UNCHANGED <<rec, dev, host, cmds, tel>> /\ rec.pc = "idle"
  BY DEF Tick
<1>3. ASSUME NEW x \in Stages
      PROVE  /\ Overdue(x) \in Stages /\ Overdue(x).gen = x.gen
             /\ Overdue(x) = NoStage \/ Overdue(x).due = TRUE \/ x = NoActivation
  BY DEF Overdue, Stages
<1>4. ASSUME NEW x \in [id : Ids, due : BOOLEAN]
      PROVE  Overdue(x) \in [id : Ids, due : BOOLEAN]
  BY DEF Overdue
<1>5. ASSUME NEW w \in WasmFunctions
      PROVE  /\ OverdueStatus(w) \in WasmFunctions
             /\ OverdueStatus(w).gen = w.gen /\ OverdueStatus(w).ack = w.ack
             /\ OverdueStatus(w).staged = w.staged
  <2> DEFINE due == w.cmd[1] \in {"activate", "edge"}
             stage == IF w.gen \in {w.ack, w.staged} THEN w.stage ELSE Overdue(w.stage)
  <2>1. due \in BOOLEAN
    OBVIOUS
  <2>2. stage \in [gen : 0..MaxGen, due : BOOLEAN]
    BY <1>3 DEF WasmFunctions, Stages
  <2>3. OverdueStatus(w) = [w EXCEPT !.cmdDue = due, !.stage = stage]
    BY DEF OverdueStatus, WasmFunctions
  <2> HIDE DEF due, stage
  <2> QED
    BY <2>1, <2>2, <2>3 DEF WasmFunctions
<1>7. Types'
  <2>1. mem' \in Memories
    BY <1>1, <1>2, <1>3, <1>4 DEF Types, Memories
  <2>2. sent' \in Stages /\ (sent'.gen = 0 => sent' = NoStage)
    BY <1>1, <1>2, <1>3 DEF Types, Overdue
  <2>3. wake' \in [queued : BOOLEAN, timer : BOOLEAN]
    BY <1>1 DEF Tick, Types
  <2> QED
    BY <1>1, <1>2, <1>5, <2>1, <2>2, <2>3 DEF Types
<1>8. Flow'
  BY <1>1, <1>2, <1>5 DEF Types, Flow, Before, Acked, Ready, Report
<1>9. CommandsHeld'
  BY <1>1, <1>2 DEF CommandsHeld, Report
<1>10. Remembered'
  <2>1. sent \in Stages /\ sent # NoActivation
    <3>1. sent \in Stages
      BY <1>1 DEF Types
    <3>2. "gen" \in DOMAIN sent
      BY <3>1 DEF Stages
    <3>3. "gen" \notin DOMAIN NoActivation
      BY DEF NoActivation
    <3> QED
      BY <3>1, <3>2, <3>3
  <2>2. sent'.gen = 0 \/ sent'.due = TRUE
    BY <1>2, <1>3, <2>1, Constants
  <2> QED
    BY <2>2 DEF Remembered
<1> QED
  BY <1>7, <1>8, <1>9, <1>10 DEF Inv

\* The device never goes back behind a release it holds.
LEMMA MaxOfTwo ==
  ASSUME NEW a \in Nat, NEW b \in Nat
  PROVE  Max({a, b}) \in {a, b} /\ Max({a, b}) >= a /\ Max({a, b}) >= b
<1>1. \E x \in {a, b} : \A y \in {a, b} : x >= y
  OBVIOUS
<1> QED
  BY <1>1 DEF Max

LEMMA ReportFacts ==
  ASSUME NEW d \in Devices
  PROVE  Report(d) \in Reports /\ Report(d).ack = d.gen /\ Report(d).staged = d.staged
BY DEF Devices, Reports, Report

LEMMA HandledFacts ==
  ASSUME Types, NEW c \in Commands, NEW d \in Handled(c)
  PROVE  /\ d \in Devices /\ (d.staged = 0 \/ d.staged > d.gen)
         /\ Before(Report(dev), Report(d))
<1>1. dev \in Devices /\ (dev.staged = 0 \/ dev.staged > dev.gen)
  BY DEF Types
<1>2. c.gen = MaxGen /\ c.kind \in Kinds
  BY DEF Commands
<1>3. /\ MaxGen \in Nat /\ MaxGen > 0
      /\ dev.gen \in 0..MaxGen /\ dev.staged \in 0..MaxGen
  BY <1>1, OperatorAssumption DEF Devices
<1>4. ASSUME d \in Devices, d.gen = dev.gen, d.staged = dev.staged
      PROVE  Before(Report(dev), Report(d))
  BY <1>1, <1>4, ReportFacts DEF Before, Acked, Ready
<1>5. CASE c.kind = "stage"
  <2> DEFINE newest == Max({dev.gen, dev.staged})
             s == IF c.gen > newest THEN c.gen ELSE dev.staged
  <2>1. newest \in {dev.gen, dev.staged} /\ newest >= dev.gen
    BY <1>3, MaxOfTwo
  <2>2. d = [dev EXCEPT !.staged = s]
    BY <1>5 DEF Handled
  <2> HIDE DEF newest
  <2>3. /\ s \in 0..MaxGen /\ (s = 0 \/ s > dev.gen)
        /\ dev.staged = MaxGen => s = MaxGen
    BY <1>1, <1>2, <1>3, <2>1
  <2> HIDE DEF s
  <2>4. d \in Devices /\ d.gen = dev.gen /\ d.staged = s
    BY <1>1, <2>2, <2>3 DEF Devices
  <2> QED
    BY <1>1, <2>3, <2>4, ReportFacts DEF Before, Acked, Ready
<1>6. CASE c.kind \in {"activate", "edge"}
  <2> DEFINE mode == IF c.kind = "edge" THEN Edge ELSE Local
             s == IF dev.staged = c.gen THEN 0 ELSE dev.staged
  <2>1. c.gen \in {dev.gen, dev.staged} /\ d = Activated(c.gen, mode)
    BY <1>6 DEF Handled
  <2>2. d = [dev EXCEPT !.gen = c.gen, !.mode = mode, !.booting = (mode # dev.mode),
                        !.staged = s]
    BY <1>1, <2>1 DEF Activated, Devices
  <2>3. mode \in {Local, Edge} /\ (mode # dev.mode) \in BOOLEAN
    OBVIOUS
  <2>4. s \in 0..MaxGen /\ s = 0
    BY <1>1, <1>2, <1>3, <2>1
  <2> HIDE DEF mode, s
  <2>5. d \in Devices /\ d.gen = MaxGen /\ d.staged = s
    <3>1. c.gen \in 0..MaxGen
      BY <1>2, <1>3
    <3>2. d \in Devices
      BY <1>1, <2>2, <2>3, <2>4, <3>1 DEF Devices
    <3>3. d.gen = MaxGen /\ d.staged = s
      BY <1>1, <1>2, <2>2 DEF Devices
    <3> QED
      BY <3>2, <3>3
  <2> QED
    BY <2>4, <2>5, ReportFacts DEF Before, Acked, Ready
<1>7. CASE c.kind \in {"pause", "resume"}
  <2>1. d \in {[dev EXCEPT !.paused = TRUE], [dev EXCEPT !.paused = FALSE]}
    BY <1>7 DEF Handled
  <2>2. d \in Devices /\ d.gen = dev.gen /\ d.staged = dev.staged
    BY <1>1, <2>1 DEF Devices
  <2> QED
    BY <1>1, <1>4, <2>2
<1>8. CASE c.kind = "thresholds"
  BY <1>8 DEF Handled
<1> QED
  BY <1>2, <1>5, <1>6, <1>7, <1>8 DEF Kinds

\* A device that reports adds the newest knowledge at the end.
LEMMA ReportingInv ==
  ASSUME Inv, UNCHANGED <<store, cache, rec, mem, wake, host, sent>>,
         NEW d \in Devices, d.staged = 0 \/ d.staged > d.gen,
         Before(Report(dev), Report(d)), dev' = d,
         tel' = Append(tel, Report(d)), cmds' \in {cmds, Tail(cmds)}, cmds' # cmds => cmds # <<>>
  PROVE  Inv'
<1>1. Types /\ Flow /\ CommandsHeld /\ Remembered
  BY DEF Inv
<1>2. Report(d) \in Reports /\ Report(dev)' = Report(d)
  BY ReportFacts DEF Report
<1>3. tel \in Seq(Reports) /\ cmds \in Seq(Commands)
  BY <1>1 DEF Types
<1>4. cmds' \in Seq(Commands) /\ tel' \in Seq(Reports)
  <2>1. cmds # <<>> => Tail(cmds) \in Seq(Commands)
    BY <1>3
  <2>2. Append(tel, Report(d)) \in Seq(Reports)
    BY <1>2, <1>3
  <2> QED
    BY <1>3, <2>1, <2>2
<1>5. Types'
  BY <1>1, <1>4 DEF Types
<1>6. Flow'
  <2>1. /\ Len(tel') = Len(tel) + 1 /\ tel'[Len(tel) + 1] = Report(d)
        /\ \A i \in 1..Len(tel) : tel'[i] = tel[i]
        /\ Len(tel) \in Nat
    BY <1>2, <1>3
  <2>2. Before(store, Report(d)) /\ \A i \in 1..Len(tel) : Before(tel[i], Report(d))
    BY <1>1 DEF Flow, Before
  <2>3. Before(Report(d), Report(d))
    BY DEF Before
  <2> HIDE DEF Inv
  <2>4. \A i \in 1..Len(tel') : i \in 1..Len(tel) \/ tel'[i] = Report(d)
    BY <2>1
  <2>5. \A i \in 1..Len(tel') : Before(store, tel'[i]) /\ Before(tel'[i], Report(d))
    BY <1>1, <2>1, <2>2, <2>3, <2>4 DEF Flow
  <2>6. \A i, j \in 1..Len(tel') : i <= j => Before(tel'[i], tel'[j])
    <3> SUFFICES ASSUME NEW i \in 1..Len(tel'), NEW j \in 1..Len(tel'), i <= j
                 PROVE  Before(tel'[i], tel'[j])
      OBVIOUS
    <3>1. CASE j \in 1..Len(tel)
      <4>1. i \in 1..Len(tel)
        BY <2>1, <3>1
      <4> QED
        BY <1>1, <2>1, <3>1, <4>1 DEF Flow
    <3>2. CASE tel'[j] = Report(d)
      BY <2>5, <3>2
    <3> QED
      BY <2>4, <3>1, <3>2
  <2>7. Before(cache, store)
    BY <1>1 DEF Flow
  <2> QED
    BY <1>2, <2>2, <2>5, <2>6, <2>7 DEF Flow, Before, Acked, Ready
<1>7. CommandsHeld'
  <2> SUFFICES ASSUME NEW i \in 1..Len(cmds'), cmds'[i].kind \in {"activate", "edge"}
               PROVE  Ready(Report(d))
    BY <1>2 DEF CommandsHeld
  <2>1. \E j \in 1..Len(cmds) : cmds'[i] = cmds[j]
    <3>1. CASE cmds' = cmds
      BY <3>1
    <3>2. CASE cmds' # cmds
      <4>1. cmds # <<>> /\ cmds' = Tail(cmds)
        BY <3>2
      <4>2. Len(cmds') = Len(cmds) - 1 /\ Len(cmds) \in Nat /\ cmds'[i] = cmds[i + 1]
        BY <1>3, <4>1
      <4> QED
        BY <4>2
    <3> QED
      BY <3>1, <3>2
  <2>2. Ready(Report(dev))
    BY <1>1, <2>1 DEF CommandsHeld
  <2> QED
    BY <2>2 DEF Before
<1>8. Remembered'
  BY <1>1 DEF Remembered
<1> QED
  BY <1>5, <1>6, <1>7, <1>8 DEF Inv

\* A command that is lost or rejected leaves only the queue shorter.
LEMMA DroppedInv ==
  ASSUME Inv, UNCHANGED <<store, cache, rec, mem, wake, host, sent, dev, tel>>,
         cmds # <<>>, cmds' = Tail(cmds)
  PROVE  Inv'
<1>1. Types /\ Flow /\ CommandsHeld /\ Remembered
  BY DEF Inv
<1>2. cmds \in Seq(Commands)
  BY <1>1 DEF Types
<1>3. Tail(cmds) \in Seq(Commands)
  BY <1>2
<1>4. Types'
  BY <1>1, <1>3 DEF Types
<1>5. CommandsHeld'
  <2> SUFFICES ASSUME NEW i \in 1..Len(cmds'), cmds'[i].kind \in {"activate", "edge"}
               PROVE  Ready(Report(dev))
    BY DEF CommandsHeld, Report
  <2>1. Len(cmds') = Len(cmds) - 1 /\ Len(cmds) \in Nat /\ cmds'[i] = cmds[i + 1]
    BY <1>2
  <2> QED
    BY <1>1, <2>1 DEF CommandsHeld
<1>6. Flow' /\ Remembered'
  BY <1>1 DEF Flow, Remembered, Report
<1> QED
  BY <1>4, <1>5, <1>6 DEF Inv

\* A report that is lost leaves a gap: what comes after it knows more, not less.
LEMMA LoseReportInv ==
  ASSUME Inv, LoseReport
  PROVE  Inv'
<1>1. Types /\ Flow /\ CommandsHeld /\ Remembered
  BY DEF Inv
<1>2. /\ tel \in Seq(Reports) /\ tel # <<>> /\ tel' = Tail(tel)
      /\ UNCHANGED <<store, cache, rec, mem, wake, dev, host, cmds, sent>>
  BY <1>1 DEF LoseReport, Types
<1>3. /\ Len(tel) \in Nat /\ Len(tel') = Len(tel) - 1 /\ tel' \in Seq(Reports)
      /\ \A i \in 1..Len(tel') : tel'[i] = tel[i + 1] /\ i + 1 \in 1..Len(tel)
  BY <1>2
<1>4. Types'
  BY <1>1, <1>2, <1>3 DEF Types
<1>5. \A i \in 1..Len(tel') : Before(store, tel'[i]) /\ Before(tel'[i], Report(dev))
  BY <1>1, <1>3 DEF Flow
<1>6. ASSUME NEW i \in 1..Len(tel'), NEW j \in 1..Len(tel'), i <= j
      PROVE  Before(tel'[i], tel'[j])
  <2>1. /\ i + 1 \in 1..Len(tel) /\ j + 1 \in 1..Len(tel) /\ i + 1 <= j + 1
        /\ tel'[i] = tel[i + 1] /\ tel'[j] = tel[j + 1]
    BY <1>3, <1>6
  <2> QED
    BY <1>1, <2>1 DEF Flow
<1>7. store' = store /\ cache' = cache /\ Report(dev)' = Report(dev)
  BY <1>2 DEF Report
<1>8. Before(cache, store) /\ Before(store, Report(dev))
  BY <1>1 DEF Flow
<1>9. Flow'
  BY <1>5, <1>6, <1>7, <1>8 DEF Flow, Before, Acked, Ready
<1>10. CommandsHeld' /\ Remembered'
  BY <1>1, <1>2 DEF CommandsHeld, Remembered, Report
<1> QED
  BY <1>4, <1>9, <1>10 DEF Inv

LEMMA DeviceInv ==
  ASSUME Inv, Deliver \/ Lose \/ LoseReport \/ Boot \/ Invoke
  PROVE  Inv'
<1>1. Types
  BY DEF Inv
<1>2. dev \in Devices /\ (dev.staged = 0 \/ dev.staged > dev.gen) /\ cmds \in Seq(Commands)
  BY <1>1 DEF Types
<1>3. Before(Report(dev), Report(dev))
  BY DEF Before
<1>4. CASE Deliver
  <2>1. cmds # <<>> /\ cmds' = Tail(cmds)
        /\ UNCHANGED <<store, cache, rec, mem, wake, host, sent>>
    BY <1>4 DEF Deliver
  <2>2. CASE UNCHANGED <<dev, tel>>
    BY <2>1, <2>2, DroppedInv
  <2>3. CASE \E d \in Handled(Head(cmds)) : dev' = d /\ tel' = Append(tel, Report(d))
    <3>1. PICK d \in Handled(Head(cmds)) : dev' = d /\ tel' = Append(tel, Report(d))
      BY <2>3
    <3>2. Head(cmds) \in Commands
      BY <1>2, <2>1
    <3>3. /\ d \in Devices /\ (d.staged = 0 \/ d.staged > d.gen)
          /\ Before(Report(dev), Report(d))
      BY <1>1, <3>1, <3>2, HandledFacts
    <3> QED
      BY <2>1, <3>1, <3>3, ReportingInv
  <2> QED
    BY <1>4, <2>2, <2>3 DEF Deliver
<1>5. CASE Lose
  <2>1. /\ cmds # <<>> /\ cmds' = Tail(cmds)
        /\ UNCHANGED <<store, cache, rec, mem, wake, host, sent, dev, tel>>
    BY <1>5 DEF Lose
  <2> QED
    BY <2>1, DroppedInv
<1>6. CASE Boot
  <2> DEFINE d == [dev EXCEPT !.booting = FALSE]
  <2>1. dev' = d /\ tel' = Append(tel, Report(dev)) /\ cmds' = cmds
        /\ UNCHANGED <<store, cache, rec, mem, wake, host, sent>>
    BY <1>6 DEF Boot
  <2>2. d \in Devices /\ d.gen = dev.gen /\ d.staged = dev.staged
    BY <1>2 DEF Devices
  <2>3. Report(d) = Report(dev)
    BY <1>2 DEF Report, Devices
  <2> HIDE DEF d
  <2> QED
    BY <1>2, <1>3, <2>1, <2>2, <2>3, ReportingInv
<1>7. CASE Invoke
  <2>1. /\ tel = <<>> /\ tel' = <<Report(dev)>>
        /\ UNCHANGED <<store, cache, rec, mem, wake, host, sent, dev, cmds>>
    BY <1>7 DEF Invoke
  <2>2. tel' = Append(tel, Report(dev))
    BY <2>1
  <2> QED
    BY <1>2, <1>3, <2>1, <2>2, ReportingInv
<1>8. CASE LoseReport
  BY <1>8, LoseReportInv
<1> QED
  BY <1>4, <1>5, <1>6, <1>7, <1>8

\* The patch is made against the cache and applied to the API server: a field in
\* which the report agrees with an old cache keeps what the server has.
LEMMA TelemetryInv ==
  ASSUME Inv, ApplyTelemetry
  PROVE  Inv'
<1> DEFINE t == Head(tel)
<1>1. Types /\ Flow /\ CommandsHeld /\ Remembered
  BY DEF Inv
<1>2. /\ tel \in Seq(Reports) /\ tel # <<>> /\ tel' = Tail(tel)
      /\ UNCHANGED <<cache, mem, dev, host, cmds, sent>>
      /\ rec.pc # "decide"
  BY <1>1 DEF ApplyTelemetry, Types, NotDeciding
<1>3. /\ t = tel[1] /\ t \in Reports /\ 1 \in 1..Len(tel)
      /\ Len(tel) \in Nat /\ Len(tel') = Len(tel) - 1 /\ tel' \in Seq(Reports)
      /\ \A i \in 1..Len(tel') : tel'[i] = tel[i + 1] /\ i + 1 \in 1..Len(tel)
  BY <1>2
<1>4. store' = [f \in DOMAIN store |->
                  IF f = "telAfter" THEN TRUE
                  ELSE IF f \in TelemetryFields /\ t[f] # cache[f] THEN t[f]
                  ELSE store[f]]
  BY DEF ApplyTelemetry
<1> HIDE DEF t
<1>5. /\ DOMAIN store = {"gen", "desired", "battery", "mode", "paused", "ack", "staged",
                         "telAfter", "cmd", "cmdDue", "placed", "thresholds", "stage"}
      /\ store \in WasmFunctions
  BY <1>1 DEF Types, WasmFunctions
<1>6. /\ store'.gen = store.gen /\ store'.desired = store.desired
      /\ store'.cmd = store.cmd /\ store'.cmdDue = store.cmdDue
      /\ store'.placed = store.placed /\ store'.thresholds = store.thresholds
      /\ store'.stage = store.stage /\ store'.telAfter = TRUE
  BY <1>4, <1>5 DEF TelemetryFields
<1>7. /\ store'.battery = IF t.battery # cache.battery THEN t.battery ELSE store.battery
      /\ store'.mode = IF t.mode # cache.mode THEN t.mode ELSE store.mode
      /\ store'.paused = IF t.paused # cache.paused THEN t.paused ELSE store.paused
  BY <1>4, <1>5 DEF TelemetryFields
<1>8. /\ store'.ack = IF t.ack # cache.ack THEN t.ack ELSE store.ack
      /\ store'.staged = IF t.staged # cache.staged THEN t.staged ELSE store.staged
  BY <1>4, <1>5 DEF TelemetryFields
<1>9. store' \in WasmFunctions
  <2>1. store' = [f \in DOMAIN store |-> store'[f]]
    BY <1>4
  <2>2. store' = [gen |-> store'.gen, desired |-> store'.desired,
                  battery |-> store'.battery, mode |-> store'.mode,
                  paused |-> store'.paused, ack |-> store'.ack,
                  staged |-> store'.staged, telAfter |-> store'.telAfter,
                  cmd |-> store'.cmd, cmdDue |-> store'.cmdDue,
                  placed |-> store'.placed, thresholds |-> store'.thresholds,
                  stage |-> store'.stage]
    BY <1>5, <2>1
  <2>3. /\ store'.gen \in 1..MaxGen /\ store'.desired \in {"", Local, Edge}
        /\ store'.battery \in {Nil, Low, High} /\ store'.mode \in {"", Local, Edge}
        /\ store'.ack \in 0..MaxGen /\ store'.staged \in 0..MaxGen
        /\ store'.cmd \in (Kinds \cup {""}) \X (0..MaxGen)
        /\ store'.placed \in {"", Local, Edge}
        /\ store'.stage \in [gen : 0..MaxGen, due : BOOLEAN]
    BY <1>3, <1>5, <1>6, <1>7, <1>8 DEF WasmFunctions, Reports
  <2>4. /\ store'.cmdDue \in BOOLEAN /\ store'.thresholds \in BOOLEAN
        /\ store'.telAfter \in BOOLEAN
    BY <1>5, <1>6 DEF WasmFunctions
  <2>5. store'.paused \in BOOLEAN
    BY <1>3, <1>5, <1>7 DEF WasmFunctions, Reports
  <2> QED
    BY <2>2, <2>3, <2>4, <2>5, Zenon DEF WasmFunctions
<1>10. rec' \in {[pc |-> "idle"]} \cup Deciding \cup Writing /\ rec'.pc # "decide"
  <2>1. CASE rec.pc = "status"
    <3>1. rec \in Writing /\ rec' = [rec EXCEPT !.heard = TRUE]
      BY <1>1, <2>1, RecTypes DEF ApplyTelemetry
    <3>2. rec' \in Writing /\ rec'.pc = "status"
      BY <3>1 DEF Writing
    <3> QED
      BY <3>2
  <2>2. CASE rec.pc # "status"
    <3>1. rec' = rec
      BY <2>2 DEF ApplyTelemetry
    <3> QED
      BY <1>1, <1>2, <3>1 DEF Types
  <2> QED
    BY <2>1, <2>2
<1>11. wake' \in [queued : BOOLEAN, timer : BOOLEAN]
  <2>1. wake' = [wake EXCEPT !.queued = (wake.queued \/ store' = store)]
    BY DEF ApplyTelemetry
  <2> QED
    BY <1>1, <2>1 DEF Types
<1>12. Types'
  BY <1>1, <1>2, <1>3, <1>6, <1>9, <1>10, <1>11 DEF Types
<1>13. Flow'
  <2>1. /\ Before(cache, store) /\ Before(store, t) /\ Before(t, Report(dev))
        /\ Before(store, Report(dev))
        /\ \A i \in 1..Len(tel') : /\ Before(store, tel'[i]) /\ Before(t, tel'[i])
                                   /\ Before(tel'[i], Report(dev))
    BY <1>1, <1>3 DEF Flow
  <2>2. /\ store'.ack = MaxGen => store.ack = MaxGen \/ t.ack = MaxGen
        /\ store'.staged = MaxGen => store.staged = MaxGen \/ t.staged = MaxGen
    BY <1>8
  <2>3. Before(cache, store')
    BY <1>8, <2>1 DEF Before, Acked, Ready
  <2>4. \A x : Before(store, x) /\ Before(t, x) => Before(store', x)
    BY <2>2 DEF Before, Acked, Ready
  <2>5. Report(dev)' = Report(dev) /\ cache' = cache
    BY <1>2 DEF Report
  <2>6. \A i, j \in 1..Len(tel') : i <= j => Before(tel'[i], tel'[j])
    <3> SUFFICES ASSUME NEW i \in 1..Len(tel'), NEW j \in 1..Len(tel'), i <= j
                 PROVE  Before(tel'[i], tel'[j])
      OBVIOUS
    <3>1. /\ i + 1 \in 1..Len(tel) /\ j + 1 \in 1..Len(tel) /\ i + 1 <= j + 1
          /\ tel'[i] = tel[i + 1] /\ tel'[j] = tel[j + 1]
      BY <1>3
    <3> QED
      BY <1>1, <3>1 DEF Flow
  <2>7. /\ Before(store', Report(dev))
        /\ \A i \in 1..Len(tel') : Before(store', tel'[i]) /\ Before(tel'[i], Report(dev))
    BY <2>1, <2>4
  <2> QED
    BY <2>3, <2>5, <2>6, <2>7 DEF Flow, Before, Acked, Ready
<1>14. CommandsHeld' /\ Remembered'
  BY <1>1, <1>2 DEF CommandsHeld, Remembered, Report
<1> QED
  BY <1>12, <1>13, <1>14 DEF Inv

LEMMA StepInv == Inv /\ [Next]_vars => Inv'
BY BeginInv, CommandInv, UpdateInv, SyncInv, TelemetryInv, DeviceInv, HostInv, TickInv
DEF Next

LEMMA OperatorInvariance == Spec => []Inv
BY InitInv, StepInv, PTL DEF Spec

-----------------------------------------------------------------------------
(* What follows from the invariant. *)

\* The status, the work queue and the slots keep their types, and the device never
\* keeps a staged release that is not newer than the active one.
THEOREM OperatorTypes == Spec => []TypeOK
<1>1. Inv => TypeOK
  <2> SUFFICES ASSUME Inv PROVE TypeOK
    OBVIOUS
  <2>1. Types
    BY DEF Inv
  <2>2. rec.pc \in {"idle", "decide", "status"}
    BY <2>1, RecTypes
  <2>3. host.active \in 0..MaxGen /\ host.staged \in 0..MaxGen
    BY <2>1 DEF Types, Hosts
  <2> QED
    BY <2>1, <2>2, <2>3 DEF Types, TypeOK
<1> QED
  BY <1>1, OperatorInvariance, PTL

\* Whatever is lost, repeated or late, however old the cache is and whenever the
\* operator restarts: every activation on its way is for a release that the device
\* holds at that moment.
THEOREM ActivationsAreHeld == Spec => []ActivatesOnlyHeld
<1>1. Inv => ActivatesOnlyHeld
  <2> SUFFICES ASSUME Inv, NEW i \in DOMAIN cmds, cmds[i].kind \in {"activate", "edge"}
               PROVE  cmds[i].gen <= Max({dev.gen, dev.staged})
    BY DEF ActivatesOnlyHeld
  <2>1. cmds \in Seq(Commands) /\ dev \in Devices
    BY DEF Inv, Types
  <2>2. i \in 1..Len(cmds) /\ cmds[i] \in Commands
    BY <2>1
  <2>3. cmds[i].gen = MaxGen
    BY <2>2 DEF Commands
  <2>4. dev.gen = MaxGen \/ dev.staged = MaxGen
    BY <2>1, <2>2, ReportFacts DEF Inv, CommandsHeld, Ready
  <2>5. dev.gen \in Nat /\ dev.staged \in Nat
    BY <2>1, OperatorAssumption DEF Devices
  <2> QED
    BY <2>3, <2>4, <2>5, MaxOfTwo
<1> QED
  BY <1>1, OperatorInvariance, PTL

\* An operator process repeats stage_release only when the retry delay of its last
\* attempt has passed, also when it decides on a cache that missed that attempt.
THEOREM StagingIsPaced == Spec => StagePaced
<1> DEFINE Paced == \A i \in Len(cmds) + 1 .. Len(cmds') :
                      cmds'[i] = [kind |-> "stage", gen |-> sent.gen] => sent.due
<1>1. ASSUME Inv, [Next]_vars PROVE Paced
  <2>1. Types /\ cmds \in Seq(Commands) /\ Len(cmds) \in Nat
    BY <1>1 DEF Inv, Types
  <2>2. ASSUME NEW f, Command(f) PROVE Paced
    <3>1. PICK c \in Contexts, d \in {Decision(rec.w, rec.art, host.up)} :
            /\ rec.pc = "decide" /\ Publish(c, d)
            /\ "stage" \in KindsOut(c) => StageDue(Context) /\ ~Ready(cache)
      BY <2>1, <2>2, CommandFacts
    <3> SUFFICES ASSUME NEW i \in Len(cmds) + 1 .. Len(cmds'),
                        cmds'[i] = [kind |-> "stage", gen |-> sent.gen], ~sent.due
                 PROVE  FALSE
      OBVIOUS
    <3>2. c.out \in Seq(Commands) /\ cmds' = cmds \o c.out
      BY <3>1 DEF Publish, Contexts
    <3>3. i - Len(cmds) \in 1..Len(c.out) /\ cmds'[i] = c.out[i - Len(cmds)]
      BY <2>1, <3>2
    <3>4. cmds'[i] \in Commands
      BY <3>2, <3>3
    <3>5. cmds'[i].kind = "stage" /\ sent.gen = MaxGen /\ MaxGen # 0
      BY <3>4, OperatorAssumption DEF Commands
    <3>6. "stage" \in KindsOut(c)
      BY <3>3, <3>5 DEF KindsOut
    <3>7. StageDue(Context) /\ ~Ready(cache)
      BY <3>1, <3>6
    <3>8. mem.stage = Claim
      BY <1>1, <3>5, <3>7 DEF Inv, Remembered, Claim
    <3>9. Context.mem = mem /\ Context.w.gen = MaxGen
      BY <2>1, <3>1, ContextType
    <3> DEFINE known == {s \in {Context.w.stage, Context.mem.stage} : s.gen = Context.w.gen}
               last == CHOOSE s \in known : \A o \in known : s.due => o.due
    <3>10. Claim \in known /\ Claim.gen = MaxGen /\ ~Claim.due
      BY <3>8, <3>9 DEF Claim
    <3>11. last \in known /\ ~last.due
      BY <3>10
    <3>12. LastStageSend(Context) = last
      BY <3>10 DEF LastStageSend
    <3>13. last # NoStage
      BY <3>5, <3>9, <3>11, Constants
    <3> HIDE DEF last
    <3> QED
      BY <3>7, <3>11, <3>12, <3>13 DEF StageDue
  <2>3. ASSUME cmds' = cmds \/ (cmds # <<>> /\ cmds' = Tail(cmds)) PROVE Paced
    <3>1. Len(cmds') <= Len(cmds) /\ Len(cmds') \in Nat
      BY <2>1, <2>3
    <3> QED
      BY <2>1, <3>1
  <2>4. \/ \E f : Command(f)
        \/ cmds' = cmds \/ (cmds # <<>> /\ cmds' = Tail(cmds))
    BY <1>1 DEF Next, vars, SourceError, HostError, HostHolds, Upload, UploadAnswerLost,
                AnswerLost, Begin, UpdateStatus, UpdateConflict, Sync, OperatorRestart,
                ApplyTelemetry, Deliver, Lose, LoseReport, Boot, Invoke, HostRestart, HostUp, Tick
  <2> HIDE DEF Paced
  <2> QED
    BY <2>2, <2>3, <2>4
<1>2. Inv /\ [Next]_vars => [Paced]_vars
  BY <1>1
<1> QED
  BY <1>2, OperatorInvariance, PTL DEF Spec, StagePaced
=============================================================================
