------------------------ MODULE DeviceReleaseProofs ------------------------
(***************************************************************************)
(* Proofs about DeviceRelease, for every set of releases, every bound and  *)
(* every choice of late commands.                                          *)
(***************************************************************************)
EXTENDS DeviceRelease, TLAPS

\* What the assumptions on the constants say about one tuple of a slot.
LEMMA SlotFacts ==
  /\ \A r \in Releases : /\ r.gen \in Nat
                         /\ r.gen > 0
                         /\ r.art \in Artifacts
                         /\ r.ctr \in Artifacts
                         /\ r \in Slots
                         /\ r # NoRelease
                         /\ r # Bootstrap
  /\ \A s \in Slots : s.gen \in Nat /\ s.art \in Contents /\ s.ctr \in Contents
  /\ \A g \in Generations : g \in Nat /\ g > 0
  /\ NoRelease \in Slots /\ NoRelease.gen = 0 /\ NoRelease.art = None
  /\ NoRelease.ctr = None
  /\ Bootstrap \in Slots /\ Bootstrap.gen = 0 /\ Bootstrap.art = Base
  /\ Bootstrap.ctr = Base
  /\ NoRelease # Bootstrap
<1>1. \A r \in Releases : /\ r.gen \in Nat /\ r.gen > 0 /\ r.art \in Artifacts
                          /\ r.ctr \in Artifacts
                          /\ r = [gen |-> r.gen, art |-> r.art, ctr |-> r.ctr]
  BY ReleaseAssumption
<1>2. /\ NoRelease.gen = 0 /\ NoRelease.art = None /\ NoRelease.ctr = None
      /\ Bootstrap.gen = 0 /\ Bootstrap.art = Base /\ Bootstrap.ctr = Base
  BY DEF NoRelease, Bootstrap
<1>3. Base # None /\ Base \in Artifacts
  BY ReleaseAssumption
<1>4. \A r \in Releases : r # NoRelease /\ r # Bootstrap
  BY <1>1, <1>2
<1>5. \A g \in Generations : g \in Nat /\ g > 0
  BY <1>1 DEF Generations
<1>6. \A s \in Slots : s.gen \in Nat /\ s.art \in Contents /\ s.ctr \in Contents
  BY <1>5 DEF Slots
<1>7. \A r \in Releases : r \in Slots
  <2> TAKE r \in Releases
  <2>1. r.gen \in Generations /\ r.art \in Contents /\ r.ctr \in Contents
    BY <1>1 DEF Generations, Contents
  <2> QED
    BY <1>1, <2>1 DEF Slots
<1>8. NoRelease \in Slots /\ Bootstrap \in Slots
  BY <1>3 DEF NoRelease, Bootstrap, Slots, Contents
<1> QED
  BY <1>1, <1>2, <1>3, <1>4, <1>5, <1>6, <1>7, <1>8

\* What a setter that stops halfway leaves in a slot.
LEMMA TornFacts ==
  ASSUME NEW old \in Slots, NEW new \in Slots, NEW s \in Torn(old, new)
  PROVE  /\ s \in Slots
         /\ s.gen \in {old.gen, new.gen}
         /\ s.art \in {old.art, new.art}
         /\ s.ctr = old.ctr
BY DEF Torn, Slots

LEMMA ErasingFacts ==
  ASSUME NEW old \in Slots, NEW s \in Erasing(old)
  PROVE  s \in Slots /\ s.gen \in {old.gen, 0}
<1>1. None \in Contents
  BY DEF Contents
<1> QED
  BY <1>1 DEF Erasing, Slots

\* Types of the values that the actions assign.
LEMMA ValueTypes ==
  /\ NoJob \in Jobs
  /\ \A r \in Releases : StageJob(r) \in Jobs
  /\ \A g \in Generations, m \in Modes : ActivateJob(g, m) \in Jobs
  /\ Erased \in Nvs
  /\ CtlIdle \in [pc : ControlSteps, job : Jobs]
  /\ \A ctr \in Artifacts \ BadContracts : compile_contract_policy(ctr) = ctr
  /\ \A ctr \in BadContracts : compile_contract_policy(ctr) = None
  /\ \A ctr \in Contents : compile_contract_policy(ctr) \in Contents
  /\ None \in Contents
  /\ Artifacts \subseteq Contents
<1>1. NoJob \in Jobs
  BY SlotFacts DEF NoJob, Jobs, Modes
<1>2. \A r \in Releases : StageJob(r) \in Jobs
  BY SlotFacts DEF StageJob, Jobs, Modes, Generations
<1>3. \A g \in Generations, m \in Modes : ActivateJob(g, m) \in Jobs
  BY SlotFacts DEF ActivateJob, Jobs
<1>4. Erased \in Nvs
  BY SlotFacts DEF Erased, Nvs, Modes
<1>5. CtlIdle \in [pc : ControlSteps, job : Jobs]
  BY <1>1 DEF CtlIdle, ControlSteps
<1>6. /\ \A ctr \in Artifacts \ BadContracts :
           compile_contract_policy(ctr) = ctr
      /\ \A ctr \in BadContracts : compile_contract_policy(ctr) = None
      /\ \A ctr \in Contents : compile_contract_policy(ctr) \in Contents
  BY DEF compile_contract_policy, Contents
<1> QED
  BY <1>1, <1>2, <1>3, <1>4, <1>5, <1>6 DEF Contents

\* The counter of troubles stays within its bound.
LEMMA TroublesType ==
  ASSUME TypeOK, Works \/ Fails
  PROVE  troubles' \in 0..MaxTroubles
BY BoundAssumption DEF TypeOK, Works, Fails

\* What NVS holds whenever the board may start: whole or torn, its tuples are
\* ordered and the active contract compiles.
Bootable(n) ==
  /\ n \in Nvs
  /\ n.active.art # None
  /\ n.active.ctr \in Artifacts \ BadContracts
  /\ n.staged.gen > 0 => n.staged.gen >= n.active.gen
  /\ n.active.gen >= nvs.active.gen
  /\ n.paused = nvs.paused

LEMMA NvsBootable ==
  ASSUME Inv
  PROVE  Bootable(nvs)
<1>1. nvs.active.gen \in Nat
  BY SlotFacts DEF Inv, TypeOK, Nvs
<1> QED
  BY <1>1 DEF Inv, TypeOK, OnlyNewer, Bootable

LEMMA HalfStagedFacts ==
  ASSUME Inv, job.rel \in Releases, job.rel.gen > nvs.active.gen,
         NEW n \in HalfStaged
  PROVE  /\ Bootable(n)
         /\ n.active = nvs.active
         /\ n.staged.gen \in {nvs.staged.gen, job.rel.gen}
         /\ n.mode = nvs.mode
<1>1. PICK s \in Torn(nvs.staged, job.rel) : n = [nvs EXCEPT !.staged = s]
  BY DEF HalfStaged
<1>2. nvs.staged \in Slots /\ nvs.active \in Slots /\ job.rel \in Slots
      /\ nvs.active.gen \in Nat /\ nvs.staged.gen \in Nat /\ job.rel.gen \in Nat
  BY SlotFacts DEF Inv, TypeOK, Nvs
<1>3. s \in Slots /\ s.gen \in {nvs.staged.gen, job.rel.gen}
  BY <1>2, TornFacts
<1>4. /\ n \in Nvs /\ n.active = nvs.active /\ n.staged = s
      /\ n.mode = nvs.mode /\ n.paused = nvs.paused
  BY <1>1, <1>3 DEF Inv, TypeOK, Nvs
<1> QED
  BY <1>2, <1>3, <1>4 DEF Bootable, Inv, OnlyNewer

LEMMA HalfAdoptedFacts ==
  ASSUME Inv, wk = "adopt", NEW n \in HalfAdopted
  PROVE  /\ Bootable(n)
         /\ n.active.gen \in {nvs.active.gen, nvs.staged.gen}
         /\ n.staged.gen \in {nvs.staged.gen, 0}
         /\ n.mode = nvs.mode
<1>1. /\ snap.staged = nvs.staged /\ valid(nvs.staged)
      /\ nvs.staged.ctr \notin BadContracts
      /\ nvs.staged.gen > nvs.active.gen
  BY DEF Inv, SnapshotCurrent
<1>2. nvs.staged \in Slots /\ nvs.active \in Slots
      /\ nvs.active.gen \in Nat /\ nvs.staged.gen \in Nat
      /\ nvs.staged.ctr \in Contents
  BY SlotFacts DEF Inv, TypeOK, Nvs
<1>3. /\ nvs.staged.ctr \in Artifacts \ BadContracts
      /\ nvs.staged.art # None
  BY <1>1, <1>2 DEF valid, Contents
<1>4. CASE \E s \in Torn(nvs.active, snap.staged) : n = [nvs EXCEPT !.active = s]
  <2>1. PICK s \in Torn(nvs.active, nvs.staged) : n = [nvs EXCEPT !.active = s]
    BY <1>1, <1>4
  <2>2. /\ s \in Slots /\ s.gen \in {nvs.active.gen, nvs.staged.gen}
        /\ s.art \in {nvs.active.art, nvs.staged.art} /\ s.ctr = nvs.active.ctr
    BY <1>2, TornFacts
  <2>3. /\ n \in Nvs /\ n.active = s /\ n.staged = nvs.staged
        /\ n.mode = nvs.mode /\ n.paused = nvs.paused
    BY <2>1, <2>2 DEF Inv, TypeOK, Nvs
  <2> QED
    BY <1>1, <1>2, <1>3, <2>2, <2>3 DEF Bootable, Inv, OnlyNewer
<1>5. CASE \E s \in Erasing(nvs.staged) :
             n = [nvs EXCEPT !.active = snap.staged, !.staged = s]
  <2>1. PICK s \in Erasing(nvs.staged) :
          n = [nvs EXCEPT !.active = snap.staged, !.staged = s]
    BY <1>5
  <2>2. s \in Slots /\ s.gen \in {nvs.staged.gen, 0}
    BY <1>2, ErasingFacts
  <2>3. /\ n \in Nvs /\ n.active = nvs.staged /\ n.staged = s
        /\ n.mode = nvs.mode /\ n.paused = nvs.paused
    BY <1>1, <1>2, <2>1, <2>2 DEF Inv, TypeOK, Nvs
  <2> QED
    BY <1>1, <1>2, <1>3, <2>2, <2>3 DEF Bootable
<1> QED
  BY <1>4, <1>5 DEF HalfAdopted

LEMMA InterruptedBootable ==
  ASSUME Inv, NEW n \in Interrupted
  PROVE  Bootable(n) /\ n.mode = nvs.mode
<1>1. CASE n = nvs
  BY <1>1, NvsBootable
<1>2. CASE wk = "commit" /\ n \in HalfStaged
  <2>1. job.rel \in Releases /\ job.rel.gen > nvs.active.gen
    BY <1>2 DEF Inv, OneTransition, OnlyNewer, StageSteps
  <2> QED
    BY <1>2, <2>1, HalfStagedFacts
<1>3. CASE wk = "adopt" /\ n \in HalfAdopted
  BY <1>3, HalfAdoptedFacts
<1> QED
  BY <1>1, <1>2, <1>3 DEF Interrupted

\* The board starts with whatever a reset left.
LEMMA BootInv ==
  ASSUME Inv, NEW n, Bootable(n), Boot(n), troubles' \in 0..MaxTroubles
  PROVE  Inv'
<1>1. compile_contract_policy(n.active.ctr) = n.active.ctr
      /\ n.active.ctr \in Contents /\ n.active.ctr # None
  BY ValueTypes, ReleaseAssumption DEF Bootable
<1>2. TypeOK'
  <2>1. run' \in [mode : Modes, code : Contents, policy : Contents]
        /\ run'.policy # None
    BY <1>1, ValueTypes, ReleaseAssumption
    DEF Boot, Start, ActiveBytes, Bootable, Nvs, Inv, TypeOK
  <2>2. gate' \in BOOLEAN
    BY DEF Boot, Start
  <2>3. damage' \subseteq {"torn", "boot"}
    BY DEF Boot, TearingFrom, Inv, TypeOK
  <2>4. admitted' \in 0..MaxInvocations
    BY BoundAssumption DEF Boot, Start
  <2> QED
    BY <2>1, <2>2, <2>3, <2>4, ValueTypes
    DEF Boot, Start, Bootable, Inv, TypeOK, WorkerSteps
<1>3. OneTransition' /\ SnapshotCurrent'
  BY DEF Boot, Start, OneTransition, SnapshotCurrent, StageSteps, ActivateSteps
<1>4. OnlyNewer'
  BY DEF Boot, Start, Bootable, OnlyNewer, NoJob, CtlIdle
<1>5. Whole'
  <2>1. CASE [n EXCEPT !.mode = nvs.mode] = nvs
    <3>1. n.active = nvs.active /\ n.staged = nvs.staged
      BY <2>1 DEF Bootable, Nvs
    <3> QED
      BY <3>1 DEF Boot, Inv, Whole
  <2>2. CASE [n EXCEPT !.mode = nvs.mode] # nvs
    BY <2>2 DEF Boot, TearingFrom, Whole
  <2> QED
    BY <2>1, <2>2
<1> QED
  BY <1>2, <1>3, <1>4, <1>5 DEF Inv

\* What a boot whose load failed may leave active.
LEMMA FirstBootFacts ==
  ASSUME Inv, NEW n, Bootable(n),
         NEW act \in Torn(n.active, FirstBoot) \cup {FirstBoot}
  PROVE  /\ act \in Slots
         /\ act.gen \in {n.active.gen, 0}
         /\ act.art # None
         /\ act.ctr \in Artifacts \ BadContracts
<1>1. /\ FirstBoot \in Slots /\ FirstBoot.gen = 0
      /\ FirstBoot.art # None /\ FirstBoot.ctr = Base
  BY ReleaseAssumption
  DEF FirstBoot, ActiveBytes, Slots, Contents, Inv, TypeOK
<1>2. n.active \in Slots
  BY DEF Bootable, Nvs
<1>3. CASE act = FirstBoot
  BY <1>1, <1>3, ReleaseAssumption
<1>4. CASE act \in Torn(n.active, FirstBoot)
  <2>1. /\ act \in Slots
        /\ act.gen \in {n.active.gen, FirstBoot.gen}
        /\ act.art \in {n.active.art, FirstBoot.art}
        /\ act.ctr = n.active.ctr
    BY <1>1, <1>2, <1>4, TornFacts
  <2> QED
    BY <1>1, <2>1 DEF Bootable
<1> QED
  BY <1>3, <1>4

\* And what it starts with.
LEMMA MisbootInv ==
  ASSUME Inv, NEW n, Bootable(n), Misboot(n), troubles' \in 0..MaxTroubles
  PROVE  Inv'
<1>1. PICK act \in Torn(n.active, FirstBoot) \cup {FirstBoot} :
        /\ nvs' = [n EXCEPT !.active = act]
        /\ \/ Start("Local", FALSE, None)
           \/ \E policy \in {None, compile_contract_policy(act.ctr)} :
                Start(n.mode, n.paused, policy)
  BY DEF Misboot
<1>2. /\ act \in Slots /\ act.gen \in {n.active.gen, 0}
      /\ act.art # None /\ act.ctr \in Artifacts \ BadContracts
  BY FirstBootFacts
<1>3. /\ nvs' \in Nvs /\ nvs'.active = act /\ nvs'.staged = n.staged
  BY <1>1, <1>2 DEF Bootable, Nvs
<1>4. PICK m \in Modes, p \in BOOLEAN, policy \in Contents : Start(m, p, policy)
  <2>1. n.mode \in Modes /\ n.paused \in BOOLEAN /\ "Local" \in Modes
    BY DEF Bootable, Nvs, Modes
  <2>2. None \in Contents /\ compile_contract_policy(act.ctr) \in Contents
    BY <1>2, ValueTypes
  <2> QED
    BY <1>1, <2>1, <2>2
<1>5. damage' \subseteq {"torn", "boot"} /\ "boot" \in damage'
  BY DEF Misboot, TearingFrom, Inv, TypeOK
<1>6. TypeOK'
  <2>1. run' \in [mode : Modes, code : Contents, policy : Contents]
    BY <1>4, ValueTypes, ReleaseAssumption
    DEF Start, ActiveBytes, Inv, TypeOK
  <2>2. gate' \in BOOLEAN
    BY <1>4 DEF Start
  <2>3. admitted' \in 0..MaxInvocations
    BY <1>4, BoundAssumption DEF Start
  <2> QED
    BY <1>3, <1>4, <1>5, <2>1, <2>2, <2>3, ValueTypes
    DEF Start, Inv, TypeOK, WorkerSteps
<1>7. OneTransition' /\ SnapshotCurrent'
  BY <1>4 DEF Start, OneTransition, SnapshotCurrent, StageSteps, ActivateSteps
<1>8. OnlyNewer'
  <2>1. n.active.gen \in Nat /\ n.staged.gen \in Nat
    BY SlotFacts DEF Bootable, Nvs
  <2> QED
    BY <1>2, <1>3, <1>4, <2>1 DEF Start, Bootable, OnlyNewer, NoJob, CtlIdle
<1>9. Whole'
  BY <1>5 DEF Whole
<1> QED
  BY <1>6, <1>7, <1>8, <1>9 DEF Inv

LEMMA InitInv == Init => Inv
<1> SUFFICES ASSUME Init PROVE Inv
  OBVIOUS
<1> USE SlotFacts, ValueTypes, ReleaseAssumption, BoundAssumption DEF Init
<1>1. TypeOK
  BY DEF TypeOK, Contents, Modes, WorkerSteps
<1>2. OneTransition
  BY DEF OneTransition, StageSteps, ActivateSteps
<1>3. SnapshotCurrent
  BY DEF SnapshotCurrent
<1>4. OnlyNewer
  BY DEF OnlyNewer, Erased, NoJob, CtlIdle
<1>5. Whole
  BY DEF Whole, Erased
<1> QED
  BY <1>1, <1>2, <1>3, <1>4, <1>5 DEF Inv

\* Each command handler step keeps the invariant.
LEMMA ControlInv == Inv /\ Control => Inv'
<1> SUFFICES ASSUME Inv, Control PROVE Inv'
  OBVIOUS
<1>1. ASSUME NEW r \in Releases, StageCheck(r) PROVE Inv'
  <2> USE <1>1
  <2>1. TypeOK'
    BY ValueTypes DEF StageCheck, Inv, TypeOK, ControlSteps
  <2>2. OneTransition'
    BY DEF StageCheck, Inv, OneTransition
  <2>3. SnapshotCurrent'
    BY DEF StageCheck, Inv, SnapshotCurrent
  <2>4. OnlyNewer'
    <3>1. nvs.active.gen \in Nat /\ nvs.staged.gen \in Nat /\ r.gen \in Nat
      BY SlotFacts DEF Inv, TypeOK, Nvs
    <3> QED
      BY <3>1 DEF StageCheck, Stale, KnownGeneration, StageJob, Inv, OnlyNewer
  <2>5. Whole'
    BY SlotFacts DEF StageCheck, Inv, TypeOK, Nvs, Whole
  <2> QED
    BY <2>1, <2>2, <2>3, <2>4, <2>5 DEF Inv
<1>2. ASSUME NEW g \in Generations, NEW m \in Modes, ActivateCheck(g, m)
      PROVE  Inv'
  <2> USE <1>2
  <2>1. TypeOK'
    BY ValueTypes DEF ActivateCheck, Inv, TypeOK, ControlSteps
  <2>2. OneTransition'
    BY DEF ActivateCheck, Inv, OneTransition
  <2>3. SnapshotCurrent'
    BY DEF ActivateCheck, Inv, SnapshotCurrent
  <2>4. OnlyNewer'
    BY DEF ActivateCheck, Matches, valid, ActivateJob, Inv, OnlyNewer
  <2>5. Whole'
    BY SlotFacts DEF ActivateCheck, Inv, TypeOK, Nvs, Whole
  <2> QED
    BY <2>1, <2>2, <2>3, <2>4, <2>5 DEF Inv
<1>3. ASSUME Lock PROVE Inv'
  <2> USE <1>3
  <2>1. TypeOK'
    BY ValueTypes DEF Lock, Inv, TypeOK
  <2>2. OneTransition'
    BY DEF Lock, Busy, Inv, OneTransition
  <2>3. SnapshotCurrent'
    BY DEF Lock, Inv, SnapshotCurrent
  <2>4. OnlyNewer'
    BY DEF Lock, CtlIdle, Inv, OnlyNewer
  <2>5. Whole'
    BY SlotFacts DEF Lock, Inv, TypeOK, Nvs, Whole
  <2> QED
    BY <2>1, <2>2, <2>3, <2>4, <2>5 DEF Inv
<1>4. ASSUME NEW g \in Generations \cup {0}, PauseCheck(g) PROVE Inv'
  <2> USE <1>4
  <2>1. TypeOK'
    BY ValueTypes DEF PauseCheck, Inv, TypeOK, ControlSteps
  <2>2. OneTransition'
    BY DEF PauseCheck, Inv, OneTransition
  <2>3. SnapshotCurrent'
    BY DEF PauseCheck, Inv, SnapshotCurrent
  <2>4. OnlyNewer'
    BY DEF PauseCheck, Inv, OnlyNewer
  <2>5. Whole'
    BY SlotFacts DEF PauseCheck, Inv, TypeOK, Nvs, Whole
  <2> QED
    BY <2>1, <2>2, <2>3, <2>4, <2>5 DEF Inv
<1>5. ASSUME NEW g \in Generations \cup {0}, ResumeCheck(g) PROVE Inv'
  <2> USE <1>5
  <2>1. TypeOK'
    BY ValueTypes DEF ResumeCheck, Inv, TypeOK, ControlSteps
  <2>2. OneTransition'
    BY DEF ResumeCheck, Inv, OneTransition
  <2>3. SnapshotCurrent'
    BY DEF ResumeCheck, Inv, SnapshotCurrent
  <2>4. OnlyNewer'
    BY DEF ResumeCheck, Inv, OnlyNewer
  <2>5. Whole'
    BY SlotFacts DEF ResumeCheck, Inv, TypeOK, Nvs, Whole
  <2> QED
    BY <2>1, <2>2, <2>3, <2>4, <2>5 DEF Inv
<1>6. ASSUME PauseGate PROVE Inv'
  <2> USE <1>6
  <2>1. TypeOK'
    <3>1. gate' \in BOOLEAN
      BY DEF PauseGate, Inv
    <3>2. ctl' \in [pc : ControlSteps, job : Jobs]
      BY ValueTypes DEF PauseGate, ControlSteps
    <3> QED
      BY <3>1, <3>2 DEF PauseGate, Inv, TypeOK
  <2>2. OneTransition'
    BY DEF PauseGate, Inv, OneTransition
  <2>3. SnapshotCurrent'
    BY DEF PauseGate, Inv, SnapshotCurrent
  <2>4. OnlyNewer'
    BY DEF PauseGate, Inv, OnlyNewer
  <2>5. Whole'
    BY SlotFacts DEF PauseGate, Inv, TypeOK, Nvs, Whole
  <2> QED
    BY <2>1, <2>2, <2>3, <2>4, <2>5 DEF Inv
<1>7. ASSUME PauseStore PROVE Inv'
  <2> USE <1>7
  <2>1. TypeOK'
    <3>1. nvs' \in Nvs
      BY DEF PauseStore, Inv, TypeOK, Nvs
    <3>2. asked' \in {"pause", "resume"}
      BY DEF PauseStore, Inv, TypeOK
    <3>3. ctl' \in [pc : ControlSteps, job : Jobs]
      BY ValueTypes DEF PauseStore
    <3>4. troubles' \in 0..MaxTroubles
      BY TroublesType DEF PauseStore, Inv
    <3> QED
      BY <3>1, <3>2, <3>3, <3>4 DEF PauseStore, Inv, TypeOK
  <2>2. OneTransition'
    BY DEF PauseStore, Inv, OneTransition
  <2>3. SnapshotCurrent'
    BY SlotFacts, ValueTypes DEF PauseStore, Inv, TypeOK, SnapshotCurrent,
       OnlyNewer, Nvs
  <2>4. OnlyNewer'
    BY SlotFacts, ValueTypes DEF PauseStore, CtlIdle, Inv, TypeOK, OnlyNewer,
       Nvs
  <2>5. Whole'
    BY SlotFacts DEF PauseStore, Inv, TypeOK, Nvs, Whole
  <2> QED
    BY <2>1, <2>2, <2>3, <2>4, <2>5 DEF Inv
<1>8. ASSUME ResumeStore PROVE Inv'
  <2> USE <1>8
  <2>1. TypeOK'
    <3>1. nvs' \in Nvs
      BY DEF ResumeStore, Inv, TypeOK, Nvs
    <3>2. asked' \in {"pause", "resume"}
      BY DEF ResumeStore, Inv, TypeOK
    <3>3. ctl' \in [pc : ControlSteps, job : Jobs]
      BY ValueTypes DEF ResumeStore, ControlSteps
    <3>4. troubles' \in 0..MaxTroubles
      BY TroublesType DEF ResumeStore, Inv
    <3> QED
      BY <3>1, <3>2, <3>3, <3>4 DEF ResumeStore, Inv, TypeOK
  <2>2. OneTransition'
    BY DEF ResumeStore, Inv, OneTransition
  <2>3. SnapshotCurrent'
    BY SlotFacts, ValueTypes DEF ResumeStore, Inv, TypeOK, SnapshotCurrent,
       OnlyNewer, Nvs
  <2>4. OnlyNewer'
    BY SlotFacts, ValueTypes DEF ResumeStore, CtlIdle, Inv, TypeOK, OnlyNewer,
       Nvs
  <2>5. Whole'
    BY SlotFacts DEF ResumeStore, Inv, TypeOK, Nvs, Whole
  <2> QED
    BY <2>1, <2>2, <2>3, <2>4, <2>5 DEF Inv
<1>9. ASSUME ResumeGate PROVE Inv'
  <2> USE <1>9
  <2>1. TypeOK'
    <3>1. gate' \in BOOLEAN
      BY DEF ResumeGate, Inv, TypeOK
    <3>2. ctl' \in [pc : ControlSteps, job : Jobs]
      BY ValueTypes DEF ResumeGate
    <3>3. troubles' \in 0..MaxTroubles
      BY TroublesType DEF ResumeGate, Inv
    <3> QED
      BY <3>1, <3>2, <3>3 DEF ResumeGate, Inv, TypeOK
  <2>2. OneTransition'
    BY DEF ResumeGate, Inv, OneTransition
  <2>3. SnapshotCurrent'
    BY DEF ResumeGate, Inv, SnapshotCurrent
  <2>4. OnlyNewer'
    BY DEF ResumeGate, CtlIdle, Inv, OnlyNewer
  <2>5. Whole'
    BY SlotFacts DEF ResumeGate, Inv, TypeOK, Nvs, Whole
  <2> QED
    BY <2>1, <2>2, <2>3, <2>4, <2>5 DEF Inv
<1> QED
  BY <1>1, <1>2, <1>3, <1>4, <1>5, <1>6, <1>7, <1>8, <1>9 DEF Control

\* Each step of the release worker keeps the invariant.
LEMMA WorkerInv == Inv /\ Worker => Inv'
<1> SUFFICES ASSUME Inv, Worker PROVE Inv'
  OBVIOUS
<1>1. ASSUME Begin PROVE Inv'
  <2> USE <1>1
  <2>1. TypeOK'
    <3>1. gate' \in BOOLEAN
      BY DEF Begin, Inv
    <3>2. wk' \in WorkerSteps
      BY DEF Begin, Goto, WorkerSteps
    <3> QED
      BY <3>1, <3>2 DEF Begin, Inv, TypeOK
  <2>2. OneTransition'
    BY DEF Begin, Goto, Busy, Inv, OneTransition, StageSteps, ActivateSteps
  <2>3. SnapshotCurrent'
    BY DEF Begin, Goto, Inv, SnapshotCurrent
  <2>4. OnlyNewer'
    BY DEF Begin, Inv, OnlyNewer
  <2>5. Whole'
    BY SlotFacts DEF Begin, Inv, TypeOK, Nvs, Whole
  <2> QED
    BY <2>1, <2>2, <2>3, <2>4, <2>5 DEF Inv
<1>2. ASSUME DrainDone PROVE Inv'
  <2> USE <1>2
  <2>1. TypeOK'
    BY DEF DrainDone, Goto, Inv, TypeOK, WorkerSteps, StageSteps, ActivateSteps
  <2>2. OneTransition'
    BY DEF DrainDone, Goto, Inv, TypeOK, OneTransition, OnlyNewer, Jobs,
       WorkerSteps, StageSteps, ActivateSteps
  <2>3. SnapshotCurrent'
    BY DEF DrainDone, Goto, Inv, SnapshotCurrent
  <2>4. OnlyNewer'
    BY DEF DrainDone, Inv, OnlyNewer
  <2>5. Whole'
    BY SlotFacts DEF DrainDone, Inv, TypeOK, Nvs, Whole
  <2> QED
    BY <2>1, <2>2, <2>3, <2>4, <2>5 DEF Inv
<1>3. ASSUME DrainTimeout PROVE Inv'
  <2> USE <1>3
  <2>1. TypeOK'
    BY ValueTypes DEF DrainTimeout, Goto, Inv, TypeOK, WorkerSteps
  <2>2. OneTransition'
    BY DEF DrainTimeout, Goto, Inv, OneTransition, StageSteps, ActivateSteps
  <2>3. SnapshotCurrent'
    BY DEF DrainTimeout, Goto, Inv, SnapshotCurrent
  <2>4. OnlyNewer'
    BY DEF DrainTimeout, Inv, OnlyNewer
  <2>5. Whole'
    BY SlotFacts DEF DrainTimeout, Inv, TypeOK, Nvs, Whole
  <2> QED
    BY <2>1, <2>2, <2>3, <2>4, <2>5 DEF Inv
<1>4. ASSUME Pull PROVE Inv'
  <2> USE <1>4
  <2>1. TypeOK'
    BY DEF Pull, Goto, Inv, TypeOK, WorkerSteps, StageSteps, ActivateSteps
  <2>2. OneTransition'
    BY DEF Pull, Goto, Inv, OneTransition, StageSteps, ActivateSteps
  <2>3. SnapshotCurrent'
    BY DEF Pull, Goto, Inv, SnapshotCurrent
  <2>4. OnlyNewer'
    BY DEF Pull, Inv, OnlyNewer
  <2>5. Whole'
    BY SlotFacts DEF Pull, Inv, TypeOK, Nvs, Whole
  <2> QED
    BY <2>1, <2>2, <2>3, <2>4, <2>5 DEF Inv
<1>5. ASSUME Verify PROVE Inv'
  <2> USE <1>5
  <2>1. TypeOK'
    BY ValueTypes DEF Verify, Goto, Inv, TypeOK, WorkerSteps, StageSteps,
       ActivateSteps
  <2>2. OneTransition'
    BY DEF Verify, Goto, Inv, OneTransition, StageSteps, ActivateSteps
  <2>3. SnapshotCurrent'
    BY DEF Verify, Goto, Inv, SnapshotCurrent
  <2>4. OnlyNewer'
    BY DEF Verify, Inv, OnlyNewer
  <2>5. Whole'
    BY SlotFacts DEF Verify, Inv, TypeOK, Nvs, Whole
  <2> QED
    BY <2>1, <2>2, <2>3, <2>4, <2>5 DEF Inv
<1>6. ASSUME Commit PROVE Inv'
  <2> USE <1>6
  <2>0. /\ wk = "commit" /\ nvs' \in Nvs /\ nvs'.active = nvs.active
        /\ nvs'.staged.gen \in {nvs.staged.gen, job.rel.gen}
        /\ nvs'.staged = job.rel \/ nvs' = nvs \/ "torn" \in damage'
        /\ job.rel \in Releases /\ job.rel.gen > nvs.active.gen
    <3>1. job.rel \in Releases /\ job.rel.gen > nvs.active.gen /\ wk = "commit"
      BY DEF Commit, Inv, OneTransition, OnlyNewer, StageSteps
    <3>2. CASE nvs' = [nvs EXCEPT !.staged = job.rel]
      BY <3>1, <3>2, SlotFacts DEF Inv, TypeOK, Nvs
    <3>3. CASE nvs' \in HalfStaged /\ damage' = damage \cup TearingFrom(nvs')
      BY <3>1, <3>3, HalfStagedFacts DEF TearingFrom, Bootable
    <3> QED
      BY <3>1, <3>2, <3>3 DEF Commit
  <2>1. TypeOK'
    <3>1. damage' \subseteq {"torn", "boot"} /\ damage \subseteq damage'
      BY DEF Commit, TearingFrom, Inv, TypeOK
    <3>2. fs' \in [active : Contents, staged : Contents, backup : Contents]
      BY ValueTypes DEF Commit, Inv, TypeOK
    <3>3. wk' \in WorkerSteps
      BY DEF Commit, Goto, WorkerSteps
    <3>4. troubles' \in 0..MaxTroubles
      BY TroublesType DEF Commit, Inv
    <3> QED
      BY <2>0, <3>1, <3>2, <3>3, <3>4 DEF Commit, Inv, TypeOK
  <2>2. OneTransition'
    BY DEF Commit, Goto, Inv, OneTransition, StageSteps, ActivateSteps
  <2>3. SnapshotCurrent'
    BY DEF Commit, Goto, Inv, SnapshotCurrent
  <2>4. OnlyNewer'
    <3>1. nvs.staged.gen \in Nat /\ nvs.active.gen \in Nat /\ job.rel.gen \in Nat
      BY <2>0, SlotFacts DEF Inv, TypeOK, Nvs
    <3>2. job.action = "Stage" /\ UNCHANGED <<job, ctl>>
      BY DEF Commit, Inv, OneTransition, StageSteps
    <3> QED
      BY <2>0, <3>1, <3>2 DEF Inv, OnlyNewer
  <2>5. Whole'
    <3>1. damage \subseteq damage'
      BY DEF Commit, TearingFrom
    <3> QED
      BY <2>0, <3>1 DEF Inv, Whole
  <2> QED
    BY <2>1, <2>2, <2>3, <2>4, <2>5 DEF Inv
<1>7. ASSUME Load PROVE Inv'
  <2> USE <1>7
  <2>1. TypeOK'
    BY DEF Load, Goto, Inv, TypeOK, WorkerSteps, StageSteps, ActivateSteps
  <2>2. OneTransition'
    BY DEF Load, Goto, Inv, OneTransition, StageSteps, ActivateSteps
  <2>3. SnapshotCurrent'
    <3>1. /\ nvs.active.gen \in Nat /\ nvs.staged.gen \in Nat
          /\ nvs.active.ctr # None /\ nvs.staged.ctr \in Contents
      BY SlotFacts, ReleaseAssumption DEF Inv, TypeOK, Nvs, OnlyNewer
    <3>2. CASE wk' \in {"reload", "backup"}
      <4>1. ActivatesStaged /\ StagedContractCompiles /\ UNCHANGED nvs
            /\ snap' = nvs
        BY <3>2 DEF Load, Goto
      <4>2. nvs.staged.ctr \notin BadContracts
        BY <4>1, ValueTypes DEF StagedContractCompiles
      <4>3. valid(nvs.staged) /\ nvs.staged.gen # nvs.active.gen
        BY <4>1, <3>1 DEF ActivatesStaged, Matches, valid, Inv, OnlyNewer
      <4>4. nvs.staged.gen > nvs.active.gen
        BY <4>3, <3>1 DEF valid, Inv, OnlyNewer
      <4> QED
        BY <3>2, <4>1, <4>2, <4>3, <4>4 DEF SnapshotCurrent
    <3> QED
      BY <3>2 DEF Load, Goto, SnapshotCurrent
  <2>4. OnlyNewer'
    BY DEF Load, Inv, OnlyNewer
  <2>5. Whole'
    BY SlotFacts DEF Load, Inv, TypeOK, Nvs, Whole
  <2> QED
    BY <2>1, <2>2, <2>3, <2>4, <2>5 DEF Inv
<1>8. ASSUME LoadError PROVE Inv'
  <2> USE <1>8
  <2>1. TypeOK'
    <3>1. wk' \in WorkerSteps
      BY DEF LoadError, Goto, WorkerSteps
    <3>2. troubles' \in 0..MaxTroubles
      BY TroublesType DEF LoadError, Inv
    <3> QED
      BY <3>1, <3>2 DEF LoadError, Inv, TypeOK
  <2>2. OneTransition'
    BY DEF LoadError, Goto, Inv, OneTransition, StageSteps, ActivateSteps
  <2>3. SnapshotCurrent'
    BY DEF LoadError, Goto, Inv, SnapshotCurrent
  <2>4. OnlyNewer'
    BY DEF LoadError, Inv, OnlyNewer
  <2>5. Whole'
    BY SlotFacts DEF LoadError, Inv, TypeOK, Nvs, Whole
  <2> QED
    BY <2>1, <2>2, <2>3, <2>4, <2>5 DEF Inv
<1>9. ASSUME Reload PROVE Inv'
  <2> USE <1>9
  <2>1. TypeOK'
    <3>1. run' \in [mode : Modes, code : Contents, policy : Contents]
      BY DEF Reload, Inv, TypeOK
    <3>2. wk' \in WorkerSteps
      BY DEF Reload, Goto, WorkerSteps, StageSteps, ActivateSteps
    <3>3. troubles' \in 0..MaxTroubles
      BY TroublesType DEF Reload, Inv
    <3> QED
      BY <3>1, <3>2, <3>3 DEF Reload, Inv, TypeOK
  <2>2. OneTransition'
    BY DEF Reload, Goto, Inv, OneTransition, StageSteps, ActivateSteps
  <2>3. SnapshotCurrent'
    BY DEF Reload, Goto, Inv, SnapshotCurrent
  <2>4. OnlyNewer'
    BY DEF Reload, Inv, OnlyNewer
  <2>5. Whole'
    BY SlotFacts DEF Reload, Inv, TypeOK, Nvs, Whole
  <2> QED
    BY <2>1, <2>2, <2>3, <2>4, <2>5 DEF Inv
<1>10. ASSUME Backup PROVE Inv'
  <2> USE <1>10
  <2>1. TypeOK'
    <3>1. fs' \in [active : Contents, staged : Contents, backup : Contents]
      BY ValueTypes DEF Backup, Inv, TypeOK
    <3>2. wk' \in WorkerSteps
      BY DEF Backup, Goto, WorkerSteps, StageSteps, ActivateSteps
    <3>3. troubles' \in 0..MaxTroubles
      BY TroublesType DEF Backup, Inv
    <3> QED
      BY <3>1, <3>2, <3>3 DEF Backup, Inv, TypeOK
  <2>2. OneTransition'
    BY DEF Backup, Goto, Inv, OneTransition, StageSteps, ActivateSteps
  <2>3. SnapshotCurrent'
    BY DEF Backup, Goto, Inv, SnapshotCurrent
  <2>4. OnlyNewer'
    BY DEF Backup, Inv, OnlyNewer
  <2>5. Whole'
    BY SlotFacts DEF Backup, Inv, TypeOK, Nvs, Whole
  <2> QED
    BY <2>1, <2>2, <2>3, <2>4, <2>5 DEF Inv
<1>11. ASSUME Promote PROVE Inv'
  <2> USE <1>11
  <2>1. TypeOK'
    <3>1. fs' \in [active : Contents, staged : Contents, backup : Contents]
      <4>1. /\ fs.active \in Contents
            /\ fs.staged \in Contents
            /\ fs.backup \in Contents
        BY DEF Inv, TypeOK
      <4>2. CASE fs' = [active |-> fs.staged, staged |-> None, backup |-> None]
        BY <4>1, <4>2, ValueTypes
      <4>3. CASE fs' = [fs EXCEPT !.active = fs.backup, !.backup = None]
        BY <4>3, ValueTypes DEF Inv, TypeOK
      <4>4. CASE UNCHANGED fs
        BY <4>4 DEF Inv, TypeOK
      <4> QED
        BY <4>2, <4>3, <4>4 DEF Promote
    <3>2. wk' \in WorkerSteps
      BY DEF Promote, Goto, WorkerSteps, StageSteps, ActivateSteps
    <3>3. troubles' \in 0..MaxTroubles
      BY TroublesType DEF Promote, Inv
    <3> QED
      BY <3>1, <3>2, <3>3 DEF Promote, Inv, TypeOK
  <2>2. OneTransition'
    BY DEF Promote, Goto, Inv, OneTransition, StageSteps, ActivateSteps
  <2>3. SnapshotCurrent'
    BY DEF Promote, Goto, Inv, SnapshotCurrent
  <2>4. OnlyNewer'
    BY DEF Promote, Inv, OnlyNewer
  <2>5. Whole'
    BY SlotFacts DEF Promote, Inv, TypeOK, Nvs, Whole
  <2> QED
    BY <2>1, <2>2, <2>3, <2>4, <2>5 DEF Inv
<1>12. ASSUME Adopt PROVE Inv'
  <2> USE <1>12
  <2>1. wk = "adopt" /\ snap.staged = nvs.staged /\ UNCHANGED <<run, job, snap, ctl>>
    BY DEF Adopt, Inv, SnapshotCurrent
  <2>2. job.action = "Activate"
    BY DEF Adopt, Inv, OneTransition, ActivateSteps
  <2>3. CASE nvs' = [nvs EXCEPT !.active = snap.staged, !.staged = NoRelease]
             /\ UNCHANGED damage /\ wk' = "swap" /\ Works
    <3>1. nvs'.active = nvs.staged /\ nvs'.staged = NoRelease /\ nvs' \in Nvs
      BY <2>1, <2>3, SlotFacts DEF Inv, TypeOK, Nvs
    <3>2. /\ valid(nvs.staged) /\ nvs.staged.ctr \notin BadContracts
          /\ nvs.staged \in Slots
      BY <2>1 DEF Inv, SnapshotCurrent, TypeOK, Nvs
    <3>3. nvs.staged.ctr \in Artifacts \ BadContracts /\ nvs.staged.art # None
      BY <3>2, SlotFacts DEF valid, Contents
    <3>4. TypeOK'
      BY <2>3, <3>1, TroublesType
      DEF Adopt, Inv, TypeOK, WorkerSteps, ActivateSteps
    <3>5. OneTransition'
      BY <2>2, <2>3, <2>1 DEF OneTransition, StageSteps
    <3>6. SnapshotCurrent'
      BY <2>1, <2>3, <3>1 DEF SnapshotCurrent
    <3>7. OnlyNewer'
      BY <2>1, <2>2, <3>1, <3>3, SlotFacts DEF Inv, OnlyNewer
    <3>8. Whole'
      BY <2>3, <3>1, <3>2, SlotFacts DEF Inv, Whole, valid
    <3> QED
      BY <3>4, <3>5, <3>6, <3>7, <3>8 DEF Inv
  <2>4. CASE nvs' \in HalfAdopted /\ damage' = damage \cup TearingFrom(nvs')
             /\ wk' = "finish" /\ Fails
    <3>1. Bootable(nvs')
      BY <2>1, <2>4, HalfAdoptedFacts
    <3>2. TypeOK'
      <4>1. damage' \subseteq {"torn", "boot"} /\ damage \subseteq damage'
        BY <2>4 DEF TearingFrom, Inv, TypeOK
      <4>2. troubles' \in 0..MaxTroubles
        BY <2>4, TroublesType DEF Inv
      <4> QED
        BY <2>4, <3>1, <4>1, <4>2 DEF Adopt, Inv, TypeOK, WorkerSteps, Bootable
    <3>3. OneTransition'
      BY <2>1, <2>2, <2>4 DEF OneTransition, StageSteps, ActivateSteps
    <3>4. SnapshotCurrent'
      BY <2>4 DEF SnapshotCurrent
    <3>5. OnlyNewer'
      <4>1. nvs'.active.gen \in {nvs.active.gen, nvs.staged.gen}
            /\ nvs'.staged.gen \in {nvs.staged.gen, 0}
        BY <2>1, <2>4, HalfAdoptedFacts
      <4>2. nvs.staged.gen \in Nat /\ nvs.active.gen \in Nat
        BY SlotFacts DEF Inv, TypeOK, Nvs
      <4>3. ctl.pc = "lock" /\ ctl.job.action = "Stage" => ctl.job.rel.gen \in Nat
        BY SlotFacts DEF Inv, OnlyNewer
      <4> QED
        BY <2>1, <2>2, <3>1, <4>1, <4>2, <4>3 DEF Inv, OnlyNewer, Bootable
    <3>6. Whole'
      BY <2>4 DEF TearingFrom, Inv, Whole
    <3> QED
      BY <3>2, <3>3, <3>4, <3>5, <3>6 DEF Inv
  <2> QED
    BY <2>3, <2>4 DEF Adopt, Goto
<1>13. ASSUME Swap PROVE Inv'
  <2> USE <1>13
  <2>1. TypeOK'
    BY SlotFacts, ValueTypes, ReleaseAssumption, BoundAssumption DEF Swap,
       Goto, AdoptedPolicy, Inv, TypeOK, OneTransition, SnapshotCurrent,
       OnlyNewer, Nvs, Jobs, Modes, Contents, ControlSteps, WorkerSteps,
       StageSteps, ActivateSteps, Slots
  <2>2. OneTransition'
    BY DEF Swap, Goto, Inv, OneTransition, StageSteps, ActivateSteps
  <2>3. SnapshotCurrent'
    BY DEF Swap, Goto, Inv, SnapshotCurrent
  <2>4. OnlyNewer'
    BY DEF Swap, Inv, OnlyNewer
  <2>5. Whole'
    BY SlotFacts DEF Swap, Inv, TypeOK, Nvs, Whole
  <2> QED
    BY <2>1, <2>2, <2>3, <2>4, <2>5 DEF Inv
<1>14. ASSUME SetMode PROVE Inv'
  <2> USE <1>14
  <2>1. TypeOK'
    <3>1. nvs' \in Nvs
      BY SlotFacts, ValueTypes, ReleaseAssumption, BoundAssumption DEF SetMode,
         Inv, TypeOK, OneTransition, SnapshotCurrent, OnlyNewer, Nvs, Jobs,
         Contents, ControlSteps, Slots
    <3>2. wk' \in WorkerSteps
      BY DEF SetMode, Goto, WorkerSteps, StageSteps, ActivateSteps
    <3>3. troubles' \in 0..MaxTroubles
      BY TroublesType DEF SetMode, Inv
    <3> QED
      BY <3>1, <3>2, <3>3 DEF SetMode, Inv, TypeOK
  <2>2. OneTransition'
    BY DEF SetMode, Goto, Inv, OneTransition, StageSteps, ActivateSteps
  <2>3. SnapshotCurrent'
    BY DEF SetMode, Goto, Inv, SnapshotCurrent
  <2>4. OnlyNewer'
    BY SlotFacts, ValueTypes DEF SetMode, Inv, TypeOK, OnlyNewer, Nvs
  <2>5. Whole'
    BY SlotFacts DEF SetMode, Inv, TypeOK, Nvs, Whole
  <2> QED
    BY <2>1, <2>2, <2>3, <2>4, <2>5 DEF Inv
<1>15. ASSUME Record PROVE Inv'
  <2> USE <1>15
  <2>1. TypeOK'
    BY BoundAssumption DEF Record, Goto, Works, Fails, Inv, TypeOK,
       ControlSteps, Modes, WorkerSteps, StageSteps, ActivateSteps
  <2>2. OneTransition'
    BY DEF Record, Goto, Inv, OneTransition, StageSteps, ActivateSteps
  <2>3. SnapshotCurrent'
    BY DEF Record, Goto, Inv, SnapshotCurrent
  <2>4. OnlyNewer'
    BY DEF Record, Inv, OnlyNewer
  <2>5. Whole'
    BY SlotFacts DEF Record, Inv, TypeOK, Nvs, Whole
  <2> QED
    BY <2>1, <2>2, <2>3, <2>4, <2>5 DEF Inv
<1>16. ASSUME Unpause PROVE Inv'
  <2> USE <1>16
  <2>1. TypeOK'
    <3>1. nvs' \in Nvs
      BY SlotFacts, ValueTypes DEF Unpause, Inv, TypeOK, Nvs
    <3>2. wk' \in WorkerSteps
      BY DEF Unpause, Goto, WorkerSteps, StageSteps, ActivateSteps
    <3>3. troubles' \in 0..MaxTroubles
      BY TroublesType DEF Unpause, Inv
    <3> QED
      BY <3>1, <3>2, <3>3 DEF Unpause, Inv, TypeOK
  <2>2. OneTransition'
    BY DEF Unpause, Goto, Inv, OneTransition, StageSteps, ActivateSteps
  <2>3. SnapshotCurrent'
    BY DEF Unpause, Goto, Inv, SnapshotCurrent
  <2>4. OnlyNewer'
    BY SlotFacts, ValueTypes DEF Unpause, Inv, TypeOK, OnlyNewer, Nvs
  <2>5. Whole'
    BY SlotFacts DEF Unpause, Inv, TypeOK, Nvs, Whole
  <2> QED
    BY <2>1, <2>2, <2>3, <2>4, <2>5 DEF Inv
<1>17. ASSUME Restart PROVE Inv'
  <2>1. Bootable(nvs)
    BY NvsBootable
  <2>2. troubles' \in 0..MaxTroubles
    BY <1>17, TroublesType DEF Restart, Inv
  <2> QED
    BY <1>17, <2>1, <2>2, BootInv, MisbootInv DEF Restart
<1>18. ASSUME Finish PROVE Inv'
  <2> USE <1>18
  <2>1. TypeOK'
    BY ValueTypes DEF Finish, Goto, Inv, TypeOK, WorkerSteps
  <2>2. OneTransition'
    BY DEF Finish, Goto, Inv, OneTransition, StageSteps, ActivateSteps
  <2>3. SnapshotCurrent'
    BY DEF Finish, Goto, Inv, SnapshotCurrent
  <2>4. OnlyNewer'
    BY DEF Finish, NoJob, Inv, OnlyNewer
  <2>5. Whole'
    BY SlotFacts DEF Finish, Inv, TypeOK, Nvs, Whole
  <2> QED
    BY <2>1, <2>2, <2>3, <2>4, <2>5 DEF Inv
<1>19. ASSUME Restore PROVE Inv'
  <2> USE <1>19
  <2>1. TypeOK'
    BY DEF Restore, Goto, Inv, TypeOK, WorkerSteps
  <2>2. OneTransition'
    BY DEF Restore, Goto, Inv, OneTransition, StageSteps, ActivateSteps
  <2>3. SnapshotCurrent'
    BY DEF Restore, Goto, Inv, SnapshotCurrent
  <2>4. OnlyNewer'
    BY DEF Restore, Inv, OnlyNewer
  <2>5. Whole'
    BY SlotFacts DEF Restore, Inv, TypeOK, Nvs, Whole
  <2> QED
    BY <2>1, <2>2, <2>3, <2>4, <2>5 DEF Inv
<1>20. ASSUME RestoreError PROVE Inv'
  <2> USE <1>20
  <2>1. TypeOK'
    <3>1. wk' \in WorkerSteps
      BY DEF RestoreError, Goto, WorkerSteps
    <3>2. troubles' \in 0..MaxTroubles
      BY TroublesType DEF RestoreError, Inv
    <3> QED
      BY <3>1, <3>2 DEF RestoreError, Inv, TypeOK
  <2>2. OneTransition'
    BY DEF RestoreError, Goto, Inv, OneTransition, StageSteps, ActivateSteps
  <2>3. SnapshotCurrent'
    BY DEF RestoreError, Goto, Inv, SnapshotCurrent
  <2>4. OnlyNewer'
    BY DEF RestoreError, Inv, OnlyNewer
  <2>5. Whole'
    BY SlotFacts DEF RestoreError, Inv, TypeOK, Nvs, Whole
  <2> QED
    BY <2>1, <2>2, <2>3, <2>4, <2>5 DEF Inv
<1>21. ASSUME Reopen PROVE Inv'
  <2> USE <1>21
  <2>1. TypeOK'
    BY DEF Reopen, Goto, Inv, TypeOK, WorkerSteps
  <2>2. OneTransition'
    BY DEF Reopen, Goto, Inv, OneTransition, StageSteps, ActivateSteps
  <2>3. SnapshotCurrent'
    BY DEF Reopen, Goto, Inv, SnapshotCurrent
  <2>4. OnlyNewer'
    BY DEF Reopen, Inv, OnlyNewer
  <2>5. Whole'
    BY SlotFacts DEF Reopen, Inv, TypeOK, Nvs, Whole
  <2> QED
    BY <2>1, <2>2, <2>3, <2>4, <2>5 DEF Inv
<1> QED
  BY <1>1, <1>2, <1>3, <1>4, <1>5, <1>6, <1>7, <1>8, <1>9, <1>10, <1>11, <1>12,
     <1>13, <1>14, <1>15, <1>16, <1>17, <1>18, <1>19, <1>20, <1>21 DEF Worker

\* Resets and invocations keep the invariant.
LEMMA EnvironmentInv == Inv /\ (Reset \/ Admit \/ Complete) => Inv'
<1> SUFFICES ASSUME Inv, (Reset \/ Admit \/ Complete) PROVE Inv'
  OBVIOUS
<1>1. ASSUME Reset PROVE Inv'
  <2>1. PICK stored \in Interrupted, mode \in {nvs.mode, "Local"} :
          \/ Boot([stored EXCEPT !.mode = mode])
          \/ Misboot([stored EXCEPT !.mode = mode])
    BY <1>1 DEF Reset
  <2>2. Bootable(stored)
    BY InterruptedBootable
  <2>3. mode \in Modes
    BY DEF Inv, TypeOK, Nvs, Modes
  <2>4. Bootable([stored EXCEPT !.mode = mode])
    BY <2>2, <2>3 DEF Bootable, Nvs
  <2>5. troubles' \in 0..MaxTroubles
    BY <1>1, TroublesType DEF Reset, Inv
  <2> QED
    BY <2>1, <2>4, <2>5, BootInv, MisbootInv
<1>2. ASSUME Admit PROVE Inv'
  <2> USE <1>2
  <2>1. TypeOK'
    BY BoundAssumption DEF Admit, Inv, TypeOK
  <2>2. OneTransition'
    BY DEF Admit, Inv, OneTransition
  <2>3. SnapshotCurrent'
    BY DEF Admit, Inv, SnapshotCurrent
  <2>4. OnlyNewer'
    BY DEF Admit, Inv, OnlyNewer
  <2>5. Whole'
    BY SlotFacts DEF Admit, Inv, TypeOK, Nvs, Whole
  <2> QED
    BY <2>1, <2>2, <2>3, <2>4, <2>5 DEF Inv
<1>3. ASSUME Complete PROVE Inv'
  <2> USE <1>3
  <2>1. TypeOK'
    BY BoundAssumption DEF Complete, Inv, TypeOK
  <2>2. OneTransition'
    BY DEF Complete, Inv, OneTransition
  <2>3. SnapshotCurrent'
    BY DEF Complete, Inv, SnapshotCurrent
  <2>4. OnlyNewer'
    BY DEF Complete, Inv, OnlyNewer
  <2>5. Whole'
    BY SlotFacts DEF Complete, Inv, TypeOK, Nvs, Whole
  <2> QED
    BY <2>1, <2>2, <2>3, <2>4, <2>5 DEF Inv
<1> QED
  BY <1>1, <1>2, <1>3 DEF Inv

\* What the release manager keeps true at every step, whatever the commands,
\* the failed loads, setters and renames, the tuples they leave half written,
\* the resets between or within two statements, and the boots that go on after
\* a failed load: whole tuples only until the first such damage, their order
\* and the soundness of the active contract in any case.
THEOREM Invariance == Spec => []Inv
<1>1. Inv /\ [Next]_vars => Inv'
  <2> SUFFICES ASSUME Inv, [Next]_vars PROVE Inv'
    OBVIOUS
  <2>1. CASE UNCHANGED vars
    BY <2>1 DEF vars, Inv, TypeOK, OneTransition, SnapshotCurrent, OnlyNewer,
       Whole
  <2> QED
    BY <2>1, ControlInv, WorkerInv, EnvironmentInv DEF Next
<1> QED
  BY <1>1, InitInv, PTL DEF Spec

\* Every variable keeps its type; in particular the contract policy in force is
\* one that compile_contract_policy accepted unless app_main went on after a
\* failed load, which leaves the policy that denies every access.
THEOREM TypeCorrect == Spec => []TypeOK
BY Invariance, PTL DEF Inv

\* sif_release.cpp never runs a stage and an activation at once, and never one
\* that is not in the job slot.
THEOREM Exclusive == Spec => []OneTransition
BY Invariance, PTL DEF Inv

=============================================================================
