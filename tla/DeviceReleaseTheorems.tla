----------------------- MODULE DeviceReleaseTheorems -----------------------
(***************************************************************************)
(* What follows from the invariant of DeviceReleaseProofs: the release     *)
(* manager implements ReleaseSlot, the enforced contract is the active     *)
(* one, and releases change at an invocation boundary as long as           *)
(* resume_function does not arrive during a transition.                    *)
(***************************************************************************)
EXTENDS DeviceReleaseProofs

\* The handlers write the pause flag only, never a release slot.
LEMMA ControlSlots ==
  ASSUME Inv, Control
  PROVE  UNCHANGED <<nvs.active, nvs.staged, damage>>
<1>1. CASE PauseStore
  BY <1>1 DEF PauseStore, Inv, TypeOK, Nvs
<1>2. CASE ResumeStore
  BY <1>2 DEF ResumeStore, Inv, TypeOK, Nvs
<1>3. CASE UNCHANGED <<nvs, damage>>
  BY <1>3
<1> QED
  BY <1>1, <1>2, <1>3
  DEF Control, StageCheck, ActivateCheck, Lock, PauseCheck, ResumeCheck,
      PauseGate, ResumeGate

\* A boot is one of a reset or restart: it starts from what NVS may hold.
LEMMA BootCases ==
  ASSUME Inv, Restart \/ Reset
  PROVE  \E n \in Nvs : Bootable(n) /\ (Boot(n) \/ Misboot(n))
<1>1. CASE Restart
  BY <1>1, NvsBootable DEF Restart, Bootable
<1>2. CASE Reset
  <2>1. PICK stored \in Interrupted, mode \in {nvs.mode, "Local"} :
          \/ Boot([stored EXCEPT !.mode = mode])
          \/ Misboot([stored EXCEPT !.mode = mode])
    BY <1>2 DEF Reset
  <2>2. Bootable(stored) /\ mode \in Modes
    BY InterruptedBootable DEF Inv, TypeOK, Nvs, Modes
  <2>3. Bootable([stored EXCEPT !.mode = mode])
    BY <2>2 DEF Bootable, Nvs
  <2> QED
    BY <2>1, <2>3 DEF Bootable
<1> QED
  BY <1>1, <1>2

\* A boot that leaves no damage reads the slots and writes only the mode.
LEMMA BootSlots ==
  ASSUME Inv, NEW n \in Nvs, Boot(n) \/ Misboot(n)
  PROVE  UNCHANGED <<nvs.active, nvs.staged, damage>> \/ damage' # {}
<1>1. CASE Misboot(n)
  BY <1>1 DEF Misboot
<1>2. CASE Boot(n) /\ [n EXCEPT !.mode = nvs.mode] # nvs
  BY <1>2 DEF Boot, TearingFrom
<1>3. CASE Boot(n) /\ [n EXCEPT !.mode = nvs.mode] = nvs
  <2>1. n.active = nvs.active /\ n.staged = nvs.staged
    BY <1>3 DEF Nvs
  <2>2. damage' = damage
    BY <1>3 DEF Boot, TearingFrom
  <2> QED
    BY <1>3, <2>1, <2>2 DEF Boot
<1> QED
  BY <1>1, <1>2, <1>3

\* set_staged_release commits what the check before the lock let through.
LEMMA CommitSlots ==
  ASSUME Inv, Commit
  PROVE  /\ job.rel \in Releases /\ job.rel.gen > nvs.active.gen
         /\ nvs'.active = nvs.active
         /\ nvs'.staged.gen \in {nvs.staged.gen, job.rel.gen}
         /\ \/ nvs'.staged = job.rel /\ damage' = damage
            \/ nvs' = nvs /\ damage' = damage
            \/ damage' # {}
<1>1. job.rel \in Releases /\ job.rel.gen > nvs.active.gen
  BY DEF Commit, Inv, OneTransition, StageSteps, OnlyNewer
<1>2. CASE nvs' = [nvs EXCEPT !.staged = job.rel] /\ damage' = damage
  BY <1>1, <1>2 DEF Inv, TypeOK, Nvs
<1>3. CASE nvs' \in HalfStaged /\ damage' = damage \cup TearingFrom(nvs')
  BY <1>1, <1>3, HalfStagedFacts DEF TearingFrom
<1> QED
  BY <1>1, <1>2, <1>3 DEF Commit

\* activate_staged_release moves the persisted staged tuple, which is the one
\* that process_activation loaded several statements earlier.
LEMMA AdoptSlots ==
  ASSUME Inv, Adopt
  PROVE  /\ nvs'.active.gen \in {nvs.active.gen, nvs.staged.gen}
         /\ nvs'.staged.gen \in {nvs.staged.gen, 0}
         /\ \/ Slot!Activate /\ damage' = damage
            \/ nvs' = nvs /\ damage' = damage
            \/ damage' # {}
<1>1. /\ wk = "adopt" /\ snap.staged = nvs.staged /\ nvs.staged # NoRelease
      /\ nvs.staged.gen > nvs.active.gen
  BY SlotFacts DEF Adopt, Inv, SnapshotCurrent, valid
<1>2. CASE nvs' = [nvs EXCEPT !.active = snap.staged, !.staged = NoRelease]
           /\ damage' = damage
  <2>1. nvs'.active = snap.staged /\ nvs'.staged = NoRelease
    BY <1>2 DEF Inv, TypeOK, Nvs
  <2> QED
    BY <1>1, <1>2, <2>1, SlotFacts DEF Slot!Activate
<1>3. CASE nvs' \in HalfAdopted /\ damage' = damage \cup TearingFrom(nvs')
  BY <1>1, <1>3, HalfAdoptedFacts DEF TearingFrom
<1> QED
  BY <1>2, <1>3 DEF Adopt

\* No other step of the worker touches a slot.
LEMMA WorkerSlots ==
  ASSUME Inv, Worker
  PROVE  Commit \/ Adopt \/ Restart
         \/ UNCHANGED <<nvs.active, nvs.staged, damage>>
<1>1. CASE SetMode
  BY <1>1 DEF SetMode, Inv, TypeOK, Nvs
<1>2. CASE Unpause
  BY <1>2 DEF Unpause, Inv, TypeOK, Nvs
<1>3. CASE UNCHANGED <<nvs, damage>>
  BY <1>3
<1> QED
  BY <1>1, <1>2, <1>3
  DEF Worker, Begin, DrainDone, DrainTimeout, Pull, Verify, Load, LoadError,
      Reload,
      Backup, Promote, Swap, Record, Finish, Restore, RestoreError, Reopen

\* Damage stays: it is a record of what happened.
LEMMA DamageStays ==
  ASSUME [Next]_vars
  PROVE  damage \subseteq damage'
<1>1. ASSUME NEW n, Boot(n) \/ Misboot(n) PROVE damage \subseteq damage'
  BY <1>1 DEF Boot, Misboot
<1>2. CASE Commit \/ Adopt
  BY <1>2 DEF Commit, Adopt
<1>3. CASE UNCHANGED damage
  BY <1>3
<1> QED
  BY <1>1, <1>2, <1>3
  DEF Next, Control, StageCheck, ActivateCheck, Lock, PauseCheck, ResumeCheck,
      PauseGate, PauseStore, ResumeStore, ResumeGate, Worker, Begin, DrainDone,
      DrainTimeout, Pull, Verify, Load, LoadError, Reload, Backup, Promote,
      Swap, SetMode, Record, Unpause, Finish, Restore, RestoreError, Reopen,
      Restart, Reset, Admit, Complete, vars

LEMMA StepSlots ==
  ASSUME Inv, [Next]_vars
  PROVE  [Slot!Next]_(Slot!slots)
<1>1. CASE damage' # {}
  BY <1>1 DEF Slot!Next, Slot!Broken
<1>2. CASE damage' = {}
  <2>0. damage = {}
    BY <1>2, DamageStays
  <2>1. CASE UNCHANGED <<nvs.active, nvs.staged, damage>>
    BY <2>1 DEF Slot!slots
  <2>2. CASE Control
    BY <1>2, <2>0, <2>1, <2>2, ControlSlots
  <2>3. CASE Commit
    <3>1. CASE nvs' = nvs
      BY <1>2, <2>0, <2>1, <3>1
    <3>2. CASE nvs'.staged = job.rel
      <4>1. Slot!Stage(job.rel) /\ job.rel \in Releases
        BY <2>3, <3>2, CommitSlots DEF Slot!Stage
      <4> QED
        BY <1>2, <2>0, <4>1 DEF Slot!Next
    <3> QED
      BY <1>2, <2>3, <3>1, <3>2, CommitSlots
  <2>4. CASE Adopt
    <3>1. CASE nvs' = nvs
      BY <1>2, <2>0, <2>1, <3>1
    <3>2. CASE Slot!Activate
      BY <1>2, <2>0, <3>2 DEF Slot!Next
    <3> QED
      BY <1>2, <2>4, <3>1, <3>2, AdoptSlots
  <2>5. CASE Restart \/ Reset
    BY <1>2, <2>1, <2>5, BootCases, BootSlots
  <2>6. CASE Worker
    BY <2>1, <2>3, <2>4, <2>5, <2>6, WorkerSlots
  <2>7. CASE Admit \/ Complete \/ UNCHANGED vars
    BY <2>1, <2>7 DEF Admit, Complete, vars
  <2> QED
    BY <2>2, <2>5, <2>6, <2>7 DEF Next
<1> QED
  BY <1>1, <1>2

\* The device implements ReleaseSlot with durable slots: a generation that is
\* not newer than the active one is never staged, and nothing but the persisted
\* staged tuple is ever activated, across resets, failed steps and commands
\* that race with the worker, until a setter stops halfway or a boot goes on
\* after a failed load.
THEOREM Refinement == Spec => SlotRefinement
<1>1. Init => Slot!Init
  BY DEF Init, Erased, Slot!Init
<1> QED
  BY <1>1, Invariance, StepSlots, PTL DEF Spec, SlotRefinement, Slot!Spec

\* No step but such a boot takes the active generation back, halfway setters
\* included: the half-written active tuple is as new as the staged one, and what
\* is left staged is never older than what is active.
THEOREM GenerationAdvances == Spec => GenerationNeverRegresses
<1>1. ASSUME Inv, [Next]_vars, nvs'.active.gen < nvs.active.gen
      PROVE  "boot" \in damage'
  <2>0. nvs.active.gen \in Nat /\ nvs.staged.gen \in Nat
    BY <1>1, SlotFacts DEF Inv, TypeOK, Nvs
  <2>1. CASE nvs'.active.gen = nvs.active.gen
    BY <1>1, <2>0, <2>1
  <2>2. CASE Control
    BY <1>1, <2>1, <2>2, ControlSlots
  <2>3. CASE Commit
    BY <1>1, <2>1, <2>3, CommitSlots
  <2>4. CASE Adopt
    <3>1. nvs.staged.gen > nvs.active.gen
      BY <1>1, <2>4 DEF Adopt, Inv, SnapshotCurrent
    <3> QED
      BY <1>1, <2>0, <2>4, <3>1, AdoptSlots
  <2>5. CASE Restart \/ Reset
    <3>1. PICK n \in Nvs : Bootable(n) /\ (Boot(n) \/ Misboot(n))
      BY <1>1, <2>5, BootCases
    <3>2. CASE Misboot(n)
      BY <3>2 DEF Misboot
    <3>3. CASE Boot(n)
      <4>1. n.active.gen \in Nat /\ nvs' = n /\ n.active.gen >= nvs.active.gen
        BY <3>1, <3>3, SlotFacts DEF Boot, Bootable, Nvs
      <4> QED
        BY <1>1, <2>0, <4>1
    <3> QED
      BY <3>1, <3>2, <3>3
  <2>6. CASE Worker
    BY <1>1, <2>1, <2>3, <2>4, <2>5, <2>6, WorkerSlots
  <2>7. CASE Admit \/ Complete \/ UNCHANGED vars
    BY <2>1, <2>7 DEF Admit, Complete, vars
  <2> QED
    BY <1>1, <2>2, <2>5, <2>6, <2>7 DEF Next
<1>2. Inv /\ [Next]_vars =>
        [nvs'.active.gen < nvs.active.gen => "boot" \in damage']_vars
  BY <1>1
<1> QED
  BY <1>2, Invariance, PTL DEF Spec, GenerationNeverRegresses

-----------------------------------------------------------------------------

\* Swap is the only way out of the step between commit and policy swap.
LEMMA EnforcedStep ==
  ASSUME Inv, Inv', EnforcedContract, [Next]_vars
  PROVE  EnforcedContract'
<1>0. damage \subseteq damage'
  BY DamageStays
<1>a. SUFFICES ASSUME damage' = {}, damage = {} PROVE EnforcedContract'
  BY <1>0 DEF EnforcedContract
<1>b. nvs.active.ctr \in Artifacts \ BadContracts
  BY DEF Inv, OnlyNewer
<1>1. CASE /\ UNCHANGED <<nvs.active, run.policy>>
           /\ wk = "swap" => wk' = "swap"
  BY <1>a, <1>1 DEF EnforcedContract
<1>2. CASE Adopt
  <2>1. CASE wk' = "swap"
    BY <2>1 DEF EnforcedContract
  <2>2. CASE nvs' \in HalfAdopted /\ damage' = damage \cup TearingFrom(nvs')
    <3>1. nvs' = nvs
      BY <1>a, <2>2 DEF TearingFrom
    <3> QED
      BY <1>1, <1>2, <3>1 DEF Adopt
  <2> QED
    BY <1>2, <2>1, <2>2 DEF Adopt, Goto
<1>3. CASE Swap
  <2>1. snap.staged = nvs.active /\ nvs' = nvs
    BY <1>3 DEF Swap, Inv, SnapshotCurrent
  <2>2. run'.policy = nvs.active.ctr
    BY <1>3, <1>b, <2>1, ValueTypes DEF Swap, AdoptedPolicy, Inv, TypeOK
  <2> QED
    BY <2>1, <2>2 DEF EnforcedContract
<1>4. CASE Restart \/ Reset
  <2>1. PICK n \in Nvs : Boot(n) \/ Misboot(n)
    BY <1>4, BootCases
  <2>2. Boot(n)
    BY <1>a, <2>1 DEF Misboot
  <2>3. run'.policy = nvs'.active.ctr
    BY <1>b, <2>2, ValueTypes DEF Boot, Start, Inv, OnlyNewer
  <2> QED
    BY <2>3 DEF EnforcedContract
<1>5. CASE Control
  BY <1>1, <1>5, ControlSlots
  DEF Control, StageCheck, ActivateCheck, Lock, PauseCheck, ResumeCheck,
      PauseGate, PauseStore, ResumeStore, ResumeGate
<1>6. CASE Reload
  BY <1>1, <1>6 DEF Reload, Inv, TypeOK
<1>7. CASE Commit
  BY <1>1, <1>7, CommitSlots DEF Commit
<1>8. CASE Worker /\ ~Adopt /\ ~Swap /\ ~Reload /\ ~Commit /\ ~Restart
  BY <1>1, <1>8, WorkerSlots
  DEF Worker, Begin, DrainDone, DrainTimeout, Pull, Verify, Load, LoadError,
      Backup,
      Promote, SetMode, Record, Unpause, Finish, Restore, RestoreError, Reopen
<1>9. CASE Admit \/ Complete \/ UNCHANGED vars
  BY <1>1, <1>9 DEF Admit, Complete, vars
<1> QED
  BY <1>2, <1>3, <1>4, <1>5, <1>6, <1>7, <1>8, <1>9 DEF Next

\* The contract that the WASM host imports and the forwarding subscriber
\* enforce is the active release's own, in both modes and after every reset,
\* except between the two statements that change it, as long as no setter has
\* stopped halfway and no boot has gone on after a failed load.
THEOREM ContractEnforced == Spec => []EnforcedContract
<1>1. Init => EnforcedContract
  BY SlotFacts DEF Init, Erased, EnforcedContract
<1>2. Inv /\ Inv' /\ EnforcedContract /\ [Next]_vars => EnforcedContract'
  BY EnforcedStep
<1> QED
  BY <1>1, <1>2, Invariance, PTL DEF Spec

-----------------------------------------------------------------------------

\* The worker keeps admission closed, and nothing runs, from the drain on.
LEMMA ClosedStep ==
  ASSUME Inv, ClosedWhileWorking, [Next]_vars, "resume" \notin LateCommands
  PROVE  ClosedWhileWorking'
<1> USE DEF ClosedWhileWorking, Busy
<1>1. ASSUME NEW g, ResumeCheck(g) PROVE ClosedWhileWorking'
  BY <1>1 DEF ResumeCheck, MayArrive, CtlIdle
<1>2. CASE Lock
  BY <1>2 DEF Lock, CtlIdle
<1>3. CASE ResumeStore
  BY <1>3 DEF ResumeStore, CtlIdle
<1>4. CASE ResumeGate
  BY <1>4 DEF ResumeGate, CtlIdle, StageSteps, ActivateSteps
<1>5. CASE Control /\ ~Lock /\ ~ResumeStore /\ ~ResumeGate
  BY <1>1, <1>5
  DEF Control, StageCheck, ActivateCheck, PauseCheck, PauseGate, PauseStore,
      CtlIdle
<1>6. CASE Begin
  BY <1>6 DEF Begin, Goto, StageSteps, ActivateSteps
<1>7. CASE DrainDone
  BY <1>7 DEF DrainDone, Drained, Goto
<1>8. CASE \/ Finish \/ DrainTimeout \/ Restore \/ RestoreError \/ Reopen
  BY <1>8
  DEF Finish, DrainTimeout, Restore, RestoreError, Reopen, Goto, StageSteps,
      ActivateSteps
<1>9. CASE Pull \/ Verify \/ Commit
  BY <1>9 DEF Pull, Verify, Commit, Goto, StageSteps, ActivateSteps
<1>10. CASE \/ Load \/ LoadError \/ Reload \/ Backup \/ Promote \/ Adopt \/ Swap
            \/ SetMode \/ Record \/ Unpause
  BY <1>10
  DEF Load, LoadError, Reload, Backup, Promote, Adopt, Swap, SetMode, Record,
      Unpause,
      Goto, StageSteps, ActivateSteps
<1>11. CASE Restart \/ Reset
  <2>0. PICK n \in Nvs : Boot(n) \/ Misboot(n)
    BY <1>11, BootCases
  <2>1. wk' = "idle" /\ admitted' = 0 /\ ctl'.pc = "idle"
    BY <2>0 DEF Boot, Misboot, Start, CtlIdle
  <2> QED
    BY <2>1 DEF StageSteps, ActivateSteps
<1>12. CASE Admit
  BY <1>12 DEF Admit, StageSteps, ActivateSteps
<1>13. CASE Complete
  BY <1>13, BoundAssumption DEF Complete, Inv, TypeOK
<1>14. CASE UNCHANGED vars
  BY <1>14 DEF vars
<1> QED
  BY <1>2, <1>3, <1>4, <1>5, <1>6, <1>7, <1>8, <1>9, <1>10, <1>11, <1>12,
     <1>13, <1>14
  DEF Next, Worker

\* A step that replaces the running release finds no admitted invocation.
LEMMA BoundaryStep ==
  ASSUME Inv, ClosedWhileWorking, [Next]_vars,
         run' # run \/ nvs'.active # nvs.active
  PROVE  admitted' = 0
<1>1. CASE Restart \/ Reset
  BY <1>1 DEF Restart, Reset, Boot, Misboot, Start
<1>2. CASE Reload \/ Adopt \/ Swap
  BY <1>2 DEF Reload, Adopt, Swap, ClosedWhileWorking, ActivateSteps
<1>3. CASE Control
  BY <1>3, ControlSlots
  DEF Control, StageCheck, ActivateCheck, Lock, PauseCheck, ResumeCheck,
      PauseGate, PauseStore, ResumeStore, ResumeGate
<1>4. CASE Worker /\ ~Reload /\ ~Adopt /\ ~Swap /\ ~Restart
  <2>1. run' = run
    BY <1>4
    DEF Worker, Begin, DrainDone, DrainTimeout, Pull, Verify, Commit, Load,
        LoadError,
        Backup, Promote, SetMode, Record, Unpause, Finish, Restore,
        RestoreError, Reopen
  <2>2. nvs'.active = nvs.active
    BY <1>4, WorkerSlots, CommitSlots
  <2> QED
    BY <2>1, <2>2
<1>5. CASE Admit \/ Complete \/ UNCHANGED vars
  BY <1>5 DEF Admit, Complete, vars
<1> QED
  BY <1>1, <1>2, <1>3, <1>4, <1>5 DEF Next

\* Activation happens at an invocation boundary: unless resume_function may
\* arrive during a transition (it opens the gate without looking at the
\* worker), no invocation lives through a change of bytes, contract, mode or
\* active tuple.  The drain, the closed gate and the bounded wait suffice.
THEOREM Boundary ==
  ASSUME "resume" \notin LateCommands
  PROVE  Spec => InvocationBoundary
<1>1. Init => ClosedWhileWorking
  BY DEF Init, ClosedWhileWorking, CtlIdle, StageSteps, ActivateSteps
<1>2. Inv /\ ClosedWhileWorking /\ [Next]_vars => ClosedWhileWorking'
  BY ClosedStep
<1>3. Inv /\ ClosedWhileWorking /\ [Next]_vars =>
        [ run' # run \/ nvs'.active # nvs.active => admitted' = 0 ]_vars
  BY BoundaryStep
<1> QED
  BY <1>1, <1>2, <1>3, Invariance, PTL DEF Spec, InvocationBoundary
=============================================================================
