---------------------- MODULE DeviceReleaseGuarantees ----------------------
(***************************************************************************)
(* What DeviceRelease guarantees about pauses, modes and bytes, each under *)
(* as little as it needs:                                                  *)
(*   - an accepted pause holds through resets, failed commits and every    *)
(*     transition, unless pause_function overlaps one;                     *)
(*   - the booted mode is the selected one when no step fails, whatever    *)
(*     arrives when;                                                       *)
(*   - files, WAMR bytes and metadata agree when no step fails and         *)
(*     resume_function does not overlap a transition;                      *)
(*   - the staged generation only advances, and a staged release stays     *)
(*     activatable, unless stagings overlap or replace one another.        *)
(***************************************************************************)
EXTENDS DeviceReleaseTheorems

Loaded == {"reload", "backup", "promote", "adopt", "swap", "setMode", "record",
           "unpause"}

\* An accepted pause is persisted, known to the activation that runs, and no step
\* that would open the gate is ahead; only a boot that could not read it has opened it.
PauseHeld ==
  /\ asked = "pause" => /\ nvs.paused
                        /\ gate => "boot" \in damage
                        /\ wk # "reopen"
                        /\ wk \in Loaded => snap.paused
  /\ ctl.pc \in {"pauseGate", "pauseStore"} => wk = "idle" /\ job.action = "None"
  /\ ctl.pc = "pauseStore" => ~gate
  /\ ctl.pc = "resumeGate" => asked = "resume"

\* The mode in NVS is the booted one, except from the commit of another one to the
\* restart, which compares with the mode the activation loaded.
ModeFollows ==
  /\ wk \notin {"record", "unpause", "restart"} => nvs.mode = run.mode
  /\ wk \in {"record", "unpause"} => nvs.mode = job.mode
  /\ wk \in Loaded => snap.mode = run.mode

\* Where the bytes of each release are at each step of a transition.
BytesFollow ==
  /\ wk \notin {"promote", "adopt"} => ActiveBytes = nvs.active.art
  /\ wk \notin StageSteps => fs.staged \in {None, nvs.staged.art}
  /\ wk = "commit" => fs.staged = job.rel.art
  /\ wk = "promote" => fs.staged # None
  /\ wk = "adopt" => fs.active = nvs.staged.art /\ fs.staged = None

\* What WAMR holds while the device runs the function itself: an activation that
\* stays local reloads it first, one that changes the mode leaves it to the restart.
CodeFollows ==
  run.mode = "Local" =>
    /\ wk = "reload" \/ wk \notin Loaded \cup {"restart"} => run.code = nvs.active.art
    /\ wk \in {"backup", "promote", "adopt"} =>
         run.code = IF job.mode = "Local" THEN nvs.staged.art ELSE nvs.active.art
    /\ wk = "backup" /\ job.mode = "Local" => fs.staged # None
    /\ wk \in {"swap", "setMode", "record", "unpause"} /\ job.mode = "Local" =>
         run.code = nvs.active.art
    /\ wk = "reload" => job.mode = "Local"

-----------------------------------------------------------------------------
(* Pauses. *)

LEMMA PauseStep ==
  ASSUME Inv, PauseHeld, [Next]_vars, "pause" \notin LateCommands
  PROVE  PauseHeld'
<1> USE DEF PauseHeld, Loaded
<1>0. nvs \in Nvs /\ CtlIdle.pc = "idle" /\ damage \subseteq damage'
  BY DamageStays DEF Inv, TypeOK, CtlIdle
<1>1. ASSUME NEW g, PauseCheck(g) PROVE PauseHeld'
  BY <1>1 DEF PauseCheck, MayArrive, CtlIdle
<1>2. CASE PauseGate
  BY <1>2 DEF PauseGate, CtlIdle
<1>3. CASE PauseStore
  BY <1>0, <1>3 DEF PauseStore, Nvs
<1>4. CASE ResumeStore
  BY <1>0, <1>4 DEF ResumeStore, Nvs, CtlIdle
<1>5. CASE ResumeGate
  BY <1>0, <1>5 DEF ResumeGate
<1>6. CASE Lock
  BY <1>0, <1>6 DEF Lock
<1>7. ASSUME NEW r, StageCheck(r) PROVE PauseHeld'
  BY <1>7 DEF StageCheck
<1>8. ASSUME NEW g, NEW m, ActivateCheck(g, m) PROVE PauseHeld'
  BY <1>8 DEF ActivateCheck
<1>9. ASSUME NEW g, ResumeCheck(g) PROVE PauseHeld'
  BY <1>9 DEF ResumeCheck, CtlIdle
<1>10. CASE Control
  BY <1>1, <1>2, <1>3, <1>4, <1>5, <1>6, <1>7, <1>8, <1>9, <1>10 DEF Control
<1>11. CASE \/ Begin \/ DrainDone \/ DrainTimeout \/ Pull \/ Verify \/ Reload
            \/ Backup \/ Promote \/ Swap \/ Record \/ LoadError
  BY <1>11
  DEF Begin, DrainDone, DrainTimeout, Pull, Verify, Reload, Backup, Promote, Swap,
      Record, LoadError, Goto
<1>12. CASE Commit
  <2>1. nvs'.paused = nvs.paused
    <3>1. CASE nvs' \in HalfStaged
      BY <1>12, <3>1, CommitSlots, HalfStagedFacts DEF Bootable
    <3> QED
      BY <1>0, <1>12, <3>1 DEF Commit, Nvs
  <2> QED
    BY <1>0, <1>12, <2>1 DEF Commit, Goto
<1>13. CASE Load
  BY <1>13 DEF Load, Goto
<1>14. CASE Adopt \/ SetMode
  <2>1. nvs'.paused = nvs.paused
    <3>1. CASE Adopt /\ nvs' \in HalfAdopted
      BY <3>1, HalfAdoptedFacts DEF Adopt, Bootable
    <3> QED
      BY <1>0, <1>14, <3>1 DEF Adopt, SetMode, Nvs
  <2> QED
    BY <1>0, <1>14, <2>1 DEF Adopt, SetMode, Goto
<1>15. CASE Unpause
  <2>1. nvs'.paused = nvs.paused \/ nvs'.paused = (nvs.paused /\ snap.paused)
    BY <1>0, <1>15 DEF Unpause, Nvs
  <2> QED
    BY <1>15, <2>1 DEF Unpause, Goto
<1>16. CASE Finish \/ Restore \/ RestoreError
  BY <1>16 DEF Finish, Restore, RestoreError, PersistedOpen, Goto
<1>17. CASE Reopen
  BY <1>17 DEF Reopen, Goto
<1>18. CASE Restart \/ Reset
  <2>1. PICK n \in Nvs : Bootable(n) /\ (Boot(n) \/ Misboot(n))
    BY <1>18, BootCases
  <2>2. /\ wk' = "idle" /\ ctl'.pc = "idle" /\ asked' = asked /\ job' = NoJob
    BY <1>0, <2>1 DEF Boot, Misboot, Start
  <2>3. nvs'.paused = nvs.paused
    BY <2>1 DEF Boot, Misboot, Bootable, Nvs
  <2>4. nvs.paused => ~gate' \/ "boot" \in damage'
    BY <2>1 DEF Boot, Misboot, Start, Bootable
  <2> QED
    BY <2>2, <2>3, <2>4
<1>19. CASE Admit \/ Complete \/ UNCHANGED vars
  BY <1>19 DEF Admit, Complete, vars
<1> QED
  BY <1>10, <1>11, <1>12, <1>13, <1>14, <1>15, <1>16, <1>17, <1>18, <1>19
  DEF Next, Worker

\* A pause_function that was accepted, persisted and acknowledged holds until a
\* resume_function is accepted: no transition, failed step or reset in between
\* opens admission, except a boot that goes on after a failed load, and nothing
\* erases the flag.  What the code needs for it is that pause_function does not
\* overlap a transition; resume_function may.
THEOREM PauseIsHonoured ==
  ASSUME "pause" \notin LateCommands
  PROVE  Spec => []PauseHonoured
<1>1. Init => PauseHeld
  BY DEF Init, PauseHeld, CtlIdle, Loaded
<1>2. Inv /\ PauseHeld /\ [Next]_vars => PauseHeld'
  BY PauseStep
<1>3. PauseHeld => PauseHonoured
  BY DEF PauseHeld, PauseHonoured
<1> QED
  BY <1>1, <1>2, <1>3, Invariance, PTL DEF Spec

-----------------------------------------------------------------------------
(* Modes and bytes, when no step fails. *)

LEMMA NothingFails ==
  ASSUME Inv, MaxTroubles = 0
  PROVE  ~Fails
BY DEF Inv, TypeOK, Fails

LEMMA NoDamageStep ==
  ASSUME Inv, damage = {}, [Next]_vars, MaxTroubles = 0
  PROVE  damage' = {}
<1>0. ~Fails
  BY NothingFails
<1>1. CASE Restart
  <2>1. Boot(nvs) /\ nvs \in Nvs
    BY <1>0, <1>1 DEF Restart, Inv, TypeOK
  <2>2. [nvs EXCEPT !.mode = nvs.mode] = nvs
    BY <2>1 DEF Nvs
  <2> QED
    BY <2>1, <2>2 DEF Boot, TearingFrom
<1>2. CASE Commit \/ Adopt
  BY <1>0, <1>2 DEF Commit, Adopt
<1>3. CASE UNCHANGED damage
  BY <1>3
<1>4. ~Reset
  BY <1>0 DEF Reset
<1> QED
  BY <1>1, <1>2, <1>3, <1>4, ControlSlots, WorkerSlots
  DEF Next, Admit, Complete, vars

LEMMA NoDamage == ASSUME MaxTroubles = 0 PROVE Spec => [](damage = {})
<1>1. Init => damage = {}
  BY DEF Init
<1>2. Inv /\ damage = {} /\ [Next]_vars => (damage = {})'
  BY NoDamageStep
<1> QED
  BY <1>1, <1>2, Invariance, PTL DEF Spec

LEMMA ModeStep ==
  ASSUME Inv, ModeFollows, [Next]_vars, MaxTroubles = 0
  PROVE  ModeFollows'
<1> USE DEF ModeFollows, Loaded
<1>0. nvs \in Nvs /\ run \in [mode : Modes, code : Contents, policy : Contents] /\ ~Fails
  BY NothingFails DEF Inv, TypeOK
<1>1. CASE Control
  <2>1. nvs'.mode = nvs.mode
    BY <1>0, <1>1
    DEF Nvs, Control, StageCheck, ActivateCheck, Lock, PauseCheck, ResumeCheck,
        PauseGate, PauseStore, ResumeStore, ResumeGate
  <2>2. UNCHANGED <<wk, run, snap>>
    BY <1>1
    DEF Control, StageCheck, ActivateCheck, Lock, PauseCheck, ResumeCheck,
        PauseGate, PauseStore, ResumeStore, ResumeGate
  <2>3. job' = job \/ (wk \notin {"record", "unpause"} /\ job.action = "None")
    BY <1>1
    DEF Inv, OneTransition, ActivateSteps, Control, StageCheck, ActivateCheck, Lock,
        Busy, PauseCheck, ResumeCheck, PauseGate, PauseStore, ResumeStore, ResumeGate
  <2> QED
    BY <2>1, <2>2, <2>3
<1>2. CASE Begin \/ DrainDone \/ DrainTimeout \/ Pull \/ Verify \/ Backup \/ Promote
  BY <1>2
  DEF Begin, DrainDone, DrainTimeout, Pull, Verify, Backup, Promote, Goto
<1>3. CASE Commit \/ Adopt
  <2>1. nvs'.mode = nvs.mode
    BY <1>0, <1>3 DEF Commit, Adopt, Nvs
  <2> QED
    BY <1>3, <2>1 DEF Commit, Adopt, Goto
<1>4. CASE Load
  BY <1>4 DEF Load, Goto
<1>5. CASE Reload \/ Swap
  <2>1. run'.mode = run.mode
    BY <1>0, <1>5 DEF Reload, Swap
  <2> QED
    BY <1>5, <2>1 DEF Reload, Swap, Goto
<1>6. CASE SetMode
  <2>1. nvs'.mode = job.mode /\ wk' = "record" /\ UNCHANGED <<run, snap, job>>
    BY <1>0, <1>6 DEF SetMode, Nvs, Goto
  <2> QED
    BY <1>6, <2>1 DEF SetMode
<1>7. CASE Record
  BY <1>0, <1>7 DEF Record, Goto
<1>8. CASE Unpause
  <2>1. nvs'.mode = nvs.mode
    BY <1>0, <1>8 DEF Unpause, Nvs
  <2> QED
    BY <1>8, <2>1 DEF Unpause, ModeChanges, Goto
<1>9. CASE Finish \/ Restore \/ RestoreError \/ Reopen \/ LoadError
  BY <1>0, <1>9 DEF Finish, Restore, RestoreError, Reopen, LoadError, Goto
<1>10. CASE Restart
  <2>1. nvs'.mode = nvs.mode /\ run'.mode = nvs.mode /\ wk' = "idle"
    BY <1>0, <1>10 DEF Restart, Boot, Start, Nvs
  <2> QED
    BY <2>1
<1>11. CASE Admit \/ Complete \/ UNCHANGED vars
  BY <1>11 DEF Admit, Complete, vars
<1>12. ~Reset
  BY <1>0 DEF Reset
<1> QED
  BY <1>1, <1>2, <1>3, <1>4, <1>5, <1>6, <1>7, <1>8, <1>9, <1>10, <1>11, <1>12
  DEF Next, Worker

LEMMA ModeInvariance == ASSUME MaxTroubles = 0 PROVE Spec => []ModeFollows
<1>1. Init => ModeFollows
  BY DEF Init, ModeFollows, Loaded, Erased
<1>2. Inv /\ ModeFollows /\ [Next]_vars => ModeFollows'
  BY ModeStep
<1> QED
  BY <1>1, <1>2, Invariance, PTL DEF Spec

\* When no commit fails and no reset comes in between, a transition ends in the
\* mode it selected: the booted runtime is the one NVS names, whatever commands
\* arrive during it.
THEOREM ModesAgree == ASSUME MaxTroubles = 0 PROVE Spec => []ModeAgreement
<1>1. ModeFollows => ModeAgreement
  BY DEF ModeFollows, ModeAgreement, Quiet
<1> QED
  BY <1>1, ModeInvariance, PTL

LEMMA BytesStep ==
  ASSUME Inv, BytesFollow, [Next]_vars, MaxTroubles = 0
  PROVE  BytesFollow'
<1> USE DEF BytesFollow
<1>0. /\ nvs \in Nvs /\ ~Fails
      /\ fs \in [active : Contents, staged : Contents, backup : Contents]
  BY NothingFails DEF Inv, TypeOK
<1>1. ASSUME nvs'.active = nvs.active, nvs'.staged = nvs.staged, UNCHANGED <<fs, job>>,
             wk' = wk \/ {wk, wk'} \cap {"promote", "adopt", "pull", "verify", "commit"} = {}
      PROVE  BytesFollow'
  BY <1>1 DEF ActiveBytes, StageSteps
<1>2. CASE Control
  <2>1. nvs'.active = nvs.active /\ nvs'.staged = nvs.staged
    BY <1>2, ControlSlots
  <2>2. UNCHANGED <<fs, wk>>
    BY <1>2
    DEF Control, StageCheck, ActivateCheck, Lock, PauseCheck, ResumeCheck,
        PauseGate, PauseStore, ResumeStore, ResumeGate
  <2>3. job' = job \/ wk # "commit"
    BY <1>2
    DEF Inv, OneTransition, StageSteps, Control, StageCheck, ActivateCheck, Lock,
        Busy, PauseCheck, ResumeCheck, PauseGate, PauseStore, ResumeStore, ResumeGate
  <2> QED
    BY <2>1, <2>2, <2>3 DEF ActiveBytes
<1>3. CASE Begin \/ Load \/ Record \/ Restore \/ RestoreError \/ Reopen \/ LoadError
           \/ Swap \/ Reload
  BY <1>1, <1>3
  DEF Begin, Load, Record, Restore, RestoreError, Reopen, LoadError, Swap, Reload, Goto
<1>4. CASE SetMode \/ Unpause
  <2>1. nvs'.active = nvs.active /\ nvs'.staged = nvs.staged
    BY <1>0, <1>4 DEF SetMode, Unpause, Nvs
  <2> QED
    BY <1>1, <1>4, <2>1 DEF SetMode, Unpause, Goto
<1>5. CASE Finish
  BY <1>5 DEF Finish, Goto, ActiveBytes, StageSteps
<1>6. CASE DrainDone
  BY <1>6 DEF DrainDone, Goto, ActiveBytes, StageSteps
<1>7. CASE DrainTimeout \/ Pull
  <2>1. fs'.active = fs.active /\ fs'.staged \in {fs.staged, None} \cup Contents
        /\ (wk' = "finish" => fs'.staged \in {fs.staged, None})
        /\ (wk' = "finish" /\ wk = "pull" => fs'.staged = None)
    BY <1>0, <1>7 DEF DrainTimeout, Pull, Goto
  <2>2. wk \in {"drain", "pull"} /\ wk' \in {"finish", "verify"} /\ UNCHANGED nvs
    BY <1>7 DEF DrainTimeout, Pull, Goto
  <2> QED
    BY <2>1, <2>2 DEF ActiveBytes, StageSteps
<1>8. CASE Verify
  <2>1. /\ fs'.active = fs.active
        /\ \/ wk' = "commit" /\ fs'.staged = job.rel.art /\ job' = job
           \/ wk' = "finish" /\ fs'.staged = None
    BY <1>0, <1>8 DEF Verify, DigestMatches, Goto
  <2>2. wk = "verify" /\ UNCHANGED nvs
    BY <1>8 DEF Verify
  <2> QED
    BY <2>1, <2>2 DEF ActiveBytes, StageSteps
<1>9. CASE Commit
  <2>1. /\ nvs'.active = nvs.active /\ nvs'.staged = job.rel
        /\ wk' = "finish" /\ wk = "commit" /\ fs' = fs
    BY <1>0, <1>9 DEF Commit, Nvs, Goto
  <2> QED
    BY <2>1 DEF ActiveBytes, StageSteps
<1>10. CASE Backup
  <2>1. wk = "backup" /\ UNCHANGED nvs
    BY <1>10 DEF Backup
  <2>2. \/ wk' = "finish" /\ fs' = fs
        \/ wk' = "promote" /\ fs'.staged = fs.staged /\ fs.staged # None
    BY <1>0, <1>10 DEF Backup, Goto
  <2> QED
    BY <2>1, <2>2 DEF ActiveBytes, StageSteps
<1>11. CASE Promote
  <2>1. /\ wk = "promote" /\ wk' = "adopt" /\ UNCHANGED nvs
        /\ fs'.active = fs.staged /\ fs'.staged = None
    BY <1>0, <1>11 DEF Promote, Goto
  <2> QED
    BY <2>1 DEF StageSteps
<1>12. CASE Adopt
  <2>1. /\ wk = "adopt" /\ wk' = "swap" /\ UNCHANGED fs
        /\ nvs'.active = snap.staged /\ nvs'.staged = NoRelease
    BY <1>0, <1>12 DEF Adopt, Nvs, Goto
  <2>2. snap.staged = nvs.staged /\ nvs.staged.art # None
    BY <2>1 DEF Inv, SnapshotCurrent, valid
  <2>3. fs.active = nvs'.active.art /\ fs.active # None
    BY <2>1, <2>2, SlotFacts, ReleaseAssumption
  <2> QED
    BY <2>1, <2>3 DEF ActiveBytes, StageSteps
<1>13. ASSUME Restart PROVE BytesFollow'
  <2>1. nvs'.active = nvs.active /\ nvs'.staged = nvs.staged
        /\ wk = "restart" /\ wk' = "idle" /\ fs' = fs
    BY <1>0, <1>13 DEF Restart, Boot, Start, Nvs
  <2> QED
    BY <2>1 DEF ActiveBytes, StageSteps
<1>14. CASE Admit \/ Complete \/ UNCHANGED vars
  BY <1>1, <1>14 DEF Admit, Complete, vars
<1>15. ~Reset
  BY <1>0 DEF Reset
<1> QED
  BY <1>2, <1>3, <1>4, <1>5, <1>6, <1>7, <1>8, <1>9, <1>10, <1>11, <1>12, <1>13,
     <1>14, <1>15
  DEF Next, Worker

LEMMA CodeStep ==
  ASSUME Inv, ModeFollows, BytesFollow, CodeFollows, [Next]_vars, MaxTroubles = 0
  PROVE  CodeFollows'
<1> USE DEF CodeFollows, Loaded
<1>0. /\ nvs \in Nvs /\ ~Fails
      /\ fs \in [active : Contents, staged : Contents, backup : Contents]
      /\ run \in [mode : Modes, code : Contents, policy : Contents]
  BY NothingFails DEF Inv, TypeOK
<1>1. CASE Control
  <2>1. nvs'.active = nvs.active /\ nvs'.staged = nvs.staged
    BY <1>1, ControlSlots
  <2>2. UNCHANGED <<fs, run, wk>>
    BY <1>1
    DEF Control, StageCheck, ActivateCheck, Lock, PauseCheck, ResumeCheck,
        PauseGate, PauseStore, ResumeStore, ResumeGate
  <2>3. job' = job \/ wk \notin ActivateSteps
    BY <1>1
    DEF Inv, OneTransition, Control, StageCheck, ActivateCheck, Lock,
        Busy, PauseCheck, ResumeCheck, PauseGate, PauseStore, ResumeStore, ResumeGate
  <2> QED
    BY <2>1, <2>2, <2>3 DEF ActivateSteps
<1>2. CASE Begin \/ DrainDone \/ Restore \/ RestoreError \/ Reopen \/ LoadError
           \/ Finish \/ DrainTimeout \/ Pull \/ Verify
  <2>1. UNCHANGED <<nvs, run>>
        /\ {wk, wk'} \cap (Loaded \cup {"restart"}) = {}
    BY <1>2
    DEF Begin, DrainDone, Restore, RestoreError, Reopen, LoadError, Finish,
        DrainTimeout, Pull, Verify, Goto
  <2> QED
    BY <2>1
<1>3. CASE Commit
  <2>1. nvs'.active = nvs.active /\ UNCHANGED run /\ wk = "commit" /\ wk' = "finish"
    BY <1>0, <1>3 DEF Commit, Nvs, Goto
  <2> QED
    BY <2>1
<1>4. CASE Load
  <2>1. /\ wk = "load" /\ UNCHANGED <<nvs, run, job, fs>>
        /\ \/ wk' \in {"finish", "setMode"}
           \/ wk' = "reload" /\ job.mode = "Local"
           \/ wk' = "backup" /\ ~(job.mode = "Local" /\ run.mode = "Local")
    BY <1>4 DEF Load, Goto
  <2> QED
    BY <2>1
<1>5. CASE Reload
  <2>1. /\ wk = "reload" /\ UNCHANGED <<nvs, job, fs>> /\ run'.mode = run.mode
        /\ \/ wk' = "finish" /\ run' = run
           \/ wk' = "backup" /\ run'.code = fs.staged /\ fs.staged # None
    BY <1>0, <1>5 DEF Reload, Goto
  <2>2. fs.staged \in {None, nvs.staged.art}
    BY <2>1 DEF BytesFollow, StageSteps
  <2> QED
    BY <2>1, <2>2
<1>6. CASE Backup
  <2>1. /\ wk = "backup" /\ UNCHANGED <<nvs, job, run>>
        /\ \/ wk' = "finish" /\ fs.staged = None
           \/ wk' = "promote"
    BY <1>0, <1>6 DEF Backup, Goto
  <2> QED
    BY <2>1
<1>7. CASE Promote
  <2>1. wk = "promote" /\ wk' = "adopt" /\ UNCHANGED <<nvs, job, run>>
    BY <1>0, <1>7 DEF Promote, Goto
  <2> QED
    BY <2>1
<1>8. CASE Adopt
  <2>1. /\ wk = "adopt" /\ wk' = "swap" /\ UNCHANGED <<job, run>>
        /\ nvs'.active = snap.staged
    BY <1>0, <1>8 DEF Adopt, Nvs, Goto
  <2>2. snap.staged = nvs.staged
    BY <2>1 DEF Inv, SnapshotCurrent
  <2> QED
    BY <2>1, <2>2
<1>9. CASE Swap
  <2>1. /\ wk = "swap" /\ wk' = "setMode" /\ UNCHANGED <<job, nvs>>
        /\ run'.code = run.code /\ run'.mode = run.mode
    BY <1>0, <1>9 DEF Swap, Goto
  <2> QED
    BY <2>1
<1>10. CASE SetMode \/ Record
  <2>1. /\ wk \in {"setMode", "record"} /\ wk' \in {"record", "unpause"}
        /\ UNCHANGED <<job, run>> /\ nvs'.active = nvs.active
    BY <1>0, <1>10 DEF SetMode, Record, Nvs, Goto
  <2> QED
    BY <2>1
<1>11. CASE Unpause
  <2>1. /\ wk = "unpause" /\ UNCHANGED <<job, run>> /\ nvs'.active = nvs.active
        /\ wk' = IF snap.mode # job.mode THEN "restart" ELSE "finish"
    BY <1>0, <1>11 DEF Unpause, ModeChanges, Nvs, Goto
  <2>2. snap.mode = run.mode
    BY <2>1 DEF ModeFollows
  <2> QED
    BY <2>1, <2>2
<1>12. CASE Restart
  <2>1. /\ wk = "restart" /\ wk' = "idle" /\ nvs'.active = nvs.active
        /\ run'.mode = "Local" => run'.code = ActiveBytes
    BY <1>0, <1>12 DEF Restart, Boot, Start, Nvs
  <2>2. ActiveBytes = nvs.active.art
    BY <2>1 DEF BytesFollow
  <2> QED
    BY <2>1, <2>2
<1>13. CASE Admit \/ Complete \/ UNCHANGED vars
  BY <1>13 DEF Admit, Complete, vars
<1>14. ~Reset
  BY <1>0 DEF Reset
<1> QED
  BY <1>1, <1>2, <1>3, <1>4, <1>5, <1>6, <1>7, <1>8, <1>9, <1>10, <1>11, <1>12,
     <1>13, <1>14
  DEF Next, Worker

\* When no step fails and resume_function does not overlap a transition, the active
\* file, the staged file and the bytes WAMR runs are those of the tuples that NVS
\* declares whenever an invocation can run, through every interleaving of commands
\* with staging, activation and the restart into the other mode.
THEOREM BytesMatch ==
  ASSUME MaxTroubles = 0, "resume" \notin LateCommands
  PROVE  Spec => []BytesMatchMetadata
<1>1. Init => BytesFollow /\ CodeFollows /\ ClosedWhileWorking
  BY ReleaseAssumption, SlotFacts
  DEF Init, BytesFollow, CodeFollows, ClosedWhileWorking, ActiveBytes, Erased, CtlIdle,
      Loaded, StageSteps, ActivateSteps
<1>2. Inv /\ BytesFollow /\ [Next]_vars => BytesFollow'
  BY BytesStep
<1>3. Inv /\ ModeFollows /\ BytesFollow /\ CodeFollows /\ [Next]_vars => CodeFollows'
  BY CodeStep
<1>4. Inv /\ ClosedWhileWorking /\ [Next]_vars => ClosedWhileWorking'
  BY ClosedStep
<1>5. Inv /\ BytesFollow /\ CodeFollows /\ ClosedWhileWorking => BytesMatchMetadata
  <2> SUFFICES ASSUME Inv, BytesFollow, CodeFollows, ClosedWhileWorking
               PROVE  BytesMatchMetadata
    OBVIOUS
  <2>1. ASSUME gate \/ admitted > 0 PROVE wk \notin Loaded \cup {"restart"}
    <3>1. wk \in Loaded \cup {"restart"} => wk \in ActivateSteps /\ wk # "idle"
      BY DEF Loaded, ActivateSteps
    <3> QED
      BY <2>1, <3>1 DEF ClosedWhileWorking
  <2> QED
    BY <2>1 DEF BytesMatchMetadata, BytesFollow, CodeFollows
<1> QED
  BY <1>1, <1>2, <1>3, <1>4, <1>5, Invariance, ModeInvariance, PTL DEF Spec

-----------------------------------------------------------------------------
(* The promises that a race or a failed download breaks, each under the one *)
(* condition that excludes it: nothing else in the device breaks them.      *)

\* The persisted flag alone, under the same condition as PauseIsHonoured: what loses
\* an accepted pause is a pause_function that overlaps an activation.
THEOREM PauseIsPersisted ==
  ASSUME "pause" \notin LateCommands
  PROVE  Spec => []PausePersists
<1>1. PauseHonoured => PausePersists
  BY DEF PauseHonoured, PausePersists
<1> QED
  BY <1>1, PauseIsHonoured, PTL

\* No stage_release is between its check of the generations and the mutex while
\* another one is being staged.
StagesInTurn ==
  ctl.pc = "lock" /\ ctl.job.action = "Stage" => job.action # "Stage"

\* Until its commit a staging is newer than what is staged, and so is the one that a
\* handler has checked and not queued yet.
StagesNewer ==
  /\ job.action = "Stage" /\ wk # "finish" => job.rel.gen > nvs.staged.gen
  /\ ctl.pc = "lock" /\ ctl.job.action = "Stage" =>
       ctl.job.rel.gen > nvs.staged.gen

LEMMA StagesNewerStep ==
  ASSUME Inv, StagesInTurn, StagesNewer, [Next]_vars
  PROVE  StagesNewer'
<1> USE DEF StagesNewer
<1>0. nvs \in Nvs /\ nvs.staged \in Slots /\ nvs.active \in Slots
  BY DEF Inv, TypeOK, Nvs
<1>1. ASSUME nvs'.staged = nvs.staged, UNCHANGED <<job, ctl>>,
             wk' = wk \/ wk # "finish"
      PROVE  StagesNewer'
  BY <1>1
<1>2. ASSUME NEW r \in Releases, StageCheck(r) PROVE StagesNewer'
  <2>1. r.gen > nvs.staged.gen
    BY <1>0, <1>2, SlotFacts DEF StageCheck, Stale, KnownGeneration
  <2>2. ctl'.job.rel = r /\ UNCHANGED <<nvs, job, wk>>
    BY <1>2 DEF StageCheck, StageJob
  <2> QED
    BY <2>1, <2>2
<1>3. CASE Lock
  BY <1>3 DEF Lock, Busy, CtlIdle
<1>4. ASSUME NEW g, NEW m, ActivateCheck(g, m) PROVE StagesNewer'
  BY <1>4 DEF ActivateCheck, ActivateJob
<1>5. ASSUME NEW g, PauseCheck(g) \/ ResumeCheck(g) PROVE StagesNewer'
  BY <1>5 DEF PauseCheck, ResumeCheck, CtlIdle
<1>6. CASE PauseGate \/ PauseStore \/ ResumeStore \/ ResumeGate
  <2>1. nvs'.staged = nvs.staged
    BY <1>6, ControlSlots DEF Control
  <2>2. ctl'.pc # "lock" /\ UNCHANGED <<job, wk>>
    BY <1>6 DEF PauseGate, PauseStore, ResumeStore, ResumeGate, CtlIdle
  <2> QED
    BY <2>1, <2>2
<1>7. CASE Commit
  <2>1. job.action = "Stage" /\ UNCHANGED <<job, ctl>> /\ wk' = "finish"
    BY <1>7 DEF Commit, Inv, OneTransition, StageSteps, Goto
  <2> QED
    BY <2>1 DEF StagesInTurn
<1>8. CASE Adopt
  <2>1. nvs'.staged.gen \in {nvs.staged.gen, 0}
    BY <1>8, AdoptSlots
  <2>2. job.action # "Stage" /\ UNCHANGED <<job, ctl>>
    BY <1>8 DEF Adopt, Inv, OneTransition, ActivateSteps
  <2>3. ctl.pc = "lock" /\ ctl.job.action = "Stage" => ctl.job.rel.gen > 0
    BY SlotFacts DEF Inv, OnlyNewer
  <2> QED
    BY <2>1, <2>2, <2>3
<1>9. CASE Finish
  BY <1>9 DEF Finish, NoJob
<1>10. CASE SetMode \/ Unpause
  <2>1. nvs'.staged = nvs.staged
    BY <1>0, <1>10 DEF SetMode, Unpause, Nvs
  <2> QED
    BY <1>1, <1>10, <2>1 DEF SetMode, Unpause
<1>11. CASE Restart \/ Reset
  <2>1. PICK n \in Nvs : Boot(n) \/ Misboot(n)
    BY <1>11, BootCases
  <2>2. job'.action = "None" /\ ctl'.pc = "idle"
    BY <2>1 DEF Boot, Misboot, Start, NoJob, CtlIdle
  <2> QED
    BY <2>2
<1>12. CASE \/ Begin \/ DrainDone \/ DrainTimeout \/ Pull \/ Verify \/ Load \/ LoadError
            \/ Reload \/ Backup \/ Promote \/ Swap \/ Record
            \/ Restore \/ RestoreError \/ Reopen
  BY <1>1, <1>12
  DEF Begin, DrainDone, DrainTimeout, Pull, Verify, Load, LoadError, Reload, Backup,
      Promote, Swap, Record, Restore, RestoreError, Reopen
<1>13. CASE Admit \/ Complete \/ UNCHANGED vars
  BY <1>1, <1>13 DEF Admit, Complete, vars
<1> QED
  BY <1>2, <1>3, <1>4, <1>5, <1>6, <1>7, <1>8, <1>9, <1>10, <1>11, <1>12, <1>13
  DEF Next, Control, Worker

\* A reset within set_staged_release leaves the older or the newer generation, one
\* within activate_staged_release nothing older than what was staged.
LEMMA BootStaged ==
  ASSUME Inv, StagesNewer, Restart \/ Reset
  PROVE  nvs'.staged.gen >= nvs.staged.gen \/ nvs'.staged.gen = 0
<1>0. nvs \in Nvs /\ nvs.staged.gen \in Nat
  BY SlotFacts DEF Inv, TypeOK, Nvs
<1>1. ASSUME NEW n \in Nvs, Boot(n) \/ Misboot(n)
      PROVE  nvs'.staged = n.staged
  BY <1>1 DEF Boot, Misboot, Nvs
<1>2. CASE Restart
  BY <1>0, <1>1, <1>2 DEF Restart
<1>3. CASE Reset
  <2>1. PICK stored \in Interrupted, mode \in {nvs.mode, "Local"} :
          \/ Boot([stored EXCEPT !.mode = mode])
          \/ Misboot([stored EXCEPT !.mode = mode])
    BY <1>3 DEF Reset
  <2>2. stored \in Nvs /\ mode \in Modes
    BY InterruptedBootable DEF Inv, TypeOK, Nvs, Modes, Bootable
  <2>3. nvs'.staged = stored.staged
    <3>1. /\ [stored EXCEPT !.mode = mode] \in Nvs
          /\ [stored EXCEPT !.mode = mode].staged = stored.staged
      BY <2>2 DEF Nvs
    <3> QED
      BY <1>1, <2>1, <3>1
  <2>4. CASE wk = "commit" /\ stored \in HalfStaged
    <3>1. job.rel \in Releases /\ job.rel.gen > nvs.active.gen
          /\ job.rel.gen \in Nat /\ job.rel.gen > nvs.staged.gen
      BY <2>4, SlotFacts DEF Inv, OneTransition, OnlyNewer, StageSteps, StagesNewer
    <3>2. stored.staged.gen \in {nvs.staged.gen, job.rel.gen}
      BY <2>4, <3>1, HalfStagedFacts
    <3> QED
      BY <1>0, <2>3, <3>1, <3>2
  <2>5. CASE wk = "adopt" /\ stored \in HalfAdopted
    BY <1>0, <2>3, <2>5, HalfAdoptedFacts
  <2>6. CASE stored = nvs
    BY <1>0, <2>3, <2>6
  <2> QED
    BY <2>4, <2>5, <2>6 DEF Interrupted
<1> QED
  BY <1>2, <1>3

\* A staged generation is replaced by newer ones only, through every fault and reset,
\* as long as no stage_release waits for the mutex during another staging: the check
\* of sif_release_stage_async outside the mutex is the only thing that breaks it.
THEOREM StagedAdvances == Spec /\ []StagesInTurn => StagedNeverRegresses
<1>1. Init => StagesNewer
  BY DEF Init, StagesNewer, NoJob, CtlIdle
<1>2. Inv /\ StagesInTurn /\ StagesNewer /\ [Next]_vars => StagesNewer'
  BY StagesNewerStep
<1>3. ASSUME Inv, StagesNewer, [Next]_vars, valid(nvs'.staged)
      PROVE  nvs'.staged.gen >= nvs.staged.gen
  <2>0. nvs \in Nvs /\ nvs.staged.gen \in Nat
    BY <1>3, SlotFacts DEF Inv, TypeOK, Nvs
  <2>1. CASE nvs'.staged = nvs.staged
    BY <2>0, <2>1
  <2>2. CASE Commit
    <3>1. job.action = "Stage" /\ wk = "commit" /\ job.rel.gen \in Nat
      BY <1>3, <2>2, SlotFacts DEF Commit, Inv, OneTransition, StageSteps, OnlyNewer
    <3>2. nvs'.staged.gen \in {nvs.staged.gen, job.rel.gen}
      BY <1>3, <2>2, CommitSlots
    <3> QED
      BY <1>3, <2>0, <3>1, <3>2 DEF StagesNewer
  <2>3. CASE Adopt
    <3>1. nvs'.staged.gen \in {nvs.staged.gen, 0}
      BY <1>3, <2>3, AdoptSlots
    <3> QED
      BY <1>3, <2>0, <3>1 DEF valid
  <2>4. CASE Restart \/ Reset
    BY <1>3, <2>0, <2>4, BootStaged DEF valid
  <2> QED
    BY <1>3, <2>1, <2>2, <2>3, <2>4, ControlSlots, WorkerSlots
    DEF Next, Admit, Complete, vars
<1>4. Inv /\ StagesNewer /\ [Next]_vars =>
        [valid(nvs'.staged) => nvs'.staged.gen >= nvs.staged.gen]_vars
  BY <1>3
<1> QED
  BY <1>1, <1>2, <1>4, Invariance, PTL DEF Spec, StagedNeverRegresses

\* A release is staged only while no other one is.
StagesIntoEmptySlot ==
  job.action = "Stage" /\ wk # "finish" => ~valid(nvs.staged)

\* Between transitions, and up to the promotion of an activation, the staged file is
\* the one the metadata declares, or both are absent.
StagedBytes == wk \notin StageSteps \cup {"adopt"} => fs.staged = nvs.staged.art

LEMMA StagedBytesStep ==
  ASSUME Inv, BytesFollow, StagesIntoEmptySlot, StagedBytes, damage = {},
         [Next]_vars, MaxTroubles = 0
  PROVE  StagedBytes'
<1> USE DEF StagedBytes
<1>0. /\ nvs \in Nvs /\ ~Fails
      /\ fs \in [active : Contents, staged : Contents, backup : Contents]
  BY NothingFails DEF Inv, TypeOK
<1>1. ASSUME nvs'.staged = nvs.staged, fs'.staged = fs.staged,
             wk \in StageSteps \cup {"adopt"} => wk' = wk
      PROVE  StagedBytes'
  BY <1>1
<1>2. ASSUME job.action = "Stage", wk # "finish" PROVE nvs.staged.art = None
  <2>1. nvs.staged = NoRelease
    BY <1>2, SlotFacts, ReleaseAssumption DEF StagesIntoEmptySlot, valid, Inv, Whole
  <2> QED
    BY <2>1, SlotFacts
<1>3. CASE Control
  <2>1. nvs'.staged = nvs.staged
    BY <1>3, ControlSlots
  <2> QED
    BY <1>1, <1>3, <2>1
    DEF Control, StageCheck, ActivateCheck, Lock, PauseCheck, ResumeCheck,
        PauseGate, PauseStore, ResumeStore, ResumeGate
<1>4. CASE DrainTimeout \/ Pull \/ Verify
  <2>1. CASE job.action = "Stage"
    <3>1. UNCHANGED nvs /\ wk # "finish"
      BY <1>4 DEF DrainTimeout, Pull, Verify
    <3>2. wk' \in StageSteps \/ fs'.staged = None
      BY <1>0, <1>4, <2>1 DEF DrainTimeout, Pull, Verify, Goto, StageSteps
    <3> QED
      BY <1>2, <2>1, <3>1, <3>2
  <2>2. CASE job.action # "Stage"
    <3>1. DrainTimeout
      BY <1>4, <2>2 DEF Pull, Verify, Inv, OneTransition, StageSteps
    <3> QED
      BY <1>1, <2>2, <3>1 DEF DrainTimeout, StageSteps
  <2> QED
    BY <2>1, <2>2
<1>5. CASE Commit
  <2>1. nvs'.staged = job.rel /\ UNCHANGED fs /\ wk = "commit"
    BY <1>0, <1>5 DEF Commit, Nvs
  <2> QED
    BY <2>1 DEF BytesFollow
<1>6. CASE Adopt
  <2>1. nvs'.staged = NoRelease /\ UNCHANGED fs /\ wk = "adopt"
    BY <1>0, <1>6 DEF Adopt, Nvs
  <2> QED
    BY <2>1, SlotFacts DEF BytesFollow
<1>7. CASE Promote
  BY <1>0, <1>7 DEF Promote, Goto
<1>8. CASE Backup
  <2>1. fs'.staged = fs.staged /\ UNCHANGED nvs /\ wk = "backup"
    BY <1>0, <1>8 DEF Backup
  <2> QED
    BY <1>1, <2>1 DEF StageSteps
<1>9. CASE SetMode \/ Unpause
  <2>1. nvs'.staged = nvs.staged
    BY <1>0, <1>9 DEF SetMode, Unpause, Nvs
  <2> QED
    BY <1>1, <1>9, <2>1 DEF SetMode, Unpause, StageSteps
<1>10. CASE Restart
  <2>1. nvs'.staged = nvs.staged /\ UNCHANGED fs /\ wk = "restart"
    BY <1>0, <1>10 DEF Restart, Boot, Start
  <2> QED
    BY <1>1, <2>1 DEF StageSteps
<1>11. CASE \/ Begin \/ DrainDone \/ Load \/ LoadError \/ Reload \/ Swap \/ Record
            \/ Finish \/ Restore \/ RestoreError \/ Reopen
  BY <1>1, <1>11
  DEF Begin, DrainDone, Load, LoadError, Reload, Swap, Record, Finish, Restore,
      RestoreError, Reopen, StageSteps
<1>12. CASE Admit \/ Complete \/ UNCHANGED vars
  BY <1>1, <1>12 DEF Admit, Complete, vars
<1>13. ~Reset
  BY <1>0 DEF Reset
<1> QED
  BY <1>3, <1>4, <1>5, <1>6, <1>7, <1>8, <1>9, <1>10, <1>11, <1>12, <1>13
  DEF Next, Worker

\* Without faults a device that reports a staged release can activate it, as long as
\* nothing is staged over it: a download that does not end well is the only thing
\* that takes the bytes away, and it does so only to a release staged before it.
THEOREM StagedStaysActivatable ==
  ASSUME MaxTroubles = 0
  PROVE  Spec /\ []StagesIntoEmptySlot => []StagedIsActivatable
<1>1. Init => BytesFollow /\ StagedBytes
  BY ReleaseAssumption, SlotFacts
  DEF Init, BytesFollow, StagedBytes, ActiveBytes, Erased, StageSteps
<1>2. Inv /\ BytesFollow /\ [Next]_vars => BytesFollow'
  BY BytesStep
<1>3. Inv /\ BytesFollow /\ StagesIntoEmptySlot /\ StagedBytes /\ damage = {}
        /\ [Next]_vars => StagedBytes'
  BY StagedBytesStep
<1>4. StagedBytes => StagedIsActivatable
  BY DEF StagedBytes, StagedIsActivatable, Quiet, StageSteps
<1> QED
  BY <1>1, <1>2, <1>3, <1>4, Invariance, NoDamage, PTL DEF Spec
=============================================================================
