---------------------------- MODULE DeviceRelease ----------------------------
(***************************************************************************)
(* The device release manager: SIF_wasm_dht/main/sif_release.cpp over the  *)
(* NVS state of sif_state.cpp, the SPIFFS files that sif_wasmPull.cpp      *)
(* writes and the boot path of main.cpp.                                   *)
(*                                                                         *)
(* Four parties share its state and no lock covers more than the job slot: *)
(*   - the MQTT control task runs one command handler at a time (ctl);     *)
(*   - the static release worker runs one queued transition (wk, job);     *)
(*   - SIF admits and completes invocations through the admission gate;    *)
(*   - the board resets between any two steps.                             *)
(* An NVS setter is one step here.  A step that the code lets fail (a load, *)
(* a setter, a rename, a reload) may fail while troubles remain.  A setter *)
(* of several keys that fails, or that a reset interrupts, leaves the keys *)
(* written before it; the load at boot is the one whose error is not read. *)
(*                                                                         *)
(* A release is a generation, an artifact (its digest; the identity, which *)
(* is written next and never compared, goes with it) and a contract, named *)
(* after the artifact it was published with.  File contents are artifacts  *)
(* too, so "the digest of the file matches" is equality.  The last command *)
(* id is written and never read back: only that writing it can fail is     *)
(* kept.                                                                   *)
(***************************************************************************)
EXTENDS Naturals

CONSTANTS
  Artifacts,       \* contents a file can have and a release can declare
  Releases,        \* the tuples stage_release commands may carry
  Base,            \* the demo module embedded in the firmware
  None,            \* no file, no code, no artifact
  BadContracts,    \* contracts that do not compile on the device
  MaxInvocations,  \* bound on invocations admitted at once
  MaxTroubles,     \* bound on resets and failing loads, setters, renames, reloads
  LateCommands     \* which of pause/resume may arrive during a transition

ASSUME ReleaseAssumption ==
  /\ None \notin Artifacts
  /\ Base \in Artifacts \ BadContracts
  /\ Releases \subseteq [gen : Nat \ {0}, art : Artifacts, ctr : Artifacts]

ASSUME BoundAssumption ==
  /\ MaxInvocations \in Nat
  /\ MaxTroubles \in Nat
  /\ LateCommands \subseteq {"pause", "resume"}

VARIABLES
  nvs,       \* persisted: active and staged tuple, admission pause, mode
  fs,        \* persisted: SPIFFS active, staged and .previous file
  run,       \* RAM: booted mode, canonical WAMR bytes, compiled contract
  gate,      \* RAM: scheduler admission of wasmProcess
  admitted,  \* RAM: invocations admitted and not yet finished
  job,       \* RAM: s_transition_action with its arguments
  wk,        \* RAM: where the release worker is
  snap,      \* RAM: the state process_activation loaded
  ctl,       \* RAM: where the control task is, with the job it will queue
  asked,     \* history: the last admission command the device accepted
  damage,    \* history: "torn" when a tuple was written in part, "boot" when
             \* app_main went on with a load that had failed
  troubles   \* resets and failed steps so far

vars == <<nvs, fs, run, gate, admitted, job, wk, snap, ctl, asked, damage,
          troubles>>

Modes == {"Local", "Edge"}
NoRelease == [gen |-> 0, art |-> None, ctr |-> None]
Bootstrap == [gen |-> 0, art |-> Base, ctr |-> Base]
Contents == Artifacts \cup {None}
Generations == {r.gen : r \in Releases}
Slots == [gen : Generations \cup {0}, art : Contents, ctr : Contents]

valid(r) == r.gen > 0 /\ r.art # None /\ r.ctr # None

\* write_release sets generation, digest and contract in this order: what it
\* leaves when one of the three cannot be set.
Torn(old, new) ==
  {old, [old EXCEPT !.gen = new.gen], [new EXCEPT !.ctr = old.ctr]}

\* erase_release in the same order.
Erasing(old) ==
  {old, [old EXCEPT !.gen = 0], [old EXCEPT !.gen = 0, !.art = None]}

NoJob == [action |-> "None", rel |-> NoRelease, gen |-> 0, mode |-> "Local"]
StageJob(r) == [action |-> "Stage", rel |-> r, gen |-> r.gen, mode |-> "Local"]
ActivateJob(g, m) ==
  [action |-> "Activate", rel |-> NoRelease, gen |-> g, mode |-> m]

Erased == [active |-> Bootstrap, staged |-> NoRelease,
           paused |-> FALSE, mode |-> "Local"]
CtlIdle == [pc |-> "idle", job |-> NoJob]

\* compile_contract_policy: an empty or malformed contract gives no policy.
compile_contract_policy(ctr) == IF ctr \in BadContracts THEN None ELSE ctr

\* The bytes a local boot loads and telemetry digests: file or embedded module.
ActiveBytes == IF fs.active = None THEN Base ELSE fs.active

Init ==
  /\ nvs = Erased
  /\ fs = [active |-> None, staged |-> None, backup |-> None]
  /\ run = [mode |-> "Local", code |-> Base, policy |-> Base]
  /\ gate = TRUE
  /\ admitted = 0
  /\ job = NoJob
  /\ wk = "idle"
  /\ snap = Erased
  /\ ctl = CtlIdle
  /\ asked = "resume"
  /\ damage = {}
  /\ troubles = 0

Works == UNCHANGED troubles
Fails == troubles < MaxTroubles /\ troubles' = troubles + 1

-----------------------------------------------------------------------------
(* The control task: one handler at a time, each load a step of its own.    *)

\* pause_function and resume_function need not wait for the worker.
MayArrive(command) ==
  \/ command \in LateCommands
  \/ (job.action = "None" /\ wk = "idle")

StaleIgnoringStaged(r) == r.gen < nvs.active.gen

\* sif_release_stage_async rejects what is older than either slot.
Stale(r) == r.gen < nvs.active.gen \/ r.gen < nvs.staged.gen

\* An equal generation is an exact duplicate or a conflict: nothing is queued.
KnownGeneration(r) == r.gen \in {nvs.active.gen, nvs.staged.gen}

\* The NVS half of sif_release_stage_async, before it takes the mutex.
StageCheck(r) ==
  /\ ctl.pc = "idle"
  /\ ~Stale(r)
  /\ ~KnownGeneration(r)
  /\ ctl' = [pc |-> "lock", job |-> StageJob(r)]
  /\ UNCHANGED <<nvs, fs, run, gate, admitted, job, wk, snap, asked, damage, troubles>>

Matches(r, g) == valid(r) /\ r.gen = g

\* The NVS half of activate_async, for activate_local and set_runtime_mode.
ActivateCheck(g, m) ==
  /\ ctl.pc = "idle"
  /\ Matches(nvs.active, g) \/ Matches(nvs.staged, g)
  /\ ~(Matches(nvs.active, g) /\ nvs.mode = m)
  /\ ctl' = [pc |-> "lock", job |-> ActivateJob(g, m)]
  /\ UNCHANGED <<nvs, fs, run, gate, admitted, job, wk, snap, asked, damage, troubles>>

NeverBusy == FALSE

\* s_transition_in_progress, set and cleared together with the action.
Busy == job.action # "None"

\* The locked half of both: queue the job and notify, or refuse to overlap.
Lock ==
  /\ ctl.pc = "lock"
  /\ job' = IF Busy THEN job ELSE ctl.job
  /\ ctl' = CtlIdle
  /\ UNCHANGED <<nvs, fs, run, gate, admitted, wk, snap, asked, damage, troubles>>

PauseCheck(g) ==
  /\ ctl.pc = "idle"
  /\ MayArrive("pause")
  /\ g >= nvs.active.gen
  /\ ctl' = [CtlIdle EXCEPT !.pc = "pauseGate"]
  /\ UNCHANGED <<nvs, fs, run, gate, admitted, job, wk, snap, asked, damage, troubles>>

PauseGate ==
  /\ ctl.pc = "pauseGate"
  /\ gate' = FALSE
  /\ ctl' = [CtlIdle EXCEPT !.pc = "pauseStore"]
  /\ UNCHANGED <<nvs, fs, run, admitted, job, wk, snap, asked, damage, troubles>>

\* A failed commit returns an error with the gate already closed; the command
\* id that is written next may fail with the pause already stored.
PauseStore ==
  /\ ctl.pc = "pauseStore"
  /\ ctl' = CtlIdle
  /\ \/ /\ Works
        /\ nvs' = [nvs EXCEPT !.paused = TRUE]
        /\ asked' = "pause"
     \/ Fails /\ nvs' = [nvs EXCEPT !.paused = TRUE] /\ UNCHANGED asked
     \/ Fails /\ UNCHANGED <<nvs, asked>>
  /\ UNCHANGED <<fs, run, gate, admitted, job, wk, snap, damage>>

ResumeCheck(g) ==
  /\ ctl.pc = "idle"
  /\ MayArrive("resume")
  /\ g = nvs.active.gen
  /\ ctl' = [CtlIdle EXCEPT !.pc = "resumeStore"]
  /\ UNCHANGED <<nvs, fs, run, gate, admitted, job, wk, snap, asked, damage, troubles>>

ResumeStore ==
  /\ ctl.pc = "resumeStore"
  /\ \/ /\ Works
        /\ nvs' = [nvs EXCEPT !.paused = FALSE]
        /\ asked' = "resume"
        /\ ctl' = [CtlIdle EXCEPT !.pc = "resumeGate"]
     \/ Fails /\ ctl' = CtlIdle /\ UNCHANGED <<nvs, asked>>
  /\ UNCHANGED <<fs, run, gate, admitted, job, wk, snap, damage>>

\* Writing the command id comes first; if it fails the gate stays closed.
ResumeGate ==
  /\ ctl.pc = "resumeGate"
  /\ \/ Works /\ gate' = TRUE
     \/ Fails /\ UNCHANGED gate
  /\ ctl' = CtlIdle
  /\ UNCHANGED <<nvs, fs, run, admitted, job, wk, snap, asked, damage>>

Control ==
  \/ \E r \in Releases : StageCheck(r)
  \/ \E g \in Generations, m \in Modes : ActivateCheck(g, m)
  \/ Lock
  \/ \E g \in Generations \cup {0} : PauseCheck(g) \/ ResumeCheck(g)
  \/ PauseGate \/ PauseStore
  \/ ResumeStore \/ ResumeGate

-----------------------------------------------------------------------------
(* The release worker: transition_task, process_stage, process_activation.  *)

Goto(step) == wk' = step

\* Take the notification and close admission.
Begin ==
  /\ wk = "idle"
  /\ job.action # "None"
  /\ gate' = FALSE
  /\ Goto("drain")
  /\ UNCHANGED <<nvs, fs, run, admitted, job, snap, ctl, asked, damage, troubles>>

DrainedAlways == TRUE

\* What the polling loop of close_admission_and_drain waits for.
Drained == admitted = 0

DrainDone ==
  /\ wk = "drain"
  /\ Drained
  /\ Goto(IF job.action = "Stage" THEN "pull" ELSE "load")
  /\ UNCHANGED <<nvs, fs, run, gate, admitted, job, snap, ctl, asked, damage, troubles>>

NoDrainTimeout == FALSE

\* A hundred polls saw an admitted invocation; failed staging removes the file.
DrainTimeout ==
  /\ wk = "drain"
  /\ admitted > 0
  /\ fs' = IF job.action = "Stage" THEN [fs EXCEPT !.staged = None] ELSE fs
  /\ Goto("finish")
  /\ UNCHANGED <<nvs, run, gate, admitted, job, snap, ctl, asked, damage, troubles>>

\* sif_wasm_pull_blob with its tmp/rename sequence: whatever the server sent is
\* in the staged file, or the pull failed and process_stage removed the file.
Pull ==
  /\ wk = "pull"
  /\ \E bytes \in Contents :
       /\ fs' = [fs EXCEPT !.staged = bytes]
       /\ Goto(IF bytes = None THEN "finish" ELSE "verify")
  /\ UNCHANGED <<nvs, run, gate, admitted, job, snap, ctl, asked, damage, troubles>>

AnyDigest == TRUE

DigestMatches == fs.staged = job.rel.art

Verify ==
  /\ wk = "verify"
  /\ \/ DigestMatches /\ Goto("commit") /\ UNCHANGED fs
     \/ ~DigestMatches /\ Goto("finish") /\ fs' = [fs EXCEPT !.staged = None]
  /\ UNCHANGED <<nvs, run, gate, admitted, job, snap, ctl, asked, damage, troubles>>

\* What set_staged_release leaves in NVS when it does not get to its end.
HalfStaged == {[nvs EXCEPT !.staged = s] : s \in Torn(nvs.staged, job.rel)}

TearingFrom(stored) == IF stored = nvs THEN {} ELSE {"torn"}

\* set_staged_release; when it fails process_stage removes the bytes again.
Commit ==
  /\ wk = "commit"
  /\ \/ /\ Works
        /\ nvs' = [nvs EXCEPT !.staged = job.rel]
        /\ UNCHANGED <<fs, damage>>
     \/ /\ Fails
        /\ nvs' \in HalfStaged
        /\ damage' = damage \cup TearingFrom(nvs')
        /\ fs' = [fs EXCEPT !.staged = None]
  /\ Goto("finish")
  /\ UNCHANGED <<run, gate, admitted, job, snap, ctl, asked>>

AnyContract == TRUE

StagedContractCompiles == compile_contract_policy(nvs.staged.ctr) # None

ActivatesStaged ==
  Matches(nvs.staged, job.gen) /\ ~Matches(nvs.active, job.gen)

\* process_activation loads the state once and decides from that copy.
Load ==
  /\ wk = "load"
  /\ snap' = nvs
  /\ \/ ActivatesStaged /\ ~StagedContractCompiles /\ Goto("finish")
     \/ /\ ActivatesStaged
        /\ StagedContractCompiles
        /\ Goto(IF job.mode = "Local" /\ run.mode = "Local"
                THEN "reload" ELSE "backup")
     \/ Matches(nvs.active, job.gen) /\ Goto("setMode")
     \/ /\ ~Matches(nvs.active, job.gen)
        /\ ~Matches(nvs.staged, job.gen)
        /\ Goto("finish")
  /\ UNCHANGED <<nvs, fs, run, gate, admitted, job, ctl, asked, damage, troubles>>

\* The load failed: nothing is activated.
LoadError ==
  /\ wk = "load"
  /\ Fails
  /\ Goto("finish")
  /\ UNCHANGED <<nvs, fs, run, gate, admitted, job, snap, ctl, asked, damage>>

\* s_local_function->reloadFromPath on the staged file.
Reload ==
  /\ wk = "reload"
  /\ \/ /\ fs.staged # None
        /\ Works
        /\ run' = [run EXCEPT !.code = fs.staged]
        /\ Goto("backup")
     \/ fs.staged = None /\ Works /\ Goto("finish") /\ UNCHANGED run
     \/ fs.staged # None /\ Fails /\ Goto("finish") /\ UNCHANGED run
  /\ UNCHANGED <<nvs, fs, gate, admitted, job, snap, ctl, asked, damage>>

\* promote_staged_file up to the first rename; the old backup is removed.
Backup ==
  /\ wk = "backup"
  /\ \/ fs.staged = None /\ Works /\ Goto("finish") /\ UNCHANGED fs
     \/ /\ fs.staged # None
        /\ Works
        /\ fs' = [fs EXCEPT !.active = None, !.backup = fs.active]
        /\ Goto("promote")
     \/ /\ fs.staged # None
        /\ Fails
        /\ fs' = [fs EXCEPT !.backup = None]
        /\ Goto("finish")
  /\ UNCHANGED <<nvs, run, gate, admitted, job, snap, ctl, asked, damage>>

\* The second rename, rolled back when it fails unless that fails too.
Promote ==
  /\ wk = "promote"
  /\ \/ /\ Works
        /\ fs' = [active |-> fs.staged, staged |-> None, backup |-> None]
        /\ Goto("adopt")
     \/ /\ Fails
        /\ \/ fs' = [fs EXCEPT !.active = fs.backup, !.backup = None]
           \/ UNCHANGED fs
        /\ Goto("finish")
  /\ UNCHANGED <<nvs, run, gate, admitted, job, snap, ctl, asked, damage>>

\* activate_staged_release that does not get to its end: the active tuple is
\* written first, then the staged one erased.
HalfAdopted ==
  {[nvs EXCEPT !.active = s] : s \in Torn(nvs.active, snap.staged)}
    \cup {[nvs EXCEPT !.active = snap.staged, !.staged = s] :
            s \in Erasing(nvs.staged)}

\* activate_staged_release: the NVS staged generation is compared once more.
Adopt ==
  /\ wk = "adopt"
  /\ \/ /\ Works
        /\ nvs.staged.gen = snap.staged.gen
        /\ nvs' = [nvs EXCEPT !.active = snap.staged, !.staged = NoRelease]
        /\ UNCHANGED damage
        /\ Goto("swap")
     \/ /\ Fails
        /\ nvs' \in HalfAdopted
        /\ damage' = damage \cup TearingFrom(nvs')
        /\ Goto("finish")
  /\ UNCHANGED <<fs, run, gate, admitted, job, snap, ctl, asked>>

PolicyUnlessRestarting ==
  IF job.mode = run.mode THEN compile_contract_policy(snap.staged.ctr)
  ELSE run.policy

AdoptedPolicy == compile_contract_policy(snap.staged.ctr)

\* Subscriber name, cached contract policy and LED ownership.
Swap ==
  /\ wk = "swap"
  /\ run' = [run EXCEPT !.policy = AdoptedPolicy]
  /\ Goto("setMode")
  /\ UNCHANGED <<nvs, fs, gate, admitted, job, snap, ctl, asked, damage, troubles>>

SetMode ==
  /\ wk = "setMode"
  /\ \/ Works /\ nvs' = [nvs EXCEPT !.mode = job.mode] /\ Goto("record")
     \/ Fails /\ Goto("finish") /\ UNCHANGED nvs
  /\ UNCHANGED <<fs, run, gate, admitted, job, snap, ctl, asked, damage>>

\* set_last_command_id, then the acknowledging telemetry.
Record ==
  /\ wk = "record"
  /\ \/ Works /\ Goto("unpause")
     \/ Fails /\ Goto("finish")
  /\ UNCHANGED <<nvs, fs, run, gate, admitted, job, snap, ctl, asked, damage>>

NeverRestarts == FALSE

\* The loaded mode, not the booted one, decides whether the board restarts.
ModeChanges == snap.mode # job.mode

\* set_admission_paused(false), its result unread, unless the load saw a pause.
Unpause ==
  /\ wk = "unpause"
  /\ \/ Works /\ nvs' = [nvs EXCEPT !.paused = nvs.paused /\ snap.paused]
     \/ ~snap.paused /\ Fails /\ UNCHANGED nvs
  /\ Goto(IF ModeChanges THEN "restart" ELSE "finish")
  /\ UNCHANGED <<fs, run, gate, admitted, job, snap, ctl, asked, damage>>

FinishWithoutRestore ==
  /\ wk = "finish"
  /\ job' = NoJob
  /\ snap' = Erased
  /\ Goto(IF job.action = "Stage" THEN "idle" ELSE "restore")
  /\ UNCHANGED <<nvs, fs, run, gate, admitted, ctl, asked, damage, troubles>>

\* transition_task clears the arguments and the flag in one critical section.
Finish ==
  /\ wk = "finish"
  /\ job' = NoJob
  /\ snap' = Erased
  /\ Goto("restore")
  /\ UNCHANGED <<nvs, fs, run, gate, admitted, ctl, asked, damage, troubles>>

ReopenAlways == TRUE

PersistedOpen == ~nvs.paused

\* restore_persisted_admission reads the pause flag and only then acts on it.
Restore ==
  /\ wk = "restore"
  /\ Goto(IF PersistedOpen THEN "reopen" ELSE "idle")
  /\ UNCHANGED <<nvs, fs, run, gate, admitted, job, snap, ctl, asked, damage, troubles>>

\* The load failed: admission stays closed.
RestoreError ==
  /\ wk = "restore"
  /\ Fails
  /\ Goto("idle")
  /\ UNCHANGED <<nvs, fs, run, gate, admitted, job, snap, ctl, asked, damage>>

Reopen ==
  /\ wk = "reopen"
  /\ gate' = TRUE
  /\ Goto("idle")
  /\ UNCHANGED <<nvs, fs, run, admitted, job, snap, ctl, asked, damage, troubles>>

-----------------------------------------------------------------------------
(* Boot: app_main, sif_release_init and the subscriber factories.           *)

\* What runs after app_main has read NVS, with what it read.
Start(mode, paused, policy) ==
  /\ run' = [mode |-> mode,
             code |-> IF mode = "Local" THEN ActiveBytes ELSE None,
             policy |-> policy]
  /\ gate' = ~paused
  /\ admitted' = 0
  /\ job' = NoJob
  /\ wk' = "idle"
  /\ snap' = Erased
  /\ ctl' = CtlIdle
  /\ UNCHANGED <<fs, asked>>

Boot(stored) ==
  /\ nvs' = stored
  /\ Start(stored.mode, stored.paused, compile_contract_policy(stored.active.ctr))
  /\ damage' = damage \cup TearingFrom([stored EXCEPT !.mode = nvs.mode])

\* The tuple app_main writes when it sees no function identity.
FirstBoot == [gen |-> 0, art |-> ActiveBytes, ctr |-> Base]

\* The load fails and app_main goes on.  If it saw no identity it writes the
\* bootstrap tuple, result unread, and loads again; the contract may stay
\* unread; and if NVS never opened, mode and pause keep their defaults too.
Misboot(stored) ==
  /\ \E act \in Torn(stored.active, FirstBoot) \cup {FirstBoot} :
       /\ nvs' = [stored EXCEPT !.active = act]
       /\ \/ Start("Local", FALSE, None)
          \/ \E policy \in {None, compile_contract_policy(act.ctr)} :
               Start(stored.mode, stored.paused, policy)
  /\ damage' = damage \cup {"boot"}
               \cup TearingFrom([stored EXCEPT !.mode = nvs.mode])

\* esp_restart at the end of an activation that changed the mode.
Restart ==
  /\ wk = "restart"
  /\ \/ Works /\ Boot(nvs)
     \/ Fails /\ Misboot(nvs)

\* What a reset finds in NVS: it may interrupt a setter.
Interrupted ==
  {nvs} \cup (IF wk = "commit" THEN HalfStaged ELSE {})
        \cup (IF wk = "adopt" THEN HalfAdopted ELSE {})

\* A panic or watchdog reset keeps the mode, a power-on reset selects Local.
Reset ==
  /\ Fails
  /\ \E stored \in Interrupted :
       \E mode \in {nvs.mode, "Local"} :
         \/ Boot([stored EXCEPT !.mode = mode])
         \/ Misboot([stored EXCEPT !.mode = mode])

Worker ==
  \/ Begin \/ DrainDone \/ DrainTimeout
  \/ Pull \/ Verify \/ Commit
  \/ Load \/ LoadError \/ Reload \/ Backup \/ Promote \/ Adopt \/ Swap
  \/ SetMode \/ Record \/ Unpause \/ Restart
  \/ Finish \/ Restore \/ RestoreError \/ Reopen

-----------------------------------------------------------------------------
(* SIF's scheduler: FunctionAdmissionGate counts what it admits.            *)

Admit ==
  /\ gate
  /\ admitted < MaxInvocations
  /\ admitted' = admitted + 1
  /\ UNCHANGED <<nvs, fs, run, gate, job, wk, snap, ctl, asked, damage, troubles>>

Complete ==
  /\ admitted > 0
  /\ admitted' = admitted - 1
  /\ UNCHANGED <<nvs, fs, run, gate, job, wk, snap, ctl, asked, damage, troubles>>

Next == Control \/ Worker \/ Reset \/ Admit \/ Complete

Spec == Init /\ [][Next]_vars

\* A handler that has started runs to its return.
Handler == Lock \/ PauseGate \/ PauseStore \/ ResumeStore \/ ResumeGate

\* FreeRTOS keeps running the worker and the MQTT task; nothing obliges the
\* operator to send a command or a guest to return.
FairSpec == Spec /\ WF_vars(Worker) /\ WF_vars(Handler)

-----------------------------------------------------------------------------
StageSteps == {"pull", "verify", "commit"}
ActivateSteps == {"load", "reload", "backup", "promote", "adopt", "swap",
                  "setMode", "record", "unpause", "restart"}
WorkerSteps == {"idle", "drain", "finish", "restore", "reopen"}
                  \cup StageSteps \cup ActivateSteps
ControlSteps == {"idle", "lock", "pauseGate", "pauseStore",
                 "resumeStore", "resumeGate"}
Nvs == [active : Slots, staged : Slots, paused : BOOLEAN, mode : Modes]
Jobs == [action : {"None", "Stage", "Activate"}, rel : Slots,
         gen : Generations \cup {0}, mode : Modes]

\* Types.  In particular the enforced contract is always a compiled one, unless
\* app_main went on without having read it: a release whose contract
\* compile_contract_policy rejects is never activated.
TypeOK ==
  /\ nvs \in Nvs
  /\ fs \in [active : Contents, staged : Contents, backup : Contents]
  /\ run \in [mode : Modes, code : Contents, policy : Contents]
  /\ run.policy = None => "boot" \in damage
  /\ gate \in BOOLEAN
  /\ admitted \in 0..MaxInvocations
  /\ job \in Jobs
  /\ wk \in WorkerSteps
  /\ snap \in Nvs
  /\ ctl \in [pc : ControlSteps, job : Jobs]
  /\ asked \in {"pause", "resume"}
  /\ damage \subseteq {"torn", "boot"}
  /\ troubles \in 0..MaxTroubles

\* The worker is in the steps of the transition in the job slot, and in none
\* when the slot is empty: s_transition_in_progress keeps a second stage or
\* activation from overlapping the running one.
OneTransition ==
  /\ wk \in StageSteps => job.action = "Stage"
  /\ wk \in ActivateSteps => job.action = "Activate"
  /\ wk \in {"drain", "finish"} => job.action # "None"

\* sif_release.cpp implements the release slots: only a newer tuple is staged
\* and only the staged tuple becomes active, whatever commands, resets and
\* failed steps come between a check and the step it guards, up to the first
\* setter that stopped halfway or the first boot without its load.
Slot == INSTANCE ReleaseSlot
          WITH active <- nvs.active, staged <- nvs.staged, Durable <- TRUE,
               intact <- damage = {}
SlotRefinement == Slot!Spec

\* The active generation goes back only when a boot whose load failed writes
\* the bootstrap tuple: no reset or error in the middle of the two writes of
\* activate_staged_release makes an older release active, or leaves something
\* staged that later would.
GenerationNeverRegresses ==
  [][ nvs'.active.gen < nvs.active.gen => "boot" \in damage' ]_vars

\* The contract that host imports enforce is the active release's, outside the
\* two adjacent statements that commit the tuple and swap the cached policy,
\* up to the first tuple written in part or the first boot without its load.
EnforcedContract ==
  damage = {} /\ wk # "swap" => run.policy = nvs.active.ctr

\* Every queued transition ends: the bounded drain gives up on a guest that
\* never returns, and no failed step leaves the worker waiting.
TransitionEnds == Busy ~> ~Busy

\* Activation happens at an invocation boundary: no admitted invocation lives
\* through a step that replaces the WAMR bytes, contract, mode or active tuple.
InvocationBoundary ==
  [][ run' # run \/ nvs'.active # nvs.active => admitted' = 0 ]_vars

\* Outside the two renames and the commit, the active file is what the metadata
\* declares; the staged file is absent or what it declares; and whenever an
\* invocation can run in local mode, the bytes WAMR runs are the active ones.
BytesMatchMetadata ==
  /\ wk \notin {"promote", "adopt"} => ActiveBytes = nvs.active.art
  /\ wk \notin StageSteps => fs.staged \in {None, nvs.staged.art}
  /\ (gate \/ admitted > 0) /\ run.mode = "Local" => run.code = nvs.active.art

Quiet == job = NoJob /\ wk = "idle" /\ ctl.pc = "idle"

\* An accepted pause_function holds until a resume_function is accepted: it
\* stays persisted and the gate stays closed after every transition; a boot
\* that could not read it opens the gate, and never erases it.
PauseHonoured ==
  Quiet /\ asked = "pause" => nvs.paused /\ (gate => "boot" \in damage)

\* The same promise for the persisted flag alone.
PausePersists == Quiet /\ asked = "pause" => nvs.paused

\* The runtime that booted is the one NVS selects and telemetry reports.
ModeAgreement == Quiet => run.mode = nvs.mode

\* Staging and activation close admission only for a while: unless a pause is
\* persisted, the gate opens again.
AdmissionRestored == (~gate /\ ~nvs.paused) ~> (gate \/ nvs.paused)

\* A staged generation is replaced by newer ones only.
StagedNeverRegresses ==
  [][ valid(nvs'.staged) => nvs'.staged.gen >= nvs.staged.gen ]_vars

\* A device that reports a staged release can activate it: its bytes are there.
StagedIsActivatable ==
  Quiet /\ valid(nvs.staged) => fs.staged = nvs.staged.art

-----------------------------------------------------------------------------
(* The inductive invariant behind the theorems of DeviceReleaseProofs.      *)

\* From the load to the commit the worker's copy of the staged tuple is the
\* persisted one, because only the worker writes that slot.
SnapshotCurrent ==
  /\ wk \in {"reload", "backup", "promote", "adopt"} =>
       /\ snap.staged = nvs.staged
       /\ valid(nvs.staged)
       /\ nvs.staged.ctr \notin BadContracts
       /\ nvs.staged.gen > nvs.active.gen
  /\ wk = "swap" => snap.staged = nvs.active

\* Whatever can still become staged or active is newer than what is active,
\* torn tuples included.  A handler between its check and the lock has seen
\* the staged generation that a running activation may promote meanwhile.
OnlyNewer ==
  /\ nvs.active.art # None
  /\ nvs.active.ctr \in Artifacts \ BadContracts
  /\ nvs.staged.gen > 0 => nvs.staged.gen >= nvs.active.gen
  /\ job.action = "Stage" =>
       job.rel \in Releases /\ job.rel.gen > nvs.active.gen
  /\ ctl.pc = "lock" => ctl.job.action # "None"
  /\ ctl.pc = "lock" /\ ctl.job.action = "Stage" =>
       /\ ctl.job.rel \in Releases
       /\ ctl.job.rel.gen > nvs.active.gen
       /\ job.action = "Activate" => ctl.job.rel.gen > nvs.staged.gen

\* Without a torn tuple or an unread boot the slots hold published releases.
Whole ==
  damage = {} =>
    /\ nvs.active \in Releases \cup {Bootstrap}
    /\ nvs.staged # NoRelease =>
         nvs.staged \in Releases /\ nvs.staged.gen > nvs.active.gen

Inv == TypeOK /\ OneTransition /\ SnapshotCurrent /\ OnlyNewer /\ Whole

\* Why no invocation is admitted between the drain and the end of a transition
\* when resume_function waits for the worker.
ClosedWhileWorking ==
  /\ wk # "idle" => ~gate
  /\ wk \in StageSteps \cup ActivateSteps => admitted = 0
  /\ ctl.pc \in {"resumeStore", "resumeGate"} => wk = "idle" /\ ~Busy
=============================================================================
