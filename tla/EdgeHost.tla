------------------------------ MODULE EdgeHost ------------------------------
(***************************************************************************)
(* The edge host: edge/host/main.go.  One process-wide mutex mu covers     *)
(* invocation, activation and the two short sections of an upload; the     *)
(* upload's own file operations run outside it, in one goroutine per       *)
(* request, over the one temporary name that all uploads share.            *)
(*                                                                         *)
(* Files are inodes, so that an upload that still has its file open keeps  *)
(* writing to it after somebody renamed it.  A release is a generation     *)
(* with an artifact, which stands for digest and function identity; the    *)
(* engine/module/linker triple is the artifact it was compiled from.       *)
(* GET and HEAD read state and change none.                                *)
(***************************************************************************)
EXTENDS Naturals, FiniteSets

CONSTANTS
  Artifacts,    \* modules that can be uploaded
  Releases,     \* the tuples PUT /wasm may declare
  Base,         \* the module in the container image
  None,         \* no module
  Uncompilable, \* artifacts that compileWasmModule rejects
  Uploads,      \* goroutines that can serve PUT /wasm at the same time
  Overlapping,  \* FALSE: a PUT or POST is sent after the last PUT returned
  Inodes,       \* the file system's inodes
  Empty, Torn,  \* a truncated file; a file two uploads wrote into
  NoInode,      \* a name that does not exist
  MaxTroubles   \* bound on failed renames, cut-off bodies and restarts

ASSUME HostAssumption ==
  /\ Base \in Artifacts \ Uncompilable
  /\ {None, Empty, Torn} \cap Artifacts = {} /\ None \notin {Empty, Torn}
  /\ Inodes # {} /\ NoInode \notin Inodes
  /\ Releases \subseteq [gen : Nat \ {0}, art : Artifacts]
  /\ Overlapping \in BOOLEAN
  /\ MaxTroubles \in Nat

VARIABLES
  active,    \* activeGeneration with wasmDigest and activeFunction
  module,    \* the compiled engine, module and linker in use
  staged,    \* stagedRelease's metadata
  stagedMod, \* stagedRelease's compiled objects
  executing, \* executedRelease of the guest that runs and holds mu
  activating,\* activateStagedRelease holds mu
  up,        \* each upload: where it is, its release, its file, its module
  name,      \* directory: file name to inode
  disk,      \* file contents
  troubles

vars == <<active, module, staged, stagedMod, executing, activating, up, name,
          disk, troubles>>

NoRelease == [gen |-> 0, art |-> None]
Bootstrap == [gen |-> 0, art |-> Base]
Names == {"active", "staged", "tmp", "previous"}
Idle == [pc |-> "idle", rel |-> NoRelease, file |-> NoInode, mod |-> None]

ImageFile == CHOOSE i \in Inodes : TRUE

Init ==
  /\ active = Bootstrap
  /\ module = Base
  /\ staged = NoRelease
  /\ stagedMod = None
  /\ executing = NoRelease
  /\ activating = FALSE
  /\ up = [u \in Uploads |-> Idle]
  /\ name = [n \in Names |-> IF n = "active" THEN ImageFile ELSE NoInode]
  /\ disk = [i \in Inodes |-> IF i = ImageFile THEN Base ELSE Empty]
  /\ troubles = 0

Troubled(n) == troubles + n <= MaxTroubles /\ troubles' = troubles + n
Works == UNCHANGED troubles
Fails == Troubled(1)

Content(n) == IF name[n] = NoInode THEN None ELSE disk[name[n]]
Removed(n) == [name EXCEPT ![n] = NoInode]
Moved(from, to) == [name EXCEPT ![to] = name[from], ![from] = NoInode]

Open(i) == {u \in Uploads : up[u].file = i}
Free == {i \in Inodes : (\A n \in Names : name[n] # i) /\ Open(i) = {}}

Return(u) == up' = [up EXCEPT ![u] = Idle]

\* What the operator's sequential reconciler does until a request times out.
MaySend == Overlapping \/ \A u \in Uploads : up[u] = Idle

MutexIgnored == TRUE

\* Every other section under mu is one step here.
MutexFree == executing = NoRelease /\ ~activating

mutex == <<executing, activating>>

-----------------------------------------------------------------------------
(* PUT /wasm: handleWasmUpload.                                             *)

\* os.Create truncates the file that is there or makes a new one; without room for
\* one the request fails and leaves nothing behind.
Create(u, r) ==
  /\ up[u] = Idle
  /\ MaySend
  /\ name["tmp"] # NoInode \/ Free # {}
  /\ LET i == IF name["tmp"] # NoInode THEN name["tmp"]
              ELSE CHOOSE f \in Free : TRUE
     IN  /\ name' = [name EXCEPT !["tmp"] = i]
         /\ disk' = [disk EXCEPT ![i] = Empty]
         /\ up' = [up EXCEPT ![u] = [Idle EXCEPT !.pc = "copy", !.rel = r,
                                                 !.file = i]]
  /\ UNCHANGED <<active, module, staged, stagedMod, mutex, troubles>>

\* What io.Copy leaves in the file: two writers may leave a mixture.
Written(u, body) ==
  IF disk[up[u].file] = Empty /\ Open(up[u].file) = {u} THEN {body}
  ELSE {body, Torn}

AnyBody(u, body) == TRUE

\* The hash is of the bytes received, not of the file.
DigestDeclared(u, body) == body = up[u].rel.art

\* io.Copy, Close and the digest check; every failure removes the temporary
\* name and returns.
Copy(u) ==
  /\ up[u].pc = "copy"
  /\ \/ /\ Works
        /\ \E body \in Artifacts, bytes \in Artifacts \cup {Torn} :
             /\ bytes \in Written(u, body)
             /\ disk' = [disk EXCEPT ![up[u].file] = bytes]
             /\ \/ /\ DigestDeclared(u, body)
                   /\ up' = [up EXCEPT ![u].pc = "compile",
                                       ![u].file = NoInode]
                   /\ UNCHANGED name
                \/ /\ ~DigestDeclared(u, body)
                   /\ Return(u)
                   /\ name' = Removed("tmp")
     \/ /\ Fails
        /\ Return(u)
        /\ name' = Removed("tmp")
        /\ disk' = [disk EXCEPT ![up[u].file] = Torn]
  /\ UNCHANGED <<active, module, staged, stagedMod, mutex>>

CompilesAnything(bytes) == bytes # None

Compiles(bytes) == bytes \in Artifacts \ Uncompilable

\* compileWasmModule opens the temporary name again.
Compile(u) ==
  /\ up[u].pc = "compile"
  /\ LET bytes == Content("tmp")
     IN  \/ /\ Compiles(bytes)
            /\ up' = [up EXCEPT ![u].pc = "check", ![u].mod = bytes]
            /\ UNCHANGED name
         \/ /\ ~Compiles(bytes)
            /\ Return(u)
            /\ name' = Removed("tmp")
  /\ UNCHANGED <<active, module, staged, stagedMod, mutex, disk, troubles>>

StaleIgnoringActive(r) == r.gen < staged.gen

\* The generations that the first critical section turns down.
Stale(r) == r.gen < active.gen \/ r.gen < staged.gen

\* Stale, a conflict, an exact duplicate, or a release worth installing.
Check(u) ==
  /\ up[u].pc = "check"
  /\ MutexFree
  /\ LET r == up[u].rel
     IN  IF Stale(r) \/ r.gen \in {active.gen, staged.gen}
         THEN Return(u) /\ name' = Removed("tmp")
         ELSE up' = [up EXCEPT ![u].pc = "rename"] /\ UNCHANGED name
  /\ UNCHANGED <<active, module, staged, stagedMod, mutex, disk, troubles>>

\* Remove the staged file, then rename, after the mutex was given up.
Rename(u) ==
  /\ up[u].pc = "rename"
  /\ \/ /\ Works
        /\ name["tmp"] # NoInode
        /\ name' = Moved("tmp", "staged")
        /\ up' = [up EXCEPT ![u].pc = "install"]
     \/ /\ IF name["tmp"] # NoInode THEN Fails ELSE Works
        /\ name' = [name EXCEPT !["staged"] = NoInode, !["tmp"] = NoInode]
        /\ Return(u)
  /\ UNCHANGED <<active, module, staged, stagedMod, mutex, disk>>

\* The second critical section.
Install(u) ==
  /\ up[u].pc = "install"
  /\ MutexFree
  /\ staged' = up[u].rel
  /\ stagedMod' = up[u].mod
  /\ Return(u)
  /\ UNCHANGED <<active, module, mutex, name, disk, troubles>>

Upload(u) == Copy(u) \/ Compile(u) \/ Check(u) \/ Rename(u) \/ Install(u)

-----------------------------------------------------------------------------
(* POST /release and POST /process.                                         *)

\* activateStagedRelease up to the backup; uploads rename files meanwhile.
ActivateBackup(g) ==
  /\ MaySend
  /\ MutexFree
  /\ g # active.gen
  /\ g = staged.gen
  /\ \/ Works /\ name' = Moved("active", "previous") /\ activating' = TRUE
     \/ Fails /\ name' = Removed("previous") /\ UNCHANGED activating
  /\ UNCHANGED <<active, module, staged, stagedMod, executing, up, disk>>

NotRolledBack == name

RolledBack ==
  IF name["previous"] = NoInode THEN name ELSE Moved("previous", "active")

\* The second rename, the swap of objects and metadata, the unlock.  A rename that
\* fails is followed by a rename back, whose error nobody reads.
ActivatePromote ==
  /\ activating
  /\ activating' = FALSE
  /\ \/ /\ Works
        /\ name["staged"] # NoInode
        /\ name' = [Moved("staged", "active") EXCEPT !["previous"] = NoInode]
        /\ active' = staged
        /\ module' = stagedMod
        /\ staged' = NoRelease
        /\ stagedMod' = None
     \/ /\ LET failed == IF name["staged"] # NoInode THEN 1 ELSE 0
           IN  \/ Troubled(failed) /\ name' = RolledBack
               \/ Troubled(failed + 1) /\ UNCHANGED name
        /\ UNCHANGED <<active, module, staged, stagedMod>>
  /\ UNCHANGED <<executing, up, disk>>

\* runWasm: the request names the active release, or nothing happens.
ProcessBegin(g) ==
  /\ MutexFree
  /\ g = active.gen
  /\ executing' = active
  /\ UNCHANGED <<active, module, staged, stagedMod, activating, up, name, disk,
                 troubles>>

\* process_event returned or trapped.
ProcessEnd ==
  /\ executing # NoRelease
  /\ executing' = NoRelease
  /\ UNCHANGED <<active, module, staged, stagedMod, activating, up, name, disk,
                 troubles>>

\* The pod restarts: memory and the container's files are the image's again.
Restart ==
  /\ Fails
  /\ active' = Bootstrap
  /\ module' = Base
  /\ staged' = NoRelease
  /\ stagedMod' = None
  /\ executing' = NoRelease
  /\ activating' = FALSE
  /\ up' = [u \in Uploads |-> Idle]
  /\ name' = [n \in Names |-> IF n = "active" THEN ImageFile ELSE NoInode]
  /\ disk' = [i \in Inodes |-> IF i = ImageFile THEN Base ELSE Empty]

Generations == {r.gen : r \in Releases}

Next ==
  \/ \E u \in Uploads, r \in Releases : Create(u, r)
  \/ \E u \in Uploads : Upload(u)
  \/ \E g \in Generations : ActivateBackup(g)
  \/ ActivatePromote
  \/ \E g \in Generations \cup {0} : ProcessBegin(g)
  \/ ProcessEnd
  \/ Restart

Spec == Init /\ [][Next]_vars

-----------------------------------------------------------------------------
Contents == Artifacts \cup {Empty, Torn}

\* Types.  A module in use is always one that compileWasmModule accepted.
TypeOK ==
  /\ active \in Releases \cup {Bootstrap}
  /\ module \in Artifacts \ Uncompilable
  /\ staged \in Releases \cup {NoRelease}
  /\ stagedMod \in (Artifacts \ Uncompilable) \cup {None}
  /\ executing \in Releases \cup {Bootstrap, NoRelease}
  /\ activating \in BOOLEAN
  /\ up \in [Uploads ->
               [pc : {"idle", "copy", "compile", "check", "rename", "install"},
                rel : Releases \cup {NoRelease},
                file : Inodes \cup {NoInode},
                mod : (Artifacts \ Uncompilable) \cup {None}]]
  /\ name \in [Names -> Inodes \cup {NoInode}]
  /\ disk \in [Inodes -> Contents]
  /\ troubles \in 0..MaxTroubles

-----------------------------------------------------------------------------
(* The inductive invariants behind the properties below.                   *)

\* What an upload has got hold of by the time it is at a step, and that a staged
\* release always comes with its compiled objects.  It needs no assumption on
\* who sends what when.
Prepared ==
  /\ \A u \in Uploads :
       /\ up[u].pc = "idle" <=> up[u] = Idle
       /\ up[u].pc # "idle" => up[u].rel \in Releases
       /\ up[u].pc \in {"check", "rename", "install"} => up[u].mod # None
  /\ staged # NoRelease => stagedMod # None
  /\ activating => staged # NoRelease

\* At most one upload is on its way, and none is past its check while an
\* activation holds the mutex.
OneUpload ==
  /\ \A u, v \in Uploads : up[u] # Idle /\ up[v] # Idle => u = v
  /\ activating =>
       \A u \in Uploads : up[u].pc \in {"idle", "copy", "compile", "check"}

\* No inode has two names.
OneName ==
  \A m, n \in Names : name[m] = name[n] /\ name[m] # NoInode => m = n

\* The file an upload works on is its own and holds what it declared, and past
\* the check its generation is newer than both slots.
UploadConsistent ==
  \A u \in Uploads :
    /\ up[u].pc # "copy" => up[u].file = NoInode
    /\ up[u].pc = "copy" => /\ up[u].file = name["tmp"] /\ name["tmp"] # NoInode
                            /\ Content("tmp") = Empty
    /\ up[u].pc \in {"compile", "check", "rename"} => Content("tmp") = up[u].rel.art
    /\ up[u].pc \in {"check", "rename", "install"} => up[u].mod = up[u].rel.art
    /\ up[u].pc = "install" => Content("staged") = up[u].rel.art
    /\ up[u].pc \in {"rename", "install"} =>
         up[u].rel.gen > active.gen /\ up[u].rel.gen > staged.gen

\* The two slots; during an activation the active file is the backup.  A staged
\* file goes missing by one failed rename, an active one by two.
SlotsConsistent ==
  /\ module = active.art
  /\ LET content == Content(IF activating THEN "previous" ELSE "active")
     IN  content = active.art \/ (content = None /\ troubles >= 2)
  /\ activating => name["active"] = NoInode
  /\ stagedMod = staged.art
  /\ (\A u \in Uploads : up[u].pc # "install") =>
       \/ Content("staged") = staged.art
       \/ Content("staged") = None /\ troubles >= 1

\* A guest runs the active release and keeps activations out.
GuestExcludes == executing # NoRelease => executing = active /\ ~activating

Inv ==
  /\ TypeOK /\ Prepared /\ OneUpload /\ OneName /\ UploadConsistent
  /\ SlotsConsistent /\ GuestExcludes

-----------------------------------------------------------------------------
(* Properties.                                                              *)

\* The host implements the release slots, which a restart empties: a stale
\* generation is never staged and only the staged release is activated.
Slot == INSTANCE ReleaseSlot WITH Durable <- FALSE, intact <- TRUE
SlotRefinement == Slot!Spec

\* The compiled module, the file and the release metadata are of one release
\* whenever a request can observe them.  The file is never another release's, and
\* it takes two failures to be without one: a staged file that an upload's rename
\* lost or that cannot be promoted, and then a backup that cannot be put back.
ActiveConsistent ==
  ~activating =>
    /\ module = active.art
    /\ Content("active") \in {active.art, None}
    /\ troubles < 2 => Content("active") = active.art

\* What the next activation would promote is what the metadata declares,
\* unless a failed rename took the file away.
StagedConsistent ==
  (\A u \in Uploads : up[u].pc # "install") =>
    /\ stagedMod = staged.art
    /\ Content("staged") \in {staged.art, None}

\* A response is honest: for as long as a guest runs, the module in use and the
\* active release are those of the executedRelease that runWasm captured, so the
\* digest it reports is of the module that ran, and the file in its place is not
\* another release's.
ResponseHonest ==
  executing # NoRelease =>
    /\ active = executing
    /\ module = executing.art
    /\ Content("active") \in {executing.art, None}

\* PUT /wasm rejects stale generations: nothing older than the active release
\* is ever staged.
StaleRejected ==
  [][ staged' \notin {staged, NoRelease} => staged'.gen >= active.gen ]_vars
=============================================================================
