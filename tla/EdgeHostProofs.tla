--------------------------- MODULE EdgeHostProofs ---------------------------
(***************************************************************************)
(* Proofs about EdgeHost, for every set of releases, uploads and inodes    *)
(* and any number of restarts and failed renames.  Types need no           *)
(* assumption on the clients; everything else needs that a PUT or a POST   *)
(* /release is sent only after the last PUT returned.                      *)
(***************************************************************************)
EXTENDS EdgeHost, TLAPS

\* What the assumptions on the constants say about one tuple of a slot.
LEMMA ReleaseFacts ==
  /\ \A r \in Releases : /\ r.gen \in Nat
                         /\ r.gen > 0
                         /\ r.art \in Artifacts
                         /\ r # NoRelease
                         /\ r # Bootstrap
  /\ NoRelease.gen = 0 /\ NoRelease.art = None
  /\ Bootstrap.gen = 0 /\ Bootstrap.art = Base
  /\ Bootstrap # NoRelease
  /\ None \notin Artifacts /\ Empty \notin Artifacts /\ Torn \notin Artifacts
  /\ Base \in Artifacts \ Uncompilable
  /\ ImageFile \in Inodes
<1>1. \A r \in Releases : r.gen \in Nat /\ r.gen > 0 /\ r.art \in Artifacts
  BY HostAssumption
<1>2. /\ NoRelease.gen = 0 /\ NoRelease.art = None
      /\ Bootstrap.gen = 0 /\ Bootstrap.art = Base
  BY DEF NoRelease, Bootstrap
<1>3. /\ None \notin Artifacts /\ Empty \notin Artifacts /\ Torn \notin Artifacts
      /\ Base \in Artifacts \ Uncompilable
  BY HostAssumption
<1>4. ImageFile \in Inodes
  BY HostAssumption DEF ImageFile
<1>5. \A r \in Releases : r # NoRelease /\ r # Bootstrap
  BY <1>1, <1>2
<1>6. Bootstrap # NoRelease
  BY <1>2, <1>3
<1> QED
  BY <1>1, <1>2, <1>3, <1>4, <1>5, <1>6

\* An upload's record, as TypeOK has it.
UploadStates ==
  [pc : {"idle", "copy", "compile", "check", "rename", "install"},
   rel : Releases \cup {NoRelease},
   file : Inodes \cup {NoInode},
   mod : (Artifacts \ Uncompilable) \cup {None}]

\* The counter of troubles stays within its bound and never goes back.
LEMMA TroublesType ==
  ASSUME TypeOK, Works \/ Troubled(0) \/ Troubled(1) \/ Troubled(2)
  PROVE  troubles' \in 0..MaxTroubles /\ troubles' >= troubles
BY HostAssumption DEF TypeOK, Works, Troubled

\* A failure that was counted stays counted.
Counted ==
  /\ troubles >= 1 => troubles' >= 1
  /\ troubles >= 2 => troubles' >= 2

LEMMA TroublesCounted ==
  ASSUME TypeOK, Works \/ Troubled(0) \/ Troubled(1) \/ Troubled(2)
  PROVE  Counted
<1>1. troubles \in Nat /\ troubles' \in Nat /\ troubles' >= troubles
  BY TroublesType, HostAssumption DEF TypeOK
<1> QED
  BY <1>1 DEF Counted

-----------------------------------------------------------------------------
(* Types.                                                                  *)

LEMMA InitTypes == Init => TypeOK /\ Prepared
<1> SUFFICES ASSUME Init PROVE TypeOK /\ Prepared
  OBVIOUS
<1>1. Idle \in UploadStates /\ Idle.pc = "idle"
  BY DEF Idle, UploadStates
<1>2. TypeOK
  <2>1. /\ active \in Releases \cup {Bootstrap}
        /\ module \in Artifacts \ Uncompilable
        /\ staged \in Releases \cup {NoRelease}
        /\ stagedMod \in (Artifacts \ Uncompilable) \cup {None}
        /\ executing \in Releases \cup {Bootstrap, NoRelease}
        /\ activating \in BOOLEAN
    BY ReleaseFacts DEF Init
  <2>2. up \in [Uploads -> UploadStates]
    BY <1>1 DEF Init
  <2>3. /\ name \in [Names -> Inodes \cup {NoInode}]
        /\ disk \in [Inodes -> Contents]
    BY ReleaseFacts DEF Init, Contents
  <2>4. troubles \in 0..MaxTroubles
    BY HostAssumption DEF Init
  <2> QED
    BY <2>1, <2>2, <2>3, <2>4 DEF TypeOK, UploadStates
<1>3. Prepared
  BY <1>1 DEF Init, Prepared
<1> QED
  BY <1>2, <1>3

\* Create: os.Create makes the temporary name refer to an inode.
LEMMA CreateTypes ==
  ASSUME TypeOK, Prepared, NEW u \in Uploads, NEW r \in Releases, Create(u, r)
  PROVE  TypeOK' /\ Prepared'
<1> DEFINE i == IF name["tmp"] # NoInode THEN name["tmp"] ELSE CHOOSE f \in Free : TRUE
           new == [Idle EXCEPT !.pc = "copy", !.rel = r, !.file = i]
<1>1. i \in Inodes
  BY DEF Create, TypeOK, Names, Free
<1>2. new \in UploadStates /\ new.pc = "copy" /\ new.rel = r
  BY <1>1 DEF Idle, UploadStates
<1>3. /\ up' = [up EXCEPT ![u] = new]
      /\ name' = [name EXCEPT !["tmp"] = i]
      /\ disk' = [disk EXCEPT ![i] = Empty]
      /\ UNCHANGED <<active, module, staged, stagedMod, executing, activating, troubles>>
  BY DEF Create, mutex
<1> HIDE DEF i, new
<1>4. TypeOK'
  BY <1>1, <1>2, <1>3 DEF TypeOK, Contents, UploadStates
<1>5. Prepared'
  <2>1. new # Idle
    BY <1>2 DEF Idle
  <2> QED
    BY <1>2, <1>3, <2>1 DEF TypeOK, Prepared
<1> QED
  BY <1>4, <1>5

\* The steps of an upload; one that returns is idle again.
LEMMA UploadTypes ==
  ASSUME TypeOK, Prepared, NEW u \in Uploads, Upload(u)
  PROVE  TypeOK' /\ Prepared'
<1>1. Idle \in UploadStates /\ Idle.pc = "idle"
  BY DEF Idle, UploadStates
<1>2. up[u] \in UploadStates /\ up \in [Uploads -> UploadStates]
  BY DEF TypeOK, UploadStates
<1>3. CASE Copy(u)
  <2>1. troubles' \in 0..MaxTroubles
    BY <1>3, TroublesType DEF Copy, Fails
  <2>2. name' \in [Names -> Inodes \cup {NoInode}]
    BY <1>3 DEF Copy, Removed, TypeOK
  <2>3. disk' \in [Inodes -> Contents]
    BY <1>3 DEF Copy, TypeOK, Contents
  <2>4. \/ up' = [up EXCEPT ![u] = Idle]
        \/ up[u].pc = "copy" /\ up' = [up EXCEPT ![u].pc = "compile", ![u].file = NoInode]
    BY <1>3 DEF Copy, Return
  <2>5. up' \in [Uploads -> UploadStates]
    BY <1>1, <1>2, <2>4 DEF UploadStates
  <2>6. UNCHANGED <<active, module, staged, stagedMod, executing, activating>>
    BY <1>3 DEF Copy, mutex
  <2>7. TypeOK'
    BY <2>1, <2>2, <2>3, <2>5, <2>6 DEF TypeOK, UploadStates
  <2>8. Prepared'
    BY <1>1, <1>2, <2>4, <2>6 DEF Prepared, UploadStates, Idle
  <2> QED
    BY <2>7, <2>8
<1>4. CASE Compile(u)
  <2>1. name' \in [Names -> Inodes \cup {NoInode}]
    BY <1>4 DEF Compile, Removed, TypeOK
  <2>2. \/ up' = [up EXCEPT ![u] = Idle]
        \/ \E bytes \in Artifacts \ Uncompilable :
             up' = [up EXCEPT ![u].pc = "check", ![u].mod = bytes]
    BY <1>4 DEF Compile, Return, Compiles
  <2>3. up[u].pc = "compile"
    BY <1>4 DEF Compile
  <2>4. up' \in [Uploads -> UploadStates]
    BY <1>1, <1>2, <2>2 DEF UploadStates
  <2>5. UNCHANGED <<active, module, staged, stagedMod, executing, activating, disk, troubles>>
    BY <1>4 DEF Compile, mutex
  <2>6. TypeOK'
    BY <2>1, <2>4, <2>5 DEF TypeOK, UploadStates
  <2>7. Prepared'
    BY <1>1, <1>2, <2>2, <2>3, <2>5, ReleaseFacts DEF Prepared, UploadStates, Idle
  <2> QED
    BY <2>6, <2>7
<1>5. CASE Check(u)
  <2>1. name' \in [Names -> Inodes \cup {NoInode}]
    BY <1>5 DEF Check, Removed, TypeOK
  <2>2. \/ up' = [up EXCEPT ![u] = Idle]
        \/ up' = [up EXCEPT ![u].pc = "rename"]
    BY <1>5 DEF Check, Return
  <2>3. up[u].pc = "check"
    BY <1>5 DEF Check
  <2>4. up' \in [Uploads -> UploadStates]
    BY <1>1, <1>2, <2>2 DEF UploadStates
  <2>5. UNCHANGED <<active, module, staged, stagedMod, executing, activating, disk, troubles>>
    BY <1>5 DEF Check, mutex
  <2>6. TypeOK'
    BY <2>1, <2>4, <2>5 DEF TypeOK, UploadStates
  <2>7. Prepared'
    BY <1>1, <1>2, <2>2, <2>3, <2>5 DEF Prepared, UploadStates, Idle
  <2> QED
    BY <2>6, <2>7
<1>6. CASE Rename(u)
  <2>1. name' \in [Names -> Inodes \cup {NoInode}]
    BY <1>6 DEF Rename, Moved, TypeOK, Names
  <2>2. \/ up' = [up EXCEPT ![u] = Idle]
        \/ up' = [up EXCEPT ![u].pc = "install"]
    BY <1>6 DEF Rename, Return
  <2>3. up[u].pc = "rename"
    BY <1>6 DEF Rename
  <2>4. up' \in [Uploads -> UploadStates]
    BY <1>1, <1>2, <2>2 DEF UploadStates
  <2>5. UNCHANGED <<active, module, staged, stagedMod, executing, activating, disk>>
    BY <1>6 DEF Rename, mutex
  <2>6. troubles' \in 0..MaxTroubles
    BY <1>6, TroublesType DEF Rename, Fails
  <2>7. TypeOK'
    BY <2>1, <2>4, <2>5, <2>6 DEF TypeOK, UploadStates
  <2>8. Prepared'
    BY <1>1, <1>2, <2>2, <2>3, <2>5 DEF Prepared, UploadStates, Idle
  <2> QED
    BY <2>7, <2>8
<1>7. CASE Install(u)
  <2>1. up[u].pc = "install" /\ up' = [up EXCEPT ![u] = Idle]
    BY <1>7 DEF Install, Return
  <2>2. /\ staged' = up[u].rel /\ stagedMod' = up[u].mod
        /\ UNCHANGED <<active, module, executing, activating, name, disk, troubles>>
    BY <1>7 DEF Install, mutex
  <2>3. ~activating
    BY <1>7 DEF Install, MutexFree
  <2>4. TypeOK'
    BY <1>1, <1>2, <2>1, <2>2 DEF TypeOK, UploadStates
  <2>5. Prepared'
    BY <1>1, <1>2, <2>1, <2>2, <2>3 DEF Prepared
  <2> QED
    BY <2>4, <2>5
<1> QED
  BY <1>3, <1>4, <1>5, <1>6, <1>7 DEF Upload

LEMMA OtherTypes ==
  ASSUME TypeOK, Prepared,
         \/ \E g \in Generations : ActivateBackup(g)
         \/ ActivatePromote
         \/ \E g \in Generations \cup {0} : ProcessBegin(g)
         \/ ProcessEnd \/ Restart \/ UNCHANGED vars
  PROVE  TypeOK' /\ Prepared'
<1>1. ASSUME NEW g \in Generations, ActivateBackup(g) PROVE TypeOK' /\ Prepared'
  <2>1. troubles' \in 0..MaxTroubles
    BY <1>1, TroublesType DEF ActivateBackup, Fails
  <2>2. name' \in [Names -> Inodes \cup {NoInode}]
    BY <1>1 DEF ActivateBackup, Moved, Removed, TypeOK, Names
  <2>3. g > 0
    BY ReleaseFacts DEF Generations
  <2>4. staged # NoRelease
    BY <1>1, <2>3, ReleaseFacts DEF ActivateBackup
  <2>5. activating' \in BOOLEAN
    BY <1>1 DEF ActivateBackup, TypeOK
  <2>6. UNCHANGED <<active, module, staged, stagedMod, executing, up, disk>>
    BY <1>1 DEF ActivateBackup
  <2>7. TypeOK'
    BY <2>1, <2>2, <2>5, <2>6 DEF TypeOK
  <2>8. Prepared'
    BY <2>4, <2>6 DEF Prepared
  <2> QED
    BY <2>7, <2>8
<1>2. CASE ActivatePromote
  <2>1. troubles' \in 0..MaxTroubles
    BY <1>2, TroublesType DEF ActivatePromote
  <2>2. name' \in [Names -> Inodes \cup {NoInode}]
    BY <1>2 DEF ActivatePromote, RolledBack, Moved, TypeOK, Names
  <2>3. staged # NoRelease /\ stagedMod # None
    BY <1>2 DEF ActivatePromote, Prepared
  <2>4. \/ /\ active' = staged /\ module' = stagedMod
           /\ staged' = NoRelease /\ stagedMod' = None
        \/ UNCHANGED <<active, module, staged, stagedMod>>
    BY <1>2 DEF ActivatePromote
  <2>5. activating' = FALSE /\ UNCHANGED <<executing, up, disk>>
    BY <1>2 DEF ActivatePromote
  <2>6. TypeOK'
    BY <2>1, <2>2, <2>3, <2>4, <2>5 DEF TypeOK
  <2>7. Prepared'
    BY <2>4, <2>5 DEF Prepared
  <2> QED
    BY <2>6, <2>7
<1>3. ASSUME NEW g, ProcessBegin(g) PROVE TypeOK' /\ Prepared'
  BY <1>3 DEF ProcessBegin, TypeOK, Prepared
<1>4. CASE ProcessEnd
  BY <1>4 DEF ProcessEnd, TypeOK, Prepared
<1>5. CASE Restart
  <2>1. Idle \in UploadStates /\ Idle.pc = "idle"
    BY DEF Idle, UploadStates
  <2>2. TypeOK'
    BY <1>5, <2>1, ReleaseFacts, TroublesType
    DEF Restart, Fails, TypeOK, Contents, UploadStates
  <2>3. Prepared'
    BY <1>5, <2>1 DEF Restart, Prepared
  <2> QED
    BY <2>2, <2>3
<1>6. CASE UNCHANGED vars
  BY <1>6 DEF vars, TypeOK, Prepared
<1> QED
  BY <1>1, <1>2, <1>3, <1>4, <1>5, <1>6

LEMMA StepTypes == TypeOK /\ Prepared /\ [Next]_vars => TypeOK' /\ Prepared'
BY CreateTypes, UploadTypes, OtherTypes DEF Next

\* Whatever the clients do, the module in use, the staged one and the one an upload
\* carries were accepted by compileWasmModule, and an activation always finds a
\* staged release to promote.
THEOREM HostTypes == Spec => [](TypeOK /\ Prepared)
BY InitTypes, StepTypes, PTL DEF Spec

-----------------------------------------------------------------------------
(* The invariant, when requests do not overlap an upload.                  *)

\* A name that keeps its inode keeps its content unless that inode is written.
LEMMA ContentKept ==
  ASSUME NEW n \in Names, name'[n] = name[n],
         \/ disk' = disk
         \/ /\ name[n] \in Inodes \cup {NoInode}
            /\ disk \in [Inodes -> Contents]
            /\ \E i, x : disk' = [disk EXCEPT ![i] = x] /\ name[n] # i
  PROVE  Content(n)' = Content(n)
BY DEF Content

LEMMA InitInv == Init => Inv
<1> SUFFICES ASSUME Init PROVE Inv
  OBVIOUS
<1>1. TypeOK /\ Prepared
  BY InitTypes
<1>2. /\ Idle.pc = "idle" /\ Idle.file = NoInode
      /\ \A u \in Uploads : up[u] = Idle
  BY DEF Init, Idle
<1>3. OneUpload
  BY <1>2 DEF Init, OneUpload
<1>4. OneName
  BY DEF Init, OneName
<1>5. UploadConsistent
  BY <1>2 DEF UploadConsistent
<1>6. SlotsConsistent
  BY ReleaseFacts, HostAssumption DEF Init, SlotsConsistent, Content, Names
<1>7. GuestExcludes
  BY DEF Init, GuestExcludes
<1> QED
  BY <1>1, <1>3, <1>4, <1>5, <1>6, <1>7 DEF Inv

LEMMA CreateInv ==
  ASSUME Inv, ~Overlapping, TypeOK', Prepared', Counted,
         NEW u \in Uploads, NEW r \in Releases, Create(u, r)
  PROVE  Inv'
<1> DEFINE i == IF name["tmp"] # NoInode THEN name["tmp"] ELSE CHOOSE f \in Free : TRUE
           new == [Idle EXCEPT !.pc = "copy", !.rel = r, !.file = i]
<1> USE DEF Names
<1>1. \A v \in Uploads : up[v] = Idle
  BY DEF Create, MaySend
<1>2. i \in Inodes /\ \A n \in Names \ {"tmp"} : name[n] # i
  <2>1. CASE name["tmp"] # NoInode
    BY <2>1 DEF Inv, TypeOK, OneName
  <2>2. CASE name["tmp"] = NoInode
    BY <2>2 DEF Create, Free
  <2> QED
    BY <2>1, <2>2
<1>3. new.pc = "copy" /\ new.rel = r /\ new.file = i
  BY DEF Idle
<1>4. /\ up' = [up EXCEPT ![u] = new]
      /\ name' = [name EXCEPT !["tmp"] = i]
      /\ disk' = [disk EXCEPT ![i] = Empty]
      /\ UNCHANGED <<active, module, staged, stagedMod, executing, activating, troubles>>
  BY DEF Create, mutex
<1> HIDE DEF i, new
<1>5. \A n \in Names \ {"tmp"} : name'[n] = name[n] /\ Content(n)' = Content(n)
  BY <1>2, <1>4, ContentKept DEF Inv, TypeOK
<1>6. name'["tmp"] = i /\ Content("tmp")' = Empty
  BY <1>2, <1>4, HostAssumption DEF Inv, TypeOK, Content
<1>7. up'[u] = new /\ \A v \in Uploads \ {u} : up'[v] = Idle
  BY <1>1, <1>4 DEF Inv, TypeOK
<1>8. Idle.pc = "idle" /\ Idle.file = NoInode
  BY DEF Idle
<1>9. OneUpload'
  BY <1>3, <1>7, <1>8 DEF OneUpload
<1>10. OneName'
  BY <1>2, <1>5, <1>6, HostAssumption DEF Inv, OneName
<1>11. UploadConsistent'
  BY <1>2, <1>3, <1>6, <1>7, <1>8, HostAssumption DEF UploadConsistent
<1>12. SlotsConsistent'
  <2>1. \A v \in Uploads : up[v].pc # "install"
    BY <1>1, <1>8
  <2> QED
    BY <1>4, <1>5, <2>1 DEF Inv, SlotsConsistent, Counted
<1>13. GuestExcludes'
  BY <1>4 DEF Inv, GuestExcludes
<1> QED
  BY <1>9, <1>10, <1>11, <1>12, <1>13 DEF Inv

\* The body is the only thing written to the file, so the file is what was hashed.
LEMMA CopyInv ==
  ASSUME Inv, TypeOK', Prepared', Counted, NEW u \in Uploads, Copy(u)
  PROVE  Inv'
<1> USE DEF Names
<1>1. /\ up[u].pc = "copy" /\ up[u] # Idle
      /\ \A v \in Uploads \ {u} : up[v] = Idle
      /\ Idle.pc = "idle" /\ Idle.file = NoInode
  BY DEF Copy, Inv, Prepared, OneUpload, Idle
<1>2. /\ up[u].file = name["tmp"] /\ name["tmp"] \in Inodes
      /\ disk[name["tmp"]] = Empty
      /\ Open(name["tmp"]) = {u}
  BY <1>1 DEF Inv, TypeOK, UploadConsistent, Content, Open
<1>3. \A n \in Names \ {"tmp"} : name[n] # name["tmp"]
  BY <1>2, HostAssumption DEF Inv, OneName
<1>4. /\ \E x : disk' = [disk EXCEPT ![name["tmp"]] = x]
      /\ name' \in {name, Removed("tmp")}
      /\ UNCHANGED <<active, module, staged, stagedMod, executing, activating>>
  BY <1>2 DEF Copy, mutex
<1>5. \A n \in Names \ {"tmp"} : name'[n] = name[n] /\ Content(n)' = Content(n)
  <2>1. \A n \in Names \ {"tmp"} : name'[n] = name[n]
    BY <1>4 DEF Removed, Inv, TypeOK
  <2> QED
    BY <1>3, <1>4, <2>1, ContentKept DEF Inv, TypeOK
<1>6. \/ up' = [up EXCEPT ![u] = Idle]
      \/ /\ up' = [up EXCEPT ![u].pc = "compile", ![u].file = NoInode]
         /\ name' = name
         /\ disk'[name["tmp"]] = up[u].rel.art
  <2>1. ASSUME NEW body \in Artifacts, NEW bytes \in Artifacts \cup {Torn},
               bytes \in Written(u, body),
               disk' = [disk EXCEPT ![up[u].file] = bytes],
               DigestDeclared(u, body)
        PROVE  disk'[name["tmp"]] = up[u].rel.art
    BY <1>2, <2>1 DEF Written, DigestDeclared, Inv, TypeOK
  <2> QED
    BY <2>1 DEF Copy, Return
<1>7. /\ \A v \in Uploads \ {u} : up'[v] = Idle
      /\ \/ up'[u] = Idle
         \/ /\ up'[u].pc = "compile" /\ up'[u].file = NoInode
            /\ up'[u].rel = up[u].rel
            /\ Content("tmp")' = up[u].rel.art
  BY <1>1, <1>2, <1>6, HostAssumption DEF Inv, TypeOK, Content
<1>8. OneUpload'
  BY <1>1, <1>4, <1>7 DEF Inv, OneUpload
<1>9. OneName'
  BY <1>4, <1>5 DEF Inv, OneName, Removed, TypeOK
<1>10. UploadConsistent'
  BY <1>1, <1>7 DEF UploadConsistent
<1>11. SlotsConsistent'
  BY <1>1, <1>4, <1>5 DEF Inv, SlotsConsistent, Counted
<1>12. GuestExcludes'
  BY <1>4 DEF Inv, GuestExcludes
<1> QED
  BY <1>8, <1>9, <1>10, <1>11, <1>12 DEF Inv

LEMMA CompileInv ==
  ASSUME Inv, TypeOK', Prepared', Counted, NEW u \in Uploads, Compile(u)
  PROVE  Inv'
<1> USE DEF Names
<1>1. /\ up[u].pc = "compile" /\ up[u] # Idle
      /\ \A v \in Uploads \ {u} : up[v] = Idle
      /\ Idle.pc = "idle" /\ Idle.file = NoInode
  BY DEF Compile, Inv, Prepared, OneUpload, Idle
<1>2. /\ name' \in {name, Removed("tmp")}
      /\ UNCHANGED <<active, module, staged, stagedMod, executing, activating, disk>>
  BY DEF Compile, mutex
<1>3. \A n \in Names \ {"tmp"} : name'[n] = name[n] /\ Content(n)' = Content(n)
  BY <1>2, ContentKept DEF Removed, Inv, TypeOK
<1>4. Content("tmp") = up[u].rel.art /\ up[u].file = NoInode
  BY <1>1 DEF Inv, UploadConsistent
<1>5. /\ \A v \in Uploads \ {u} : up'[v] = Idle
      /\ \/ up'[u] = Idle
         \/ /\ up'[u].pc = "check" /\ up'[u].file = NoInode
            /\ up'[u].rel = up[u].rel /\ up'[u].mod = up[u].rel.art
            /\ name' = name
  BY <1>1, <1>4 DEF Compile, Return, Inv, TypeOK
<1>6. name' = name => Content("tmp")' = Content("tmp")
  BY <1>2, ContentKept
<1>7. OneUpload'
  BY <1>1, <1>2, <1>5 DEF Inv, OneUpload
<1>8. OneName'
  BY <1>2, <1>3 DEF Inv, OneName, Removed, TypeOK
<1>9. UploadConsistent'
  BY <1>1, <1>4, <1>5, <1>6 DEF UploadConsistent
<1>10. SlotsConsistent'
  BY <1>1, <1>2, <1>3 DEF Inv, SlotsConsistent, Counted
<1>11. GuestExcludes'
  BY <1>2 DEF Inv, GuestExcludes
<1> QED
  BY <1>7, <1>8, <1>9, <1>10, <1>11 DEF Inv

\* Past the check a release is newer than both slots.
LEMMA CheckInv ==
  ASSUME Inv, TypeOK', Prepared', Counted, NEW u \in Uploads, Check(u)
  PROVE  Inv'
<1> USE DEF Names
<1>1. /\ up[u].pc = "check" /\ up[u] # Idle
      /\ \A v \in Uploads \ {u} : up[v] = Idle
      /\ Idle.pc = "idle" /\ Idle.file = NoInode
      /\ ~activating
  BY DEF Check, Inv, Prepared, OneUpload, Idle, MutexFree
<1>2. /\ name' \in {name, Removed("tmp")}
      /\ UNCHANGED <<active, module, staged, stagedMod, executing, activating, disk>>
  BY DEF Check, mutex
<1>3. \A n \in Names \ {"tmp"} : name'[n] = name[n] /\ Content(n)' = Content(n)
  BY <1>2, ContentKept DEF Removed, Inv, TypeOK
<1>4. /\ Content("tmp") = up[u].rel.art /\ up[u].mod = up[u].rel.art
      /\ up[u].file = NoInode
  BY <1>1 DEF Inv, UploadConsistent
<1>5. /\ up[u].rel.gen \in Nat /\ active.gen \in Nat /\ staged.gen \in Nat
  BY <1>1, ReleaseFacts DEF Inv, TypeOK, Prepared
<1>6. /\ \A v \in Uploads \ {u} : up'[v] = Idle
      /\ \/ up'[u] = Idle
         \/ /\ up'[u] = [up[u] EXCEPT !.pc = "rename"]
            /\ name' = name
            /\ up[u].rel.gen > active.gen /\ up[u].rel.gen > staged.gen
  BY <1>1, <1>5 DEF Check, Stale, Return, Inv, TypeOK
<1>7. up'[u] = [up[u] EXCEPT !.pc = "rename"] =>
        /\ up'[u].pc = "rename" /\ up'[u].file = NoInode
        /\ up'[u].rel = up[u].rel /\ up'[u].mod = up[u].mod
  BY <1>4 DEF Inv, TypeOK
<1>8. name' = name => Content("tmp")' = Content("tmp")
  BY <1>2, ContentKept
<1>9. OneUpload'
  BY <1>1, <1>2, <1>6 DEF OneUpload
<1>10. OneName'
  BY <1>2, <1>3 DEF Inv, OneName, Removed, TypeOK
<1>11. UploadConsistent'
  BY <1>1, <1>2, <1>4, <1>6, <1>7, <1>8 DEF UploadConsistent
<1>12. SlotsConsistent'
  BY <1>1, <1>2, <1>3 DEF Inv, SlotsConsistent, Counted
<1>13. GuestExcludes'
  BY <1>2 DEF Inv, GuestExcludes
<1> QED
  BY <1>9, <1>10, <1>11, <1>12, <1>13 DEF Inv

\* The staged file changes before the staged metadata does.
LEMMA RenameInv ==
  ASSUME Inv, TypeOK', Prepared', Counted, NEW u \in Uploads, Rename(u)
  PROVE  Inv'
<1> USE DEF Names
<1>1. /\ up[u].pc = "rename" /\ up[u] # Idle
      /\ \A v \in Uploads \ {u} : up[v] = Idle
      /\ Idle.pc = "idle" /\ Idle.file = NoInode
      /\ ~activating
  BY DEF Rename, Inv, Prepared, OneUpload, Idle
<1>2. UNCHANGED <<active, module, staged, stagedMod, executing, activating, disk>>
  BY DEF Rename, mutex
<1>3. /\ Content("tmp") = up[u].rel.art /\ up[u].mod = up[u].rel.art
      /\ up[u].file = NoInode
      /\ up[u].rel.gen > active.gen /\ up[u].rel.gen > staged.gen
  BY <1>1 DEF Inv, UploadConsistent
<1>4. \A n \in {"active", "previous"} : name'[n] = name[n] /\ Content(n)' = Content(n)
  BY <1>2, ContentKept DEF Rename, Moved, Inv, TypeOK
<1>5. /\ \A v \in Uploads \ {u} : up'[v] = Idle
      /\ \/ up'[u] = Idle /\ name'["staged"] = NoInode
         \/ /\ up'[u].pc = "install" /\ up'[u].file = NoInode
            /\ up'[u].rel = up[u].rel /\ up'[u].mod = up[u].mod
            /\ name'["staged"] = name["tmp"]
  BY <1>1, <1>3 DEF Rename, Return, Moved, Inv, TypeOK
<1>6. name'["tmp"] = NoInode
  BY DEF Rename, Moved, Inv, TypeOK
<1>7. /\ name'["staged"] = name["tmp"] => Content("staged")' = Content("tmp")
      /\ name'["staged"] = NoInode => Content("staged")' = None
  BY <1>2 DEF Content
<1>13. up'[u] = Idle => troubles' >= 1
  <2>1. up[u].rel.art \in Artifacts
    BY <1>1, ReleaseFacts DEF Inv, Prepared
  <2>2. name["tmp"] # NoInode
    BY <1>3, <2>1, ReleaseFacts DEF Content
  <2>3. up'[u] = Idle => Fails
    BY <1>1, <2>2 DEF Rename, Inv, TypeOK
  <2> QED
    BY <2>3, HostAssumption DEF Fails, Troubled, Inv, TypeOK
<1>8. OneUpload'
  BY <1>1, <1>2, <1>5 DEF OneUpload
<1>9. OneName'
  <2>1. name'["staged"] \in {NoInode, name["tmp"]}
    BY <1>5
  <2> QED
    BY <1>4, <1>6, <2>1 DEF Inv, OneName
<1>10. UploadConsistent'
  BY <1>1, <1>2, <1>3, <1>5, <1>7 DEF UploadConsistent
<1>11. SlotsConsistent'
  BY <1>1, <1>2, <1>4, <1>5, <1>7, <1>13 DEF Inv, SlotsConsistent, Counted
<1>12. GuestExcludes'
  BY <1>2 DEF Inv, GuestExcludes
<1> QED
  BY <1>8, <1>9, <1>10, <1>11, <1>12 DEF Inv

LEMMA InstallInv ==
  ASSUME Inv, TypeOK', Prepared', Counted, NEW u \in Uploads, Install(u)
  PROVE  Inv'
<1> USE DEF Names
<1>1. /\ up[u].pc = "install" /\ up[u] # Idle
      /\ \A v \in Uploads \ {u} : up[v] = Idle
      /\ Idle.pc = "idle" /\ Idle.file = NoInode
      /\ ~activating
  BY DEF Install, Inv, Prepared, OneUpload, Idle, MutexFree
<1>2. /\ staged' = up[u].rel /\ stagedMod' = up[u].mod
      /\ UNCHANGED <<active, module, executing, activating, name, disk>>
  BY DEF Install, mutex
<1>3. \A n \in Names : Content(n)' = Content(n)
  BY <1>2, ContentKept
<1>4. up[u].mod = up[u].rel.art /\ Content("staged") = up[u].rel.art
  BY <1>1 DEF Inv, UploadConsistent
<1>5. \A v \in Uploads : up'[v] = Idle
  BY <1>1 DEF Install, Return, Inv, TypeOK
<1>6. OneUpload'
  BY <1>1, <1>2, <1>5 DEF OneUpload
<1>7. OneName'
  BY <1>2 DEF Inv, OneName
<1>8. UploadConsistent'
  BY <1>1, <1>5 DEF UploadConsistent
<1>9. SlotsConsistent'
  BY <1>1, <1>2, <1>3, <1>4 DEF Inv, SlotsConsistent, Counted
<1>10. GuestExcludes'
  BY <1>2 DEF Inv, GuestExcludes
<1> QED
  BY <1>6, <1>7, <1>8, <1>9, <1>10 DEF Inv

\* The active file is moved away; it stays reachable as the backup.
LEMMA BackupInv ==
  ASSUME Inv, ~Overlapping, TypeOK', Prepared', Counted, NEW g, ActivateBackup(g)
  PROVE  Inv'
<1> USE DEF Names
<1>1. /\ \A v \in Uploads : up[v] = Idle
      /\ Idle.pc = "idle" /\ Idle.file = NoInode
      /\ ~activating /\ executing = NoRelease
  BY DEF ActivateBackup, MaySend, MutexFree, Idle
<1>2. UNCHANGED <<active, module, staged, stagedMod, executing, up, disk>>
  BY DEF ActivateBackup
<1>3. \/ /\ activating'
         /\ name'["previous"] = name["active"] /\ name'["active"] = NoInode
      \/ /\ ~activating'
         /\ name'["previous"] = NoInode /\ name'["active"] = name["active"]
  BY <1>1 DEF ActivateBackup, Moved, Removed, Inv, TypeOK
<1>4. name'["staged"] = name["staged"] /\ name'["tmp"] = name["tmp"]
  BY DEF ActivateBackup, Moved, Removed, Inv, TypeOK
<1>5. /\ Content("staged")' = Content("staged")
      /\ name'["active"] = name["active"] => Content("active")' = Content("active")
      /\ name'["previous"] = name["active"] => Content("previous")' = Content("active")
  BY <1>2, <1>4 DEF Content
<1>6. OneUpload'
  BY <1>1, <1>2 DEF OneUpload
<1>7. OneName'
  BY <1>3, <1>4 DEF Inv, OneName
<1>8. UploadConsistent'
  BY <1>1, <1>2 DEF UploadConsistent
<1>9. SlotsConsistent'
  BY <1>1, <1>2, <1>3, <1>5 DEF Inv, SlotsConsistent, Counted
<1>10. GuestExcludes'
  BY <1>1, <1>2 DEF GuestExcludes
<1> QED
  BY <1>6, <1>7, <1>8, <1>9, <1>10 DEF Inv

\* Promotion moves file, objects and metadata of one release; its failure puts
\* the backup back.
LEMMA PromoteInv ==
  ASSUME Inv, TypeOK', Prepared', Counted, ActivatePromote
  PROVE  Inv'
<1> USE DEF Names
<1>1. /\ activating /\ ~activating' /\ executing = NoRelease
      /\ \A u \in Uploads : up[u].pc \in {"idle", "copy", "compile", "check"}
      /\ UNCHANGED <<executing, up, disk>>
  BY DEF ActivatePromote, Inv, OneUpload, GuestExcludes
<1>2. /\ Content("previous") = active.art \/ (Content("previous") = None /\ troubles >= 2)
      /\ Content("staged") = staged.art \/ (Content("staged") = None /\ troubles >= 1)
      /\ stagedMod = staged.art /\ module = active.art
      /\ name["active"] = NoInode
  BY <1>1 DEF Inv, SlotsConsistent
<1>3. staged.art \in Artifacts /\ None \notin Artifacts
  BY <1>1, ReleaseFacts DEF Inv, TypeOK, Prepared
<1>4. troubles \in Nat
  BY HostAssumption DEF Inv, TypeOK
<1>14. ASSUME Troubled((IF name["staged"] # NoInode THEN 1 ELSE 0) + 1)
       PROVE  troubles' >= 2
  <2>1. CASE name["staged"] # NoInode
    BY <1>4, <1>14, <2>1 DEF Troubled
  <2>2. CASE name["staged"] = NoInode
    <3>1. troubles >= 1
      BY <1>2, <1>3, <2>2 DEF Content
    <3> QED
      BY <1>4, <1>14, <2>2, <3>1 DEF Troubled
  <2> QED
    BY <2>1, <2>2
<1>5. \/ /\ name["staged"] # NoInode
         /\ name'["active"] = name["staged"]
         /\ name'["staged"] = NoInode /\ name'["previous"] = NoInode
         /\ active' = staged /\ module' = stagedMod
         /\ staged' = NoRelease /\ stagedMod' = None
      \/ /\ name'["active"] = name["previous"]
         /\ name'["staged"] = name["staged"] /\ name'["previous"] = NoInode
         /\ UNCHANGED <<active, module, staged, stagedMod>>
      \/ /\ name' = name /\ troubles' >= 2
         /\ UNCHANGED <<active, module, staged, stagedMod>>
  BY <1>2, <1>14 DEF ActivatePromote, RolledBack, Moved, Inv, TypeOK
<1>6. name'["tmp"] = name["tmp"]
  BY DEF ActivatePromote, RolledBack, Moved, Inv, TypeOK
<1>7. /\ Content("tmp")' = Content("tmp")
      /\ name'["staged"] = name["staged"] => Content("staged")' = Content("staged")
      /\ name'["staged"] = NoInode => Content("staged")' = None
      /\ name'["active"] = name["previous"] => Content("active")' = Content("previous")
      /\ name'["active"] = name["staged"] => Content("active")' = Content("staged")
      /\ name' = name => Content("active")' = None
  BY <1>1, <1>2, <1>6 DEF Content
<1>8. name["staged"] # NoInode => Content("staged") = staged.art
  <2>1. name["staged"] # NoInode => Content("staged") \in Contents
    BY DEF Content, Inv, TypeOK
  <2>2. staged # NoRelease => staged.art \in Artifacts
    BY ReleaseFacts DEF Inv, TypeOK
  <2> QED
    BY <1>2, <2>1, <2>2, HostAssumption DEF Contents
<1>9. OneUpload'
  BY <1>1 DEF Inv, OneUpload
<1>10. OneName'
  BY <1>5, <1>6 DEF Inv, OneName
<1>11. UploadConsistent'
  BY <1>1, <1>6, <1>7 DEF Inv, UploadConsistent
<1>12. SlotsConsistent'
  BY <1>1, <1>2, <1>5, <1>7, <1>8, ReleaseFacts DEF SlotsConsistent, Counted
<1>13. GuestExcludes'
  BY <1>1 DEF GuestExcludes
<1> QED
  BY <1>9, <1>10, <1>11, <1>12, <1>13 DEF Inv

\* Invocations take the mutex and give it back; a restart is a fresh start.
LEMMA OtherInv ==
  ASSUME Inv, TypeOK', Prepared', Counted,
         \/ \E g \in Generations \cup {0} : ProcessBegin(g)
         \/ ProcessEnd \/ Restart \/ UNCHANGED vars
  PROVE  Inv'
<1>1. ASSUME UNCHANGED <<active, module, staged, stagedMod, activating, up, name, disk>>
      PROVE  OneUpload' /\ OneName' /\ UploadConsistent' /\ SlotsConsistent'
  <2>1. OneUpload' /\ OneName'
    BY <1>1 DEF Inv, OneUpload, OneName
  <2>2. \A n \in Names : Content(n)' = Content(n)
    BY <1>1 DEF Content
  <2>3. UploadConsistent' /\ SlotsConsistent'
    BY <1>1, <2>2 DEF Inv, UploadConsistent, SlotsConsistent, Content, Counted, Names
  <2> QED
    BY <2>1, <2>3
<1>2. ASSUME NEW g \in Generations \cup {0}, ProcessBegin(g) PROVE Inv'
  BY <1>1, <1>2 DEF ProcessBegin, MutexFree, Inv, GuestExcludes
<1>3. CASE ProcessEnd
  BY <1>1, <1>3 DEF ProcessEnd, Inv, GuestExcludes
<1>4. CASE Restart
  <2>1. /\ Idle.pc = "idle" /\ Idle.file = NoInode
        /\ \A u \in Uploads : up'[u] = Idle
    BY <1>4 DEF Restart, Idle
  <2>2. OneUpload'
    BY <1>4, <2>1 DEF Restart, OneUpload
  <2>3. OneName'
    BY <1>4 DEF Restart, OneName
  <2>4. UploadConsistent'
    BY <2>1 DEF UploadConsistent
  <2>5. SlotsConsistent'
    BY <1>4, ReleaseFacts, HostAssumption DEF Restart, SlotsConsistent, Content, Names
  <2>6. GuestExcludes'
    BY <1>4 DEF Restart, GuestExcludes
  <2> QED
    BY <2>2, <2>3, <2>4, <2>5, <2>6 DEF Inv
<1>5. CASE UNCHANGED vars
  BY <1>1, <1>5 DEF vars, Inv, GuestExcludes
<1> QED
  BY <1>2, <1>3, <1>4, <1>5

LEMMA StepInv == ~Overlapping /\ Inv /\ [Next]_vars => Inv'
<1> SUFFICES ASSUME ~Overlapping, Inv, [Next]_vars PROVE Inv'
  OBVIOUS
<1>1. TypeOK' /\ Prepared'
  BY StepTypes DEF Inv
<1>3. Counted
  <2>1. Inv => TypeOK
    BY DEF Inv
  <2>2. Works \/ Troubled(0) \/ Troubled(1) \/ Troubled(2)
    <3>1. CASE ActivatePromote
      <4>1. CASE name["staged"] = NoInode
        BY <3>1, <4>1 DEF ActivatePromote
      <4>2. CASE name["staged"] # NoInode
        BY <3>1, <4>2 DEF ActivatePromote
      <4> QED
        BY <4>1, <4>2
    <3>2. CASE [Next]_vars /\ ~ActivatePromote
      BY <3>2
      DEF Next, Upload, Create, Copy, Compile, Check, Rename, Install, ActivateBackup,
          ProcessBegin, ProcessEnd, Restart, vars, Works, Fails
    <3> QED
      BY <3>1, <3>2
  <2> QED
    BY <2>1, <2>2, TroublesCounted
<1>2. ASSUME NEW u \in Uploads, Upload(u) PROVE Inv'
  BY <1>1, <1>2, <1>3, CopyInv, CompileInv, CheckInv, RenameInv, InstallInv DEF Upload
<1> QED
  BY <1>1, <1>2, <1>3, CreateInv, BackupInv, PromoteInv, OtherInv DEF Next

-----------------------------------------------------------------------------
(* What the properties say, for any number of uploads, releases and inodes. *)

LEMMA HostInvariance == ASSUME ~Overlapping PROVE Spec => []Inv
BY InitInv, StepInv, PTL DEF Spec

\* While no request is sent before the last upload returned, module, file and
\* metadata of the active release agree whenever the mutex is free, through failed
\* renames, cut-off bodies and restarts.  A rollback that fails as well leaves no
\* active file, which takes at least two failures, and never another release's.
THEOREM ActiveSlot == ASSUME ~Overlapping PROVE Spec => []ActiveConsistent
<1>1. Inv => ActiveConsistent
  BY HostAssumption DEF Inv, TypeOK, SlotsConsistent, ActiveConsistent
<1> QED
  BY <1>1, HostInvariance, PTL

\* And what the next activation would promote is what the metadata declares.
THEOREM StagedSlot == ASSUME ~Overlapping PROVE Spec => []StagedConsistent
<1>1. Inv => StagedConsistent
  BY DEF Inv, SlotsConsistent, StagedConsistent
<1> QED
  BY <1>1, HostInvariance, PTL

\* And a response names the release whose module ran.
THEOREM HonestResponse == ASSUME ~Overlapping PROVE Spec => []ResponseHonest
<1>1. Inv => ResponseHonest
  BY DEF Inv, SlotsConsistent, GuestExcludes, ResponseHonest
<1> QED
  BY <1>1, HostInvariance, PTL

\* The host implements the release slots: the second critical section stages only a
\* newer generation, promotion activates exactly the staged one, a restart forgets.
THEOREM HostImplementsSlots == ASSUME ~Overlapping PROVE Spec => SlotRefinement
<1>1. Init => Slot!Init
  BY DEF Init, Slot!Init
<1>2. Inv /\ [Next]_vars => [Slot!Next]_(Slot!slots)
  <2> SUFFICES ASSUME Inv, [Next]_vars PROVE [Slot!Next]_(Slot!slots)
    OBVIOUS
  <2> USE DEF Slot!slots
  <2>1. ASSUME NEW u \in Uploads, Install(u) PROVE Slot!Next
    <3>1. up[u].rel \in Releases /\ up[u].rel.gen > active.gen
      BY <2>1 DEF Install, Inv, Prepared, UploadConsistent
    <3>2. Slot!Stage(up[u].rel)
      BY <2>1, <3>1 DEF Install, Slot!Stage
    <3> QED
      BY <3>1, <3>2 DEF Slot!Next
  <2>2. ASSUME NEW u \in Uploads, Upload(u) PROVE [Slot!Next]_(Slot!slots)
    BY <2>1, <2>2 DEF Upload, Copy, Compile, Check, Rename
  <2>3. CASE ActivatePromote
    <3>1. staged # NoRelease
      BY <2>3 DEF ActivatePromote, Inv, Prepared
    <3> QED
      BY <2>3, <3>1 DEF ActivatePromote, Slot!Next, Slot!Activate
  <2>4. CASE Restart
    BY <2>4 DEF Restart, Slot!Next, Slot!Forget
  <2>5. ASSUME NEW u \in Uploads, NEW r \in Releases, Create(u, r)
        PROVE  UNCHANGED Slot!slots
    BY <2>5 DEF Create
  <2>6. CASE (\E g \in Generations : ActivateBackup(g))
    BY <2>6 DEF ActivateBackup
  <2>7. CASE \/ \E g \in Generations \cup {0} : ProcessBegin(g)
             \/ ProcessEnd \/ UNCHANGED vars
    BY <2>7 DEF ProcessBegin, ProcessEnd, vars
  <2> QED
    BY <2>2, <2>3, <2>4, <2>5, <2>6, <2>7 DEF Next
<1> QED
  BY <1>1, <1>2, HostInvariance, PTL DEF Spec, SlotRefinement, Slot!Spec

\* And PUT /wasm rejects stale generations: nothing older than the active release is
\* staged.  A request that gets in between the check and the installation of another
\* one is the only way around the check.
THEOREM StaleUploadsRejected == ASSUME ~Overlapping PROVE Spec => StaleRejected
<1>1. ASSUME Inv, [Next]_vars, staged' \notin {staged, NoRelease}
      PROVE  staged'.gen >= active.gen
  <2>1. PICK u \in Uploads : Install(u)
    BY <1>1
    DEF Next, Upload, Create, Copy, Compile, Check, Rename, ActivateBackup,
        ActivatePromote, ProcessBegin, ProcessEnd, Restart, vars
  <2>2. up[u].rel \in Releases /\ up[u].rel.gen > active.gen /\ staged' = up[u].rel
    BY <1>1, <2>1 DEF Install, Inv, Prepared, UploadConsistent
  <2>3. active.gen \in Nat /\ up[u].rel.gen \in Nat
    BY <1>1, <2>2, ReleaseFacts, HostAssumption DEF Inv, TypeOK, Bootstrap
  <2> QED
    BY <2>2, <2>3
<1>2. Inv /\ [Next]_vars =>
        [staged' \notin {staged, NoRelease} => staged'.gen >= active.gen]_vars
  BY <1>1
<1> QED
  BY <1>2, HostInvariance, PTL DEF Spec, StaleRejected
=============================================================================
