----------------------------- MODULE ReleaseSlot -----------------------------
(***************************************************************************)
(* What a runtime of the continuum promises about releases: it holds one   *)
(* active and at most one staged release tuple, staging prepares a newer   *)
(* generation without selecting it, and activation makes exactly the       *)
(* staged tuple active.  The device release manager (DeviceRelease) and    *)
(* the edge host (EdgeHost) are compared with this specification.  It      *)
(* promises this as long as the store under the slots does: once it has    *)
(* kept half of a write, or could not be read, anything may be in a slot.  *)
(***************************************************************************)
EXTENDS Naturals

CONSTANTS
  Releases,   \* the release tuples the operator may publish, records with a gen
  Bootstrap,  \* the tuple a runtime is active with before any release
  NoRelease,  \* an empty slot
  Durable     \* FALSE for a runtime whose slots do not survive a restart

VARIABLES
  active,
  staged,
  intact     \* the store has kept and returned whole tuples so far

slots == <<active, staged, intact>>

Init ==
  /\ active = Bootstrap
  /\ staged = NoRelease
  /\ intact = TRUE

\* A newer generation is prepared; it may replace one that was staged before.
Stage(r) ==
  /\ r.gen > active.gen
  /\ staged' = r
  /\ UNCHANGED active

\* The staged tuple, and no other, becomes the active one.
Activate ==
  /\ staged # NoRelease
  /\ active' = staged
  /\ staged' = NoRelease

\* A restart of a runtime that keeps its slots in memory.
Forget ==
  /\ ~Durable
  /\ active' = Bootstrap
  /\ staged' = NoRelease

\* The store loses or has lost a tuple, for good.
Broken == ~intact'

Next ==
  \/ /\ intact /\ intact'
     /\ (\E r \in Releases : Stage(r)) \/ Activate \/ Forget
  \/ Broken

Spec == Init /\ [][Next]_slots
=============================================================================
