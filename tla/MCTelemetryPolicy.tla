-------------------------- MODULE MCTelemetryPolicy --------------------------
(***************************************************************************)
(* A small instance of TelemetryPolicy.  The windows are two units long;   *)
(* a gap of one stays inside them, a gap of three does not.                *)
(***************************************************************************)
EXTENDS TelemetryPolicy

MCPolicy ==
  [topic |-> TRUE, mode |-> "auto", desired |-> "", localities |-> {},
   low |-> 0, high |-> 0, specBattery |-> Nil,
   thresholdPolicy |-> "unset", deadlinePolicy |-> "on", deltaPolicy |-> "unset",
   maxDrain |-> 0, riskyWindows |-> 1,
   target |-> 1000, minSlack |-> 0, safetyMargin |-> 0,
   fallback |-> [localExec |-> 0, edgeExec |-> 7, network |-> 0, collect |-> 0]]

MCProfiles ==
  ("f" :> [localExec |-> 20, queue |-> 200, wake |-> 0, edgeExec |-> 2,
           network |-> 100, collect |-> 0, apply |-> 0])

Silent == [exec |-> Nil, queue |-> Nil, wake |-> Nil, edgeExec |-> Nil,
           network |-> Nil, collect |-> Nil, apply |-> Nil]
Report(battery, mode, function) ==
  [battery |-> battery, mode |-> mode, source |-> "real", function |-> function] @@ Silent

\* Batteries at and above the thresholds, two that differ by a drain and one out of
\* range; fast and slow edge invocations, one without timings, one without a mode,
\* one of another function.
MCMessages ==
  {[Report(44, Local, "f") EXCEPT !.exec = 30, !.queue = -5],
   Report(40, "", ""),
   [Report(20, Edge, "f") EXCEPT !.exec = 1200, !.network = 1000, !.edgeExec = 5],
   [Report(120, Edge, "f") EXCEPT !.exec = 40],
   [Report(36, Local, "g") EXCEPT !.source = "simulated"]}
=============================================================================
