SPECIFICATION Spec
CONSTANTS
  Int32Max = 1000000
  MaxGen = 2
  Starts <- MCStarts
  MaxFaults = 1
  Lossy = {"stage", "thresholds", "activate", "edge"}
  Failing = {"stage", "thresholds", "pause", "activate", "edge", "resume", "host"}
  MaxInFlight = 1
  MaxTelemetry = 1
INVARIANTS
  TypeOK
  ActivatesOnlyHeld
PROPERTIES
  StagePaced
  ReleaseAdopted
  HostServesEdge
  BatteryShown
