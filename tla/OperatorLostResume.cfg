SPECIFICATION FairSpec
CONSTANTS
  Int32Max = 1000000
  MaxGen = 2
  Starts <- LowStart
  MaxFaults = 1
  Lossy = {"resume"}
  Failing = {}
  MaxInFlight = 1
  MaxTelemetry = 1
PROPERTIES
  AdmissionReturns
