SPECIFICATION FairSpec
CONSTANTS
  Images = {"latch", "torn", "nested", "badPreset", "dividing", "maths", "garbled", "huge", "writesInput", "tally"}
  Program <- MCProgram
  ArenaSize = 16
  DintMin <- MCDintMin
  DintMax = 1
  Null = Null
  UsPerMs = 2
  CounterMod = 16
  TraceCapacity = 0
  HostValues <- MCHostValues
  InputValues <- MCInputValues
  HostTags = {2}
  ScanGaps = {0}
  ScanDurations = {0}
  FaultsOf = {"INPUT", "OUTPUT", "WATCHDOG"}
  MaxScans = 1
  MaxFaults = 2
  MaxClock = 0
INVARIANTS
  ForceCountExact
  OutputsPublished
  Inductive
  FaultFreeScanRunsAll
  PowerFlow
PROPERTIES
  FaultLatched
  OutputsOnlyInRun
  InputsHeld
  SnapshotShowsState
  ScanReturns
  ImplementsLifecycle
