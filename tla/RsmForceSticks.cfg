SPECIFICATION ObservedSpec
CONSTANTS
  Images = {"latch"}
  Program <- MCProgram
  ArenaSize = 16
  DintMin <- MCDintMin
  DintMax = 1
  Null = Null
  UsPerMs = 2
  CounterMod = 16
  TraceCapacity = 0
  HostValues <- MCHostValues
  InputValues <- MCOffInputs
  HostTags = {1}
  ScanGaps = {0}
  ScanDurations = {0}
  FaultsOf = {}
  MaxScans = 2
  MaxFaults = 2
  MaxClock = 0
INVARIANT UnderlyingKept
