SPECIFICATION ObservedSpec
CONSTANTS
  Images = {"timing", "timedReset", "badPreset", "counting", "resetFirst", "slotTwice", "latch"}
  Program <- MCProgram
  ArenaSize = 16
  DintMin <- MCDintMin
  DintMax = 1
  Null = Null
  UsPerMs = 2
  CounterMod = 16
  TraceCapacity = 0
  HostValues <- MCHostValues
  InputValues <- MCInputValues
  HostTags = {}
  ScanGaps = {1, 3}
  ScanDurations = {0}
  FaultsOf = {"INPUT"}
  MaxScans = 3
  MaxFaults = 2
  MaxClock = 7
INVARIANTS
  InstructionsCoherent
  TimerNeverEarly
PROPERTIES
  StopDeEnergizes
  OnlyRisesCount
