SPECIFICATION ScadaSpec
CONSTANTS
  small = small
  small2 = small2
  fitting = fitting
  fitting2 = fitting2
  large = large
  large2 = large2
  huge = huge
  bad = bad
  None = None
  Images <- SomeImages
  ValidImages <- SomeValid
  Need <- SomeNeed
  AlarmDefinitions <- SomeAlarms
  Readings <- AlarmReadings
  Absent = Absent
  AlarmMaxTime = 6
  AlarmMaxVersion = 8
  RouteCalls = {c1, c2}
  RouteReadings <- AllReadings
  Deadband = 1
  MinimumInterval = 1
  Substitutes = TRUE
  SubstituteValue = 0
  NeverSent = NeverSent
  RouteMaxTime = 3
  RouteMaxCalls = 6
  QueueSize = 3
  BatchSize = 2
  Sentinel = Sentinel
  HistoryMaxSamples = 5
  Programs = {programA, programB}
  programA = programA
  programB = programB
  Manifest <- SomeManifests
  AttemptLimits <- SomeLimits
  Unlimited = Unlimited
  Sequences = {1}
  NoProgram = NoProgram
  ConnectionResets = TRUE
  Commands = {cmd1, cmd2}
  ZeroCommand = zero
  QueueCapacity = 3
  HeaderSize = 3
  MinFrameSize = 5
  MaxFrameSize = 8
  WordMod = 16
  StreamCapacities = {7, 12}
  Transmissions <- SomeTransmissions
  LinkCalls = {hello, call1, call2}
  Hello = hello
  IdMod = 3
  SizeMod = 64
  ImplSize = 9
  TagSize = 5
  ForceSize = 3
  StateSize = 6
  PowerSize = 1
  Arenas <- SomeArenas
  Shapes <- SomeShapes
  NoShape = NoShape
  HeaderBytes = 1
  DescriptorBytes = 1
  KindCount = 2
  WordLimit = 8
  Files <- SomeFiles
INVARIANT RoutePromises
CHECK_DEADLOCK FALSE
