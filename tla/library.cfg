SPECIFICATION MCSpec
CONSTANTS
  CR = CR
  LF = LF
  Garbage = Garbage
  X = X
  Y = Y
  Z = Z
  Chunks <- SmallChunks
  Rooms = {1, 2, 3}
  InitSizes = {0, 3}
  MaxWritten = 5
  Procs = {u1, u2, u3}
  Sizes = {1, 2}
  MaxSegs = 3
  NoSegment = NoSegment
  LogMaxFd = 5
  SetLevels <- SomeSetLevels
  Levels = {0, 3, 5}
  Lengths = {5, 6, 9}
  LineSize = 8
  DatagramSize = 8
  HeaderSize = 2
  Paths <- SomePaths
  Cut <- SomeCut
  Files <- SomeFiles
  Keys = {u1, u2, u3}
  NoData = NoData
  Slots = 3
  nrows = 2
  Ids <- SomeIds
  Ips = {"x", "y"}
  Names = {"h", "x"}
  GroupFiles <- SomeGroupFiles
  MaxFd = 3
  FileTexts <- SomeFileTexts
  BufferSize = 6
  Urls <- SomeUrls
  Spaces = {1, 3, 6}
  FileNames <- SomeFileNames
  Strings <- SomeStrings
  ClockTimes <- SomeClockTimes
  Steps <- SomeSteps
  Thousand = 3
  IntSize = 16
SYMMETRY Alike
PROPERTY IsStream
INVARIANT SegmentsAreTrue
PROPERTY OwnsItsFds
INVARIANT LineInBuffer
INVARIANT DirsAreMade
PROPERTY FileAnswersAreTrue
INVARIANT TextsAreRight
INVARIANT HelpersAreRight
PROPERTY IsDictionary
INVARIANT WalkMeetsAll
INVARIANT IsSearchTree
PROPERTY IsRing
INVARIANT GroupsAnswer
CHECK_DEADLOCK FALSE
