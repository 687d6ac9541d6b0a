SPECIFICATION PipelineSpec
CONSTANTS
  Tree <- MCTree
  Projects <- MCProjects
  MaxFiles = 3
  MaxFileBytes = 4
  MaxContextChars = 7
  Retries = 1
  Name <- MCName
  GenPath <- MCPath
  Target <- MCTarget
  Reserved = {"generation.json", "generation_metadata.json"}
  Linked = {"link"}
  Above <- MCAbove
  GenJson = "generation.json"
  MetaJson = "generation_metadata.json"
  Outside = "outside"
  Suite <- MCSuite
  MaxGenerations = 2
  Text <- MCText
  Address <- MCAddress
  Invalid = Invalid
  Offline <- MCOffline
  TestDir = "tests"
  TestFile = "tests/generated_cases.txt"
  Edges <- MCEdges
  NativeLists <- MCNative
  GeneratedLists <- MCGenerated
  RequireNew = 2
INVARIANTS PipelineTypeOK SelectionFair MetadataMeansComplete NoMixing VerdictExact
  DemoRestored
PROPERTIES NothingOverwritten PipelineEnds
CHECK_DEADLOCK FALSE
