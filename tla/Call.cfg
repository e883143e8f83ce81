\* An installation of up to two manifests and its replay; two calls or probes
\* over two of them, loads of up to two resources, three listeners.
SPECIFICATION Spec
CONSTANTS
  None = None
  Running = Running
  NotAnObject = NotAnObject
  Schema <- MCSchema
  Rules <- MCRules
  Prompts <- MCPrompts
  Count = 3
  Kinds = {"code", "gguf"}
  Intents <- MCIntents
  Typo = "typo"
  Declarations <- MCDeclarations
  ToolSchemas = {"log"}
  SchemaSets = {{}, {"log"}}
  Requests <- MCRequests
  Snapshot <- MCSnapshot
  MaxAdds = 2
  MaxTaken = 2
  Records <- MCRecords
  ProbeRuns = 2
  MaxCalls = 2
  MaxSwaps = 1
  Served <- MCServed
INVARIANTS
  TypeOK
  NothingStranded
  UndoneInReverse
  UnwindIsLoud
  RungNamed
  OnceInOrder
  ChoiceAsMeant
  ReplayChoosesSame
  PromptFits
  RunsThePinned
CHECK_DEADLOCK FALSE
