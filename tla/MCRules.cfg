SPECIFICATION RulesSpec
CONSTANTS
  s1 = s1
  s2 = s2
  s3 = s3
  MaxCalls = 5
  MaxDepth = 2
  Suites <- MCSuites
  Digits = {"1"}
  Letters = {"a", "G", "P"}
  Declarations <- MCDeclarations
  Texts <- MCTexts
  LowerOf <- MCLowerOf
  MinLength = 2
  Trees <- MCTrees
  Fields <- MCFields
  Numbers <- MCNumbers
  Shown <- MCShown
  TagFilters <- MCTagFilters
  Schema <- MCSchema
  Table <- MCTable
  Cases <- MCCases
  Files = {"f", "g"}
  Connections = {"a", "b"}
  DefaultConnection = "a"
  HasTables <- MCHasTables
  HasSequences = {"b"}
  Menu <- MCMenu
  Budget <- MCBudget
  MaxAttempts = 2
  MaxFaults = 1
INVARIANTS ChecksExact OneMeaning SecretsMasked CommentsPlaced SelectionAgrees StatementsExact StatementsLand
CHECK_DEADLOCK FALSE
