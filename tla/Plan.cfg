SPECIFICATION PlanSpec
CONSTANTS
  Persons <- MCPeople
  CostDrafts <- MCDrafts
  Entries <- MCEntries
  Proposals <- MCProposals
  Workbooks <- MCWorkbooks
  Configs <- MCConfigs
  ValidOwners <- MCOwners
  SplitModels = {"pooled_equal", "proportional", "equal"}
  LastMonth = 2
  MaxChanges = 4
  ZeroTolerance = 2
INVARIANTS PlanAddsUp FundedWithinMeans
PROPERTIES ImportKeepsTheSums
