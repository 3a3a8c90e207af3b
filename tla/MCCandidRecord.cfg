CONSTANTS
  Tables <- MCTables
  Versions = {}
  MaxCalls = 2
SPECIFICATION Spec
INVARIANT RecordRuleIsCandid
