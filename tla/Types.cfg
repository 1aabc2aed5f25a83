CONSTANTS
  Types <- AllTypes
  MaxLength = 3
  Given <- AllStatements
  Copy = "copy"
  Completions <- NewTypes
  Answers <- Refusals
SPECIFICATION TypesSpec
CHECK_DEADLOCK FALSE
INVARIANTS HoldsAll OrderIrrelevant RulesAgree OperandsFit ReportedOnce OneTableDefined
