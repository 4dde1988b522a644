CONSTANTS
  Recommendations <- AdvisorIds
  Checks <- CheckKeys
  Cards <- RiskCards
  MaxReceipts = 2
SPECIFICATION Spec
PROPERTY FailuresAlwaysStop
