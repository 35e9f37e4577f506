SPECIFICATION FairSpec
CONSTANTS
  Callers <- MCCallers
  Outcomes <- MCOutcomes
  NoOutcome = NoOutcome
INVARIANTS
  OwnResult
PROPERTIES
  ImplementsCalls
  CallReturns
