SPECIFICATION Spec
CONSTANTS
  Specs <- MCSpecs
  MaxSkip <- MCMaxSkip
  Confirmations <- MCConfirmations
  Needs <- MCNeeds
INVARIANTS
  WindowMatches
  ResultIsConfirmed
  ResultIsReduced
PROPERTY
  EveryRunEnds
