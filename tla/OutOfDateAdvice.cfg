SPECIFICATION SpecCalm
CONSTANTS
  Version <- TwoVersions
  BadVersion <- BadUpdate
  Torn = Torn
  None = None
INVARIANTS
  OutOfDateWasSelected
