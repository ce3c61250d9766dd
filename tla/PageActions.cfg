SPECIFICATION SpecPage
CONSTANT Request = {r1, r2}
INVARIANTS
  SwitchTakesEffect
PROPERTIES
  OneWipePerRequest
  PromisedWipeIsDone
  ComesUp
