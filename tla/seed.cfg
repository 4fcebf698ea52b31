CONSTANT Null = Null
SPECIFICATION Spec
INVARIANTS
  StepsFindTheirParents
  SeededWhenDone
  SeedObeysRules
