SPECIFICATION Spec
CONSTANTS
  c1 = c1
  c2 = c2
  Slots <- Callers
  Worker = worker
  none = none
  Rules = {r1, r2}
  FirstRules = {r1}
  Webhooks = {r1}
  Units = 2
  LiteModes = {FALSE}
  MaxTexts = 1
  MaxCalls = 3
  MaxCuts = 1
INVARIANTS IndexFaithful ChatAccounted EachRuleOnce
SYMMETRY Alike
CHECK_DEADLOCK FALSE
