\* One patching task, nothing goes wrong.
SPECIFICATION Spec
CONSTANTS
  fix = fix
  review = review
  Tasks <- OneFix
  Mutating <- OneFix
  Files = {f1}
  Original = Original
  Torn = Torn
  None = None
  RepairLimit = 1
  MaxTexts = 0
  MaxPatching = 1
  MaxCrashes = 0
  MaxFaults = 0
INVARIANT FailLeavesNoPatch
CHECK_DEADLOCK FALSE
