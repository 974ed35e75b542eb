\* A patching and a reviewing task at once, a patch of one or two files, one
\* crash of the host and one fault.  The system stops when both have ended.
SPECIFICATION FairSpec
CONSTANTS
  fix = fix
  review = review
  Tasks <- FixAndReview
  Mutating <- OneFix
  Files = {f1, f2}
  Original = Original
  Torn = Torn
  None = None
  RepairLimit = 1
  MaxTexts = 1
  MaxPatching = 1
  MaxCrashes = 1
  MaxFaults = 1
INVARIANTS TypeOK TraceMatchesAnswer SpilloverReadable
PROPERTIES ImplementsTransactions EveryTaskAnswered
CHECK_DEADLOCK FALSE
