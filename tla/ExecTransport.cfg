CONSTANTS
    Prompts = {p1, p2}
    Initial = p1
    NoRun = NoRun
SPECIFICATION FairSpec
INVARIANTS WorkingHasWaiter CleanWhenSaved
PROPERTIES AnsweredAfterOutput StopEnds
