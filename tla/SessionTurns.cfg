CONSTANTS
    MaxTurns = 2
    MaxExtras = 1
    MaxSubmitAttempts = 1
SPECIFICATION FairSpec
PROPERTIES SummaryOfItsTurn  DeliveryEnds WorkingEnds FinishedTurnSummarised
CHECK_DEADLOCK FALSE
