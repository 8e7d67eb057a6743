SPECIFICATION FairSpec
CONSTANT MaxRequests = 5
INVARIANTS RepliesMatch FramesOutlive
PROPERTY EveryRequestReplied
CHECK_DEADLOCK FALSE
