CONSTANTS
    s1 = s1  s2 = s2
    Sessions = {s1, s2}
    Startup = startup
    None = None
    Requests <- MCRequests
    Records <- SmallRecords
    Uuid = 3
    PIPE_BUF = 12
    PipeCap = 16
    ReplyCap = 2
    MaxCalls <- MCCalls
    KillPoints = {"poll"}
    MaxKills = 1
SPECIFICATION FairSpec
CHECK_DEADLOCK FALSE
INVARIANT PipeInv
INVARIANT AnswersTheAsker
INVARIANT ReplyProvesApplied
PROPERTY EveryCallReturns
