SPECIFICATION FairSpec
CONSTANTS
    NPorts = 2
    Pbit = 2
    MaxValue = 3
    Callers <- BothCallers
    Lines <- SmallLines
    Requests <- SmallRequests
INVARIANT TypeOK
INVARIANT RepairedWhenClean
INVARIANT ReplyTellsCommand
PROPERTY NoGlitch
PROPERTY CallsReturn
