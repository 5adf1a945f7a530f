SPECIFICATION Spec
CONSTANTS
    NPorts = 2
    Pbit = 2
    MaxValue = 3
    NEntries = 2
    tableVal <- FewCommands
    Lines <- OneLine
    Worlds <- AllWorlds
INVARIANT BoardFollowsScript
INVARIANT PinsFollowScript
PROPERTY ImplementsHost
PROPERTY ImplementsOutputs
PROPERTY AnswerTellsBoard
PROPERTY CommandEnds
