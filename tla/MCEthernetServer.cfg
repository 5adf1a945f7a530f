SPECIFICATION FairSpec
CONSTANTS
    p1 = p1
    p2 = p2
    socket_num = 2
    Peers <- TwoPeers
    MaxChunks = 1
    MaxServices = 2
    Failures <- AllFailures
    Weathers <- AllWeathers
    Programs <- BothPrograms
INVARIANT TypeOK
INVARIANT OneListener
INVARIANT ConnectionTracked
INVARIANT ListenerIsPolled
PROPERTY RequestRead
PROPERTY ListensAgain
