SPECIFICATION FairSpec
CONSTANT MaxStarts = 2
INVARIANTS TypeOK StoppedIsClean ConnectedIsComplete NoOverlap NothingLeaks BootMeansRunning IInv OwnTunnel
PROPERTIES StatesFollow StopCompletesOrHangs ConnectingResolves KeepsPromise
