SPECIFICATION RevokeSpec
CONSTANT MaxStarts = 1
INVARIANT StoppedAfterCleanUp
