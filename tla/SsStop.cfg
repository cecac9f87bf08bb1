SPECIFICATION FairSpec
CONSTANT MaxStarts = 1
PROPERTY StopCompletes
