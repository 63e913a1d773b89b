CONSTANT MaxControls = 1
SPECIFICATION FairSpec
PROPERTY ShutdownCompletes
