CONSTANT MaxControls = 2
SPECIFICATION FairSpec
INVARIANTS NoThreadLeftBehind NoCircularWait
PROPERTIES RequestHeeded ShutsDown
