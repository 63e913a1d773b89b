CONSTANT Requests <- MCRequests
SPECIFICATION FairPinSpec
INVARIANTS PanelAgrees
PROPERTIES KeepsPromise RetryGetsThrough
