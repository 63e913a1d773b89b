CONSTANTS
  Values <- MCValues
  Targets <- MCTargets
  Transition <- EitherTransition
  Velocity = 3
  MaxPeriods = 3
  StepBound = 8
  none = none
  NoEntry = none
  Defaults <- MCDefaults
  FrameSize = 2
SPECIFICATION OutputFairSpec
INVARIANTS SettledAtControl LastFrameCurrent ParkedAtTarget
PROPERTIES TargetIsSent NoOvershoot DestructorReturns
