SPECIFICATION Spec
CONSTANTS
  Orders <- LinkLast
  CustomConsumes = FALSE
  SwitchEnabled = FALSE
  CanFaults = {}
  MaxFaults = 0
PROPERTY
  TransitionToVerified
