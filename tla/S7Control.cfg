SPECIFICATION Spec
CONSTANTS
  Ops = {"start", "stop", "status", "cpu_info", "cp_info"}
  StopCodes = {4, 7}
  FragmentLens <- const_FragmentLens
  MaxCalls = 3
  MaxSwitches = 1
INVARIANTS
  StatusWasTrue
  ControlTookEffect
  InfoIsWhole
PROPERTIES
  NoLateControl
CHECK_DEADLOCK FALSE
