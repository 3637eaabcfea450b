SPECIFICATION InstSpec
CONSTANTS
  Windows = {"w1", "w2"}
  Service = "svc"
PROPERTY SecondLaunchOnlySignals
