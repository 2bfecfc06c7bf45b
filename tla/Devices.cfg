SPECIFICATION Spec
CONSTANTS
  PollTimeout = 2
  PollInterval = 1
  OnlineSeconds = 5
  Gap = 1
  Conns = {c1}
  Sims = {1, 2, 9}
  DeviceOf <- MCDeviceOf
  Editors = {e1, e2}
SYMMETRY Symmetry
INVARIANTS OnlineWhilePolling OffInTime OneDefault
PROPERTY DefaultStays
