SPECIFICATION Spec
CONSTANTS
  Msgs = {1}
  CampaignMsgs = {}
  phone1 = phone1
  Devices <- MCDevices
  Owner <- MCOwner
  Conns = {c1}
  Reports = {r1}
  Runs = {k1}
  BatchSize = 1
  LeaseTime = 1
  Ttls = {1}
  Delays = {0}
  Overlap = FALSE
  Faults <- MCFaultsNoCrash
INVARIANT EveryFailureTold
