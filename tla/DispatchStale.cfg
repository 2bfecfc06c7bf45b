SPECIFICATION Spec
CONSTANTS
  Msgs = {1}
  CampaignMsgs = {}
  phone1 = phone1
  Devices <- MCDevices
  Owner <- MCOwner
  Conns = {c1}
  Reports = {r1, r2}
  Runs = {k1}
  BatchSize = 1
  LeaseTime = 1
  Ttls = {2}
  Delays = {0}
  Overlap = TRUE
  Faults <- MCFaultsNoCrash
PROPERTY GenuineFailureStays
