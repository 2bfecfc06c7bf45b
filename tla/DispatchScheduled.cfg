SPECIFICATION Spec
CONSTANTS
  Msgs = {1}
  CampaignMsgs = {1}
  phone1 = phone1
  Devices <- MCDevices
  Owner <- MCOwner
  Conns = {c1}
  Reports = {r1}
  Runs = {k1}
  BatchSize = 1
  LeaseTime = 1
  Ttls = {1}
  Delays = {2}
  Overlap = FALSE
  Faults <- MCFaultsNoCrash
INVARIANT ExpireOnlyAfterDue
