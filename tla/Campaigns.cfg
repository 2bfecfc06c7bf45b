SPECIFICATION FairCampaignSpec
CONSTANTS
  Msgs = {1, 2}
  CampaignMsgs = {1, 2}
  phone1 = phone1
  Devices <- MCDevices
  Owner <- MCOwner
  Conns = {c1}
  Reports = {r1}
  Runs = {k1}
  Viewers = {v1}
  BatchSize = 1
  LeaseTime = 1
  Ttls = {1}
  Delays = {0}
  Overlap = FALSE
  Faults <- MCFaults
INVARIANTS CompletedIsOver EventOnce NoLostEvent
PROPERTIES CancelHolds NeverStuckOpen Refines
