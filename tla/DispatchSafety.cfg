SPECIFICATION Spec
CONSTANTS
  Msgs = {1}
  CampaignMsgs = {1}
  phone1 = phone1
  Devices <- MCDevices
  Owner <- MCOwner
  Conns = {c1, c2}
  Reports = {r1, r2}
  Runs = {k1, k2}
  BatchSize = 1
  LeaseTime = 1
  Ttls = {1}
  Delays = {0, 1}
  Overlap = TRUE
  Faults <- MCFaults
SYMMETRY Symmetry
INVARIANTS TypeOK AtMostOnce NeverHandedOut RowsConsistent NothingInvented ExpiredEventOnce
PROPERTY FinalRows
